--------------------------- MODULE BudgetsProofs ---------------------------
(***************************************************************************)
(* What Budgets guarantees for every number of workers, budgets, expenses, *)
(* requests and documents, and every set of calls.                         *)
(*                                                                         *)
(* The inductive invariant IInv adds to the types what a transaction in    *)
(* progress relies on: the rows it names stay (Known), it holds its budget *)
(* (BudgetHeld) and its expense or document (RowHeld) once the statements  *)
(* that lock them are behind it, so what it has read of the commitments    *)
(* (SeesApproved) and of the payments (SeesPaid) still holds, and nothing  *)
(* is committed on a budget that was never approved (Shape).  A step of    *)
(* one worker is shown to keep its own part and, by Frame, the others'.    *)
(*                                                                         *)
(* A second invariant, Settled, rests on the first: the totals are those   *)
(* of the rows (Tallied, with the sums of SumTheorems), a worker closing a *)
(* budget holds the expenses it has and what it has seen of their payments *)
(* still holds (Closing), nothing is stranded on a budget that is not      *)
(* active, and a closed one owes nothing.                                  *)
(*                                                                         *)
(* A third, LocksExplained, says which rows a transaction may hold: those  *)
(* its statements have asked for so far.  Deadlocks are explained from it. *)
(***************************************************************************)
EXTENDS Budgets, SumTheorems, TLAPS

-----------------------------------------------------------------------------

(* The place, in a call's plan, of the statement that locks its budget.    *)
BudgetStep(c) == IF c.op \in RequestOps \cup ExpenseOps \cup DocumentOps THEN 2 ELSE 1

Known(w) == Busy(w) => Named(work[w].call)

BudgetHeld(w) ==
    LET c == work[w].call
    IN  Busy(w) /\ c.op # "create budget" /\ work[w].step > BudgetStep(c) =>
            lock[BudgetRow(BudgetOf(c))] = w

RowHeld(w) ==
    LET c == work[w].call
    IN  Busy(w) /\ work[w].step > 1 =>
            /\ c.op \in ExpenseOps => lock[ExpenseRow(c.expense)] = w
            /\ c.op \in DocumentOps => lock[DocumentRow(c.document)] = w

SeesApproved(w) ==
    LET c == work[w].call
    IN  Busy(w) /\ c.op = "approve expense" /\ work[w].step > 3 =>
            /\ work[w].spent = committed[BudgetOf(c)]
            /\ work[w].seen.funds[BudgetOf(c)] <= funds[BudgetOf(c)]

SeesPaid(w) ==
    LET c == work[w].call
    IN  Busy(w) /\ c.op = "disburse" /\ work[w].step > 3 =>
            Viewed(w) /\ paid[c.expense] <= work[w].seen.paid[c.expense]

Sound(w) == Known(w) /\ BudgetHeld(w) /\ RowHeld(w) /\ SeesApproved(w) /\ SeesPaid(w)

Inserts(w) == Busy(w) /\ work[w].call.op \in Creations

OneInserter ==
    \A w, x \in Worker : w # x /\ Inserts(w) /\ Inserts(x) =>
        Inserted(work[x].call) # Inserted(work[w].call)

Approved(b) == b \in DOMAIN budget /\ budget[b].status \in {"active", "closed"}

Shape ==
    /\ \A e \in DOMAIN expense : Approved(expense[e].budget)
    /\ \A r \in DOMAIN request : request[r].budget \in DOMAIN budget
    /\ \A b \in Budget : ~Approved(b) => committed[b] = 0
    /\ \A e \in Expense : e \notin DOMAIN expense => paid[e] <= 0

IInv ==
    /\ TypeOK
    /\ \A w \in Worker : Sound(w)
    /\ OneInserter
    /\ Shape
    /\ WithinEnvelope
    /\ EngagedOnce
    /\ PaidWithinAmount

-----------------------------------------------------------------------------
(* Calls and plans.                                                        *)

LEMMA CallsWellFormed ==
  ASSUME TypeOK, NEW w \in Worker, Busy(w)
  PROVE  work[w].call \in Call /\ WellFormed(work[w].call)
  <1>1. work[w] \in WorkRecord
    BY DEF TypeOK
  <1>2. work[w].call \in Call
    BY <1>1 DEF WorkRecord, Busy
  <1> QED BY <1>2, BudgetsAssumption

LEMMA BudgetIsKnown ==
  ASSUME TypeOK, Shape, NEW c \in Call, Named(c), c.op # "create budget"
  PROVE  BudgetOf(c) \in DOMAIN budget /\ BudgetOf(c) \in Budget
  <1>1. WellFormed(c)
    BY BudgetsAssumption
  <1>2. BudgetOf(c) \in DOMAIN budget
    <2>1. CASE c.op \in ExpenseOps
      BY <2>1 DEF Named, BudgetOf, Shape, Approved
    <2>2. CASE c.op \in RequestOps /\ c.op \notin ExpenseOps
      BY <2>2 DEF Named, BudgetOf, Shape
    <2>3. CASE c.op \notin ExpenseOps /\ c.op \notin RequestOps
      BY <1>1, <2>3 DEF Named, BudgetOf, WellFormed, Op
    <2> QED BY <2>1, <2>2, <2>3
  <1> QED BY <1>2 DEF TypeOK

(* What each plan is, without the CASE.                                    *)
LEMMA PlanForms ==
  ASSUME NEW c \in Call
  PROVE  /\ c.op = "close" => Plan(c) = ClosePlan(c)
         /\ c.op = "cancel" => Plan(c) = <<{BudgetRow(c.budget)}, View>>
         /\ c.op \in BudgetOps \ {"close", "cancel"} => Plan(c) = <<{BudgetRow(c.budget)}>>
         /\ c.op \in {"request funds", "create expense"} => Plan(c) = <<{BudgetRow(c.budget)}>>
         /\ c.op \in RequestOps =>
              Plan(c) = <<{RequestRow(c.request)}, {BudgetRow(BudgetOf(c))}>>
         /\ c.op = "approve expense" => Plan(c) = ApprovePlan(c)
         /\ c.op = "cancel expense" => Plan(c) = CancelExpensePlan(c)
         /\ c.op = "disburse" => Plan(c) = DisbursePlan(c)
         /\ c.op \in ExpenseOps \ {"approve expense", "cancel expense", "disburse"} =>
              Plan(c) = <<{ExpenseRow(c.expense)}, {BudgetRow(BudgetOf(c))}>>
         /\ c.op = "engage" => Plan(c) = EngagePlan(c)
         /\ c.op = "link" => Plan(c) = <<{DocumentRow(c.document)}, {BudgetRow(c.budget)}, View>>
  <1> USE DEF Plan, RequestOps, ExpenseOps
  <1>1. c.op = "close" => Plan(c) = ClosePlan(c)
    OBVIOUS
  <1>2. c.op = "cancel" => Plan(c) = <<{BudgetRow(c.budget)}, View>>
    OBVIOUS
  <1>3. c.op \in BudgetOps \ {"close", "cancel"} => Plan(c) = <<{BudgetRow(c.budget)}>>
    BY DEF BudgetOps
  <1>4. c.op \in {"request funds", "create expense"} => Plan(c) = <<{BudgetRow(c.budget)}>>
    BY DEF CreatePlan
  <1>5. c.op \in RequestOps =>
              Plan(c) = <<{RequestRow(c.request)}, {BudgetRow(BudgetOf(c))}>>
    OBVIOUS
  <1>6. c.op = "approve expense" => Plan(c) = ApprovePlan(c)
    OBVIOUS
  <1>7. c.op = "cancel expense" => Plan(c) = CancelExpensePlan(c)
    OBVIOUS
  <1>8. c.op = "disburse" => Plan(c) = DisbursePlan(c)
    OBVIOUS
  <1>9. c.op \in ExpenseOps \ {"approve expense", "cancel expense", "disburse"} =>
              Plan(c) = <<{ExpenseRow(c.expense)}, {BudgetRow(BudgetOf(c))}>>
    OBVIOUS
  <1>10. c.op = "engage" => Plan(c) = EngagePlan(c)
    OBVIOUS
  <1>11. c.op = "link" => Plan(c) = <<{DocumentRow(c.document)}, {BudgetRow(c.budget)}, View>>
    OBVIOUS
  <1> HIDE DEF Plan, RequestOps, ExpenseOps
  <1> QED
    BY <1>1, <1>2, <1>3, <1>4, <1>5, <1>6, <1>7, <1>8, <1>9, <1>10, <1>11

(* The budget's row is alone in the statement that locks it: the first, or *)
(* the second when the call decides on a row of its own.                   *)
LEMMA BudgetFirst ==
  ASSUME NEW c \in Call, c.op \in BudgetOps \cup {"request funds", "create expense"}
  PROVE  LET B == {BudgetRow(BudgetOf(c))}
         IN  \E X, Y, Z, V : Plan(c) \in {<<B>>, <<B, X>>, <<B, X, Y, Z, V>>}
  <1>1. BudgetOf(c) = c.budget
    BY DEF BudgetOf, BudgetOps, RequestOps, ExpenseOps
  <1>2. CASE c.op = "close"
    <2>1. Plan(c) = ClosePlan(c)
      BY <1>2, PlanForms
    <2> QED BY <1>1, <2>1 DEF ClosePlan
  <1>3. CASE c.op = "cancel"
    <2>1. Plan(c) = <<{BudgetRow(c.budget)}, View>>
      BY <1>3, PlanForms
    <2> QED BY <1>1, <2>1
  <1>4. CASE c.op \notin {"close", "cancel"}
    <2>1. Plan(c) = <<{BudgetRow(c.budget)}>>
      BY <1>4, PlanForms
    <2> QED BY <1>1, <2>1
  <1> QED BY <1>2, <1>3, <1>4

LEMMA BudgetSecond ==
  ASSUME NEW c \in Call, c.op \in RequestOps \cup ExpenseOps \cup DocumentOps
  PROVE  LET B == {BudgetRow(BudgetOf(c))}
             D == IF c.op \in RequestOps THEN {RequestRow(c.request)}
                  ELSE IF c.op \in ExpenseOps THEN {ExpenseRow(c.expense)}
                  ELSE {DocumentRow(c.document)}
         IN  \E X, Y : Plan(c) \in {<<D, B>>, <<D, B, X>>, <<D, B, X, Y>>}
  <1>1. CASE c.op \in RequestOps
    <2>1. Plan(c) = <<{RequestRow(c.request)}, {BudgetRow(BudgetOf(c))}>>
      BY <1>1, PlanForms
    <2> QED BY <1>1, <2>1
  <1>2. CASE c.op \in ExpenseOps
    <2> DEFINE D == {ExpenseRow(c.expense)}
               B == {BudgetRow(BudgetOf(c))}
    <2>1. \E X, Y : Plan(c) \in {<<D, B>>, <<D, B, X>>, <<D, B, X, Y>>}
      <3>1. CASE c.op = "approve expense"
        <4>1. Plan(c) = ApprovePlan(c)
          BY <3>1, PlanForms
        <4> QED BY <4>1 DEF ApprovePlan
      <3>2. CASE c.op = "cancel expense"
        <4>1. Plan(c) = CancelExpensePlan(c)
          BY <3>2, PlanForms
        <4> QED BY <4>1 DEF CancelExpensePlan
      <3>3. CASE c.op = "disburse"
        <4>1. Plan(c) = DisbursePlan(c)
          BY <3>3, PlanForms
        <4> QED BY <4>1 DEF DisbursePlan
      <3>4. CASE c.op \notin {"approve expense", "cancel expense", "disburse"}
        <4>1. Plan(c) = <<D, B>>
          BY <1>2, <3>4, PlanForms
        <4> QED BY <4>1
      <3> QED BY <3>1, <3>2, <3>3, <3>4
    <2> QED BY <1>2, <2>1 DEF RequestOps, ExpenseOps
  <1>3. CASE c.op \in DocumentOps
    <2> DEFINE D == {DocumentRow(c.document)}
               B == {BudgetRow(BudgetOf(c))}
    <2>1. BudgetOf(c) = c.budget
      BY <1>3 DEF BudgetOf, RequestOps, ExpenseOps, DocumentOps
    <2>2. \E X, Y : Plan(c) \in {<<D, B>>, <<D, B, X>>, <<D, B, X, Y>>}
      <3>1. CASE c.op = "engage"
        <4>1. Plan(c) = EngagePlan(c)
          BY <3>1, PlanForms
        <4> QED BY <2>1, <4>1 DEF EngagePlan
      <3>2. CASE c.op = "link"
        <4>1. Plan(c) = <<D, {BudgetRow(c.budget)}, View>>
          BY <3>2, PlanForms
        <4> QED BY <2>1, <4>1
      <3> QED BY <1>3, <3>1, <3>2 DEF DocumentOps
    <2> QED BY <1>3, <2>2 DEF RequestOps, ExpenseOps, DocumentOps
  <1> QED BY <1>1, <1>2, <1>3

LEMMA PlanLocksBudget ==
  ASSUME NEW c \in Call
  PROVE  c.op # "create budget" =>
            /\ BudgetStep(c) \in {1, 2}
            /\ Len(Plan(c)) \in Nat
            /\ Len(Plan(c)) >= BudgetStep(c)
            /\ Plan(c)[BudgetStep(c)] = {BudgetRow(BudgetOf(c))}
  <1>1. ASSUME c.op \in RequestOps \cup ExpenseOps \cup DocumentOps
        PROVE  /\ Plan(c)[2] = {BudgetRow(BudgetOf(c))}
               /\ Len(Plan(c)) \in Nat /\ Len(Plan(c)) >= 2
               /\ BudgetStep(c) = 2
    <2>1. BudgetStep(c) = 2
      BY <1>1 DEF BudgetStep
    <2> DEFINE B == {BudgetRow(BudgetOf(c))}
    <2>2. PICK D, X, Y : Plan(c) \in {<<D, B>>, <<D, B, X>>, <<D, B, X, Y>>}
      BY <1>1, BudgetSecond
    <2> HIDE DEF B
    <2>3. PICK p, b : p = Plan(c) /\ b = B
      OBVIOUS
    <2>4. p \in {<<D, b>>, <<D, b, X>>, <<D, b, X, Y>>}
      BY <2>2, <2>3
    <2>5. p[2] = b /\ Len(p) \in Nat /\ Len(p) >= 2
      <3>1. CASE p = <<D, b>>
        BY <3>1
      <3>2. CASE p = <<D, b, X>>
        BY <3>2
      <3>3. CASE p = <<D, b, X, Y>>
        BY <3>3
      <3> QED BY <2>4, <3>1, <3>2, <3>3
    <2> QED BY <2>1, <2>3, <2>5 DEF B
  <1>2. ASSUME c.op \notin RequestOps \cup ExpenseOps \cup DocumentOps, c.op # "create budget"
        PROVE  /\ Plan(c)[1] = {BudgetRow(BudgetOf(c))}
               /\ Len(Plan(c)) \in Nat /\ Len(Plan(c)) >= 1
               /\ BudgetStep(c) = 1
    <2>1. BudgetStep(c) = 1
      BY <1>2 DEF BudgetStep
    <2>2. c.op \in BudgetOps \cup {"request funds", "create expense"}
      BY <1>2, BudgetsAssumption DEF WellFormed, Op, Creations
    <2> DEFINE B == {BudgetRow(BudgetOf(c))}
    <2>3. PICK X, Y, Z, V : Plan(c) \in {<<B>>, <<B, X>>, <<B, X, Y, Z, V>>}
      BY <2>2, BudgetFirst
    <2> HIDE DEF B
    <2>4. PICK p, b : p = Plan(c) /\ b = B
      OBVIOUS
    <2>5. p \in {<<b>>, <<b, X>>, <<b, X, Y, Z, V>>}
      BY <2>3, <2>4
    <2>6. p[1] = b /\ Len(p) \in Nat /\ Len(p) >= 1
      <3>1. CASE p = <<b>>
        BY <3>1
      <3>2. CASE p = <<b, X>>
        BY <3>2
      <3>3. CASE p = <<b, X, Y, Z, V>>
        BY <3>3
      <3> QED BY <2>5, <3>1, <3>2, <3>3
    <2> QED BY <2>1, <2>4, <2>6 DEF B
  <1> QED BY <1>1, <1>2

LEMMA PlanLocksRow ==
  ASSUME NEW c \in Call
  PROVE  /\ c.op \in ExpenseOps => Plan(c)[1] = {ExpenseRow(c.expense)}
         /\ c.op \in DocumentOps => Plan(c)[1] = {DocumentRow(c.document)}
  <1>1. ASSUME c.op \in ExpenseOps PROVE Plan(c)[1] = {ExpenseRow(c.expense)}
    <2> DEFINE D == {ExpenseRow(c.expense)}
    <2>1. c.op \notin RequestOps
      BY <1>1 DEF RequestOps, ExpenseOps
    <2>2. PICK B, X, Y : Plan(c) \in {<<D, B>>, <<D, B, X>>, <<D, B, X, Y>>}
      BY <1>1, <2>1, BudgetSecond
    <2> HIDE DEF D
    <2>3. Plan(c)[1] = D
      BY <2>2
    <2> QED BY <2>3 DEF D
  <1>2. ASSUME c.op \in DocumentOps PROVE Plan(c)[1] = {DocumentRow(c.document)}
    <2> DEFINE D == {DocumentRow(c.document)}
    <2>1. c.op \notin RequestOps /\ c.op \notin ExpenseOps
      BY <1>2 DEF RequestOps, ExpenseOps, DocumentOps
    <2>2. PICK B, X, Y : Plan(c) \in {<<D, B>>, <<D, B, X>>, <<D, B, X, Y>>}
      BY <1>2, <2>1, BudgetSecond
    <2> HIDE DEF D
    <2>3. Plan(c)[1] = D
      BY <2>2
    <2> QED BY <2>3 DEF D
  <1> QED BY <1>1, <1>2

LEMMA PlanViews ==
  ASSUME NEW c \in Call
  PROVE  /\ c.op = "approve expense" => Len(Plan(c)) = 4 /\ Plan(c)[3] = View
         /\ c.op = "disburse" => Len(Plan(c)) = 3 /\ Plan(c)[3] = View
  <1>1. ASSUME c.op = "approve expense" PROVE Len(Plan(c)) = 4 /\ Plan(c)[3] = View
    <2>1. PICK X, Y, Z : ApprovePlan(c) = <<X, Y, View, Z>>
      BY DEF ApprovePlan
    <2>2. Plan(c) = <<X, Y, View, Z>>
      BY <1>1, <2>1, PlanForms
    <2> QED BY <2>2
  <1>2. ASSUME c.op = "disburse" PROVE Len(Plan(c)) = 3 /\ Plan(c)[3] = View
    <2>1. PICK X, Y : DisbursePlan(c) = <<X, Y, View>>
      BY DEF DisbursePlan
    <2>2. Plan(c) = <<X, Y, View>>
      BY <1>2, <2>1, PlanForms
    <2> QED BY <2>2
  <1> QED BY <1>1, <1>2

LEMMA IdleType == Idle \in WorkRecord /\ Idle.call = None
  BY DEF Idle, NotSeen, WorkRecord

LEMMA InitIInv == Init => IInv
  <1> SUFFICES ASSUME Init PROVE IInv
    OBVIOUS
  <1>1. TypeOK
    <2>1. work \in [Worker -> WorkRecord]
      BY IdleType DEF Init
    <2> QED BY <2>1, BudgetsAssumption DEF Init, TypeOK, ReservationStatus
  <1>2. \A w \in Worker : ~Busy(w)
    BY IdleType DEF Init, Busy
  <1>3. \A w \in Worker : Sound(w)
    BY <1>2 DEF Sound, Known, BudgetHeld, RowHeld, SeesApproved, SeesPaid
  <1>4. OneInserter
    BY <1>2 DEF OneInserter, Inserts
  <1>5. Shape
    BY BudgetsAssumption DEF Init, Shape, Approved
  <1>6. WithinEnvelope
    <2> SUFFICES ASSUME NEW b \in Budget PROVE committed[b] <= Limit[b]
      BY DEF WithinEnvelope
    <2>1. b \in DOMAIN Founded => Founded[b].initial \in Nat
      BY BudgetsAssumption DEF BudgetRecord
    <2> QED BY <2>1 DEF Init, Limit
  <1>7. EngagedOnce /\ PaidWithinAmount
    BY DEF Init, EngagedOnce, PaidWithinAmount
  <1> QED BY <1>1, <1>3, <1>4, <1>5, <1>6, <1>7 DEF IInv

-----------------------------------------------------------------------------
(* What a step of w leaves to the others: their transactions, locks, the   *)
(* budget of every row, the totals they hold the rows of.  A row that      *)
(* appears is the one w's call inserts.                                    *)
Appears(w, row) == Inserts(w) /\ row = Inserted(work[w].call)

Frame(w) ==
    /\ \A x \in Worker : x # w => work'[x] = work[x]
    /\ \A row \in Row : lock[row] \in Worker /\ lock[row] # w => lock'[row] = lock[row]
    /\ \A b \in DOMAIN budget : b \in DOMAIN budget'
    /\ \A b \in DOMAIN budget' \ DOMAIN budget : Appears(w, BudgetRow(b))
    /\ \A r \in DOMAIN request : r \in DOMAIN request' /\ request'[r].budget = request[r].budget
    /\ \A r \in DOMAIN request' \ DOMAIN request : Appears(w, RequestRow(r))
    /\ \A e \in DOMAIN expense : e \in DOMAIN expense' /\ expense'[e].budget = expense[e].budget
    /\ \A e \in DOMAIN expense' \ DOMAIN expense : Appears(w, ExpenseRow(e))
    /\ \A b \in Budget : funds'[b] >= funds[b]
    /\ \A b \in Budget : lock[BudgetRow(b)] # w => committed'[b] = committed[b]
    /\ \A e \in Expense : lock[ExpenseRow(e)] # w => paid'[e] <= paid[e]

LEMMA RowsOfIds ==
  /\ \A b \in Budget : BudgetRow(b) \in Row
  /\ \A e \in Expense : ExpenseRow(e) \in Row
  /\ \A d \in Document : DocumentRow(d) \in Row
  BY DEF Row


LEMMA StillNamed ==
  ASSUME IInv, NEW w \in Worker, Frame(w), NEW x \in Worker, x # w, Busy(x), Known(x)
  PROVE  LET c == work[x].call
         IN  /\ Named(c)'
             /\ c.op # "create budget" => BudgetOf(c)' = BudgetOf(c)
  <1> DEFINE c == work[x].call
  <1>1. c \in Call /\ c.op \in Op
    BY CallsWellFormed DEF IInv, WellFormed
  <1>2. Named(c)
    BY DEF Known
  <1>3. c.op \in ExpenseOps => c.expense \in DOMAIN expense' /\ expense'[c.expense].budget = expense[c.expense].budget
    BY <1>2 DEF Named, Frame
  <1>4. c.op \in RequestOps => c.request \in DOMAIN request' /\ request'[c.request].budget = request[c.request].budget
    BY <1>2 DEF Named, Frame
  <1>5. c.op \in (BudgetOps \cup Creations) \ {"create budget"} => c.budget \in DOMAIN budget'
    BY <1>2 DEF Named, Frame
  <1>6. c.op \in Creations => \A row : Appears(w, row) => row # Inserted(c)
    BY DEF IInv, OneInserter, Inserts, Appears
  <1>7. c.op = "create budget" => c.budget \notin DOMAIN budget'
    BY <1>2, <1>6 DEF Named, Frame, Creations, Inserted
  <1>8. c.op = "request funds" => c.request \notin DOMAIN request'
    BY <1>2, <1>6 DEF Named, Frame, Creations, Inserted
  <1>9. c.op \in DocumentOps \cup {"create expense"} => c.expense \notin DOMAIN expense'
    BY <1>2, <1>6 DEF Named, Frame, Creations, Inserted, DocumentOps
  <1>12. work'[x] = work[x]
    BY DEF Frame
  <1>10. Named(c)'
    BY <1>3, <1>4, <1>5, <1>7, <1>8, <1>9, <1>12 DEF Named
  <1>11. BudgetOf(c)' = BudgetOf(c)
    BY <1>3, <1>4, <1>12 DEF BudgetOf
  <1> QED BY <1>10, <1>11

LEMMA OthersSound ==
  ASSUME IInv, TypeOK', NEW w \in Worker, Frame(w), NEW x \in Worker, x # w
  PROVE  Sound(x)'
  <1>1. work'[x] = work[x] /\ (Busy(x)' <=> Busy(x)) /\ (Viewed(x)' <=> Viewed(x))
    BY DEF Frame, Busy, Viewed
  <1>2. CASE ~Busy(x)
    BY <1>1, <1>2 DEF Sound, Known, BudgetHeld, RowHeld, SeesApproved, SeesPaid
  <1>3. CASE Busy(x)
    <2> DEFINE c == work[x].call
    <2>1. c \in Call /\ WellFormed(c)
      BY <1>3, CallsWellFormed DEF IInv
    <2>2. Known(x) /\ BudgetHeld(x) /\ RowHeld(x) /\ SeesApproved(x) /\ SeesPaid(x)
      BY DEF IInv, Sound
    <2>3. Named(c) /\ Named(c)'
      BY <1>3, <2>2, StillNamed DEF Known
    <2>4. c.op # "create budget" => BudgetOf(c)' = BudgetOf(c) /\ BudgetOf(c) \in Budget
      BY <1>3, <2>1, <2>2, <2>3, StillNamed, BudgetIsKnown DEF IInv
    <2>5. \A row \in Row : lock[row] = x => lock'[row] = x
      BY DEF Frame
    <2>6. Known(x)'
      BY <1>1, <2>3 DEF Known
    <2>7. BudgetHeld(x)'
      <3>1. c.op # "create budget" /\ work[x].step > BudgetStep(c) =>
              lock[BudgetRow(BudgetOf(c))] = x
        BY <1>3, <2>2 DEF BudgetHeld
      <3>2. c.op # "create budget" => BudgetRow(BudgetOf(c)) \in Row
        BY <2>4, RowsOfIds
      <3>3. c.op # "create budget" /\ work[x].step > BudgetStep(c) =>
              lock'[BudgetRow(BudgetOf(c)')] = x
        BY <2>4, <2>5, <3>1, <3>2
      <3> QED BY <1>1, <3>3 DEF BudgetHeld, BudgetRow, BudgetStep
    <2>8. c.op \in ExpenseOps => c.expense \in Expense
      BY <2>1 DEF WellFormed
    <2>9. c.op \in DocumentOps => c.document \in Document
      BY <2>1 DEF WellFormed
    <2>10. RowHeld(x)'
      <3>1. work[x].step > 1 =>
            /\ c.op \in ExpenseOps => lock'[ExpenseRow(c.expense)] = x
            /\ c.op \in DocumentOps => lock'[DocumentRow(c.document)] = x
        BY <1>3, <2>2, <2>5, <2>8, <2>9, RowsOfIds DEF RowHeld
      <3> QED BY <1>1, <3>1 DEF RowHeld, ExpenseRow, DocumentRow
    <2>11. work[x].step \in Nat
      BY DEF IInv, TypeOK, WorkRecord
    <2>12. SeesApproved(x)'
      <3>1. ASSUME c.op = "approve expense", work[x].step > 3
            PROVE  /\ work[x].spent = committed'[BudgetOf(c)]
                   /\ work[x].seen.funds[BudgetOf(c)] <= funds'[BudgetOf(c)]
        <4>1. BudgetStep(c) = 2 /\ c.op # "create budget"
          BY <3>1 DEF BudgetStep, ExpenseOps
        <4>2. PICK b \in Budget : b = BudgetOf(c)
          BY <2>4, <4>1
        <4>8. work[x].step > BudgetStep(c)
          <5>1. work[x].step > 3 /\ BudgetStep(c) = 2
            BY <3>1, <4>1
          <5> QED BY <2>11, <5>1
        <4>9. lock[BudgetRow(BudgetOf(c))] = x
          BY <1>3, <2>2, <4>1, <4>8 DEF BudgetHeld
        <4>3. lock[BudgetRow(b)] = x
          BY <4>2, <4>9
        <4>4. committed'[b] = committed[b] /\ funds'[b] >= funds[b]
          BY <4>3 DEF Frame
        <4>5. work[x].spent = committed[b] /\ work[x].seen.funds[b] <= funds[b]
          BY <1>3, <2>2, <3>1, <4>2 DEF SeesApproved
        <4>6. work[x] \in WorkRecord
          BY DEF IInv, TypeOK
        <4>7. work[x].seen.funds[b] \in Int /\ funds[b] \in Int /\ funds'[b] \in Int
          BY <4>6 DEF IInv, TypeOK, WorkRecord
        <4> QED BY <4>2, <4>4, <4>5, <4>7
      <3>2. c.op = "approve expense" => BudgetOf(c)' = BudgetOf(c)
        BY <2>4
      <3> QED BY <1>1, <3>1, <3>2 DEF SeesApproved
    <2>13. SeesPaid(x)'
      <3> SUFFICES ASSUME c.op = "disburse", work[x].step > 3
                   PROVE  Viewed(x) /\ paid'[c.expense] <= work[x].seen.paid[c.expense]
        BY <1>1 DEF SeesPaid
      <3>1. c.expense \in Expense
        BY <2>8 DEF ExpenseOps
      <3>2. lock[ExpenseRow(c.expense)] = x
        BY <1>3, <2>2, <2>11 DEF RowHeld, ExpenseOps
      <3>3. paid'[c.expense] <= paid[c.expense]
        BY <3>1, <3>2 DEF Frame
      <3>4. Viewed(x) /\ paid[c.expense] <= work[x].seen.paid[c.expense]
        BY <1>3, <2>2 DEF SeesPaid
      <3>5. work[x].seen.paid[c.expense] \in Int /\ paid[c.expense] \in Int /\ paid'[c.expense] \in Int
        BY <3>1 DEF IInv, TypeOK, WorkRecord
      <3> QED BY <3>3, <3>4, <3>5
    <2> QED BY <2>6, <2>7, <2>10, <2>12, <2>13 DEF Sound
  <1> QED BY <1>2, <1>3

-----------------------------------------------------------------------------
(* What the end of a transaction leaves, and what it may count on.         *)

LEMMA EndType ==
  ASSUME TypeOK, NEW w \in Worker, End(w)
  PROVE  /\ lock' \in [Row -> Worker \cup {None}]
         /\ work' \in [Worker -> WorkRecord]
         /\ ~Busy(w)'
         /\ \A x \in Worker : x # w => work'[x] = work[x]
         /\ \A row \in Row : lock[row] \in Worker /\ lock[row] # w => lock'[row] = lock[row]
  <1>1. lock' \in [Row -> Worker \cup {None}]
    BY DEF TypeOK, End
  <1>2. work' = [work EXCEPT ![w] = Idle] /\ work \in [Worker -> WorkRecord]
    BY DEF TypeOK, End
  <1>3. work' \in [Worker -> WorkRecord] /\ work'[w].call = None
    BY <1>2, IdleType
  <1>4. \A x \in Worker : x # w => work'[x] = work[x]
    BY <1>2
  <1>5. \A row \in Row : lock[row] # w => lock'[row] = lock[row]
    BY DEF TypeOK, End
  <1> QED BY <1>1, <1>3, <1>4, <1>5 DEF Busy

LEMMA AfterEnd ==
  ASSUME IInv, TypeOK', NEW w \in Worker, Frame(w), End(w)
  PROVE  (\A x \in Worker : Sound(x)') /\ OneInserter'
  <1>1. ~Busy(w)'
    BY EndType DEF IInv
  <1>2. ASSUME NEW x \in Worker PROVE Sound(x)'
    <2>1. CASE x = w
      BY <1>1, <2>1 DEF Sound, Known, BudgetHeld, RowHeld, SeesApproved, SeesPaid
    <2>2. CASE x # w
      BY <2>2, OthersSound
    <2> QED BY <2>1, <2>2
  <1>3. OneInserter'
    <2> SUFFICES ASSUME NEW x \in Worker, NEW y \in Worker, x # y, Inserts(x)', Inserts(y)'
                 PROVE  (Inserted(work[y].call) # Inserted(work[x].call))'
      BY DEF OneInserter
    <2>1. x # w /\ y # w
      BY <1>1 DEF Inserts
    <2>2. work'[x] = work[x] /\ work'[y] = work[y]
      BY <2>1 DEF Frame
    <2>3. Inserts(x) /\ Inserts(y)
      BY <2>2 DEF Inserts, Busy
    <2>4. Inserted(work[y].call) # Inserted(work[x].call)
      BY <2>3 DEF IInv, OneInserter
    <2> QED BY <2>2, <2>4 DEF Inserted, BudgetRow, RequestRow, ExpenseRow
  <1> QED BY <1>2, <1>3

(* A transaction that only ends: a refusal, a replay, a rollback, a crash. *)
LEMMA RollbackInv ==
  ASSUME IInv, NEW w \in Worker, End(w), UNCHANGED tables
  PROVE  IInv'
  <1>1. TypeOK'
    BY EndType DEF IInv, TypeOK, tables
  <1>2. Frame(w)
    BY EndType DEF IInv, TypeOK, tables, Frame
  <1>3. (\A x \in Worker : Sound(x)') /\ OneInserter'
    BY <1>1, <1>2, AfterEnd
  <1>4. Shape' /\ EngagedOnce' /\ PaidWithinAmount'
    BY DEF IInv, tables, Shape, Approved, EngagedOnce, PaidWithinAmount
  <1>5. WithinEnvelope'
    BY DEF IInv, tables, WithinEnvelope, Limit
  <1> QED BY <1>1, <1>3, <1>4, <1>5 DEF IInv

(* A worker about to decide holds what it decides on.                      *)
LEMMA Deciding ==
  ASSUME IInv, NEW w \in Worker, NEW op, Decides(w, op)
  PROVE  LET c == work[w].call
         IN  /\ c \in Call /\ WellFormed(c) /\ c.op = op
             /\ Busy(w) /\ Named(c) /\ Allowed(w) /\ ~Replayed(w) /\ Ready(w)
             /\ op # "create budget" =>
                  /\ HasBudget(w, c)
                  /\ BudgetOf(c) \in DOMAIN budget
                  /\ BudgetOf(c) \in Budget
             /\ op \in ExpenseOps => lock[ExpenseRow(c.expense)] = w
             /\ op \in DocumentOps => lock[DocumentRow(c.document)] = w
  <1> DEFINE c == work[w].call
  <1>1. Busy(w) /\ Ready(w) /\ c.op = op /\ Allowed(w) /\ ~Replayed(w)
    BY DEF Decides, Proceeds
  <1>2. c \in Call /\ WellFormed(c)
    BY <1>1, CallsWellFormed DEF IInv
  <1>3. Named(c) /\ BudgetHeld(w) /\ RowHeld(w)
    BY <1>1 DEF IInv, Sound, Known
  <1>4. work[w].step \in Nat /\ work[w].step > Len(Plan(c))
    BY <1>1 DEF IInv, TypeOK, WorkRecord, Ready
  <1>5. ASSUME op # "create budget"
        PROVE  HasBudget(w, c) /\ work[w].step > 1
               /\ BudgetOf(c) \in DOMAIN budget /\ BudgetOf(c) \in Budget
    <2>1. /\ BudgetStep(c) \in {1, 2}
          /\ Len(Plan(c)) \in Nat
          /\ Len(Plan(c)) >= BudgetStep(c)
      BY <1>1, <1>2, <1>5, PlanLocksBudget
    <2>2. work[w].step > BudgetStep(c)
      BY <1>4, <2>1
    <2>3. lock[BudgetRow(BudgetOf(c))] = w
      BY <1>1, <1>3, <1>5, <2>2 DEF BudgetHeld
    <2>4. BudgetOf(c) \in DOMAIN budget /\ BudgetOf(c) \in Budget
      BY <1>1, <1>2, <1>3, <1>5, BudgetIsKnown DEF IInv
    <2>5. work[w].step > 1
      BY <1>4, <2>1, <2>2
    <2> QED BY <2>3, <2>4, <2>5 DEF HasBudget, Holds
  <1>6. op \in ExpenseOps \cup DocumentOps => op # "create budget"
    BY DEF ExpenseOps, DocumentOps
  <1>7. op \in ExpenseOps \cup DocumentOps => work[w].step > 1
    BY <1>5, <1>6
  <1>8. /\ op \in ExpenseOps => lock[ExpenseRow(c.expense)] = w
        /\ op \in DocumentOps => lock[DocumentRow(c.document)] = w
    BY <1>1, <1>3, <1>7 DEF RowHeld
  <1> QED BY <1>1, <1>2, <1>3, <1>5, <1>8

-----------------------------------------------------------------------------
(* The steps that change no table.                                         *)

LEMMA SameTables ==
  ASSUME IInv, UNCHANGED tables
  PROVE  Shape' /\ WithinEnvelope' /\ EngagedOnce' /\ PaidWithinAmount'
  <1>1. Shape' /\ EngagedOnce' /\ PaidWithinAmount'
    BY DEF IInv, tables, Shape, Approved, EngagedOnce, PaidWithinAmount
  <1>2. WithinEnvelope'
    BY DEF IInv, tables, WithinEnvelope, Limit
  <1> QED BY <1>1, <1>2

LEMMA BeginInv ==
  ASSUME IInv, NEW w \in Worker, NEW c \in Call, Begin(w, c)
  PROVE  IInv'
  <1>1. /\ UNCHANGED tables /\ lock' = lock /\ ~Busy(w) /\ Named(c) /\ Unshared(c)
        /\ work' = [work EXCEPT ![w] = [Idle EXCEPT !.call = c, !.step = 1]]
    BY DEF Begin
  <1>2. [Idle EXCEPT !.call = c, !.step = 1] \in WorkRecord
    BY IdleType DEF WorkRecord
  <1>3. /\ work' \in [Worker -> WorkRecord]
        /\ work'[w].call = c /\ work'[w].step = 1
        /\ \A x \in Worker : x # w => work'[x] = work[x]
    BY <1>1, <1>2 DEF IInv, TypeOK, Idle
  <1>4. TypeOK'
    BY <1>1, <1>3 DEF IInv, TypeOK, tables
  <1>5. Frame(w)
    BY <1>1, <1>3 DEF IInv, TypeOK, tables, Frame
  <1>6. ASSUME NEW x \in Worker PROVE Sound(x)'
    <2>1. CASE x = w
      <3>1. Named(c)'
        BY <1>1 DEF Named, tables
      <3>2. Known(w)'
        <4>1. work'[w].call = c /\ work[w].call' = c
          BY <1>3
        <4> QED BY <1>1, <4>1 DEF Named, Known, tables
      <3>3. ~(work'[w].step > BudgetStep(work'[w].call)) /\ ~(work'[w].step > 1) /\ ~(work'[w].step > 3)
        BY <1>3 DEF BudgetStep
      <3> QED BY <2>1, <3>2, <3>3 DEF Sound, BudgetHeld, RowHeld, SeesApproved, SeesPaid, BudgetStep
    <2>2. CASE x # w
      BY <1>4, <1>5, <2>2, OthersSound
    <2> QED BY <2>1, <2>2
  <1>7. OneInserter'
    <2> SUFFICES ASSUME NEW x \in Worker, NEW y \in Worker, x # y, Inserts(x)', Inserts(y)'
                 PROVE  (Inserted(work[y].call) # Inserted(work[x].call))'
      BY DEF OneInserter
    <2>1. CASE x # w /\ y # w
      <3>1. Inserts(x) /\ Inserts(y) /\ work'[x] = work[x] /\ work'[y] = work[y]
        BY <1>3, <2>1 DEF Inserts, Busy
      <3> QED BY <3>1 DEF IInv, OneInserter, Inserted, BudgetRow, RequestRow, ExpenseRow
    <2>2. CASE x = w
      <3>1. c \in Call /\ c.op \in Creations /\ work'[w].call = c
        BY <1>3, <2>2 DEF Inserts
      <3>2. Inserts(y) /\ work'[y] = work[y]
        BY <1>3, <2>2 DEF Inserts, Busy
      <3>3. Inserted(work[y].call) # Inserted(c)
        BY <1>1, <3>1, <3>2 DEF Unshared, Inserts
      <3> QED BY <2>2, <3>1, <3>2, <3>3 DEF Inserted, BudgetRow, RequestRow, ExpenseRow
    <2>3. CASE y = w
      <3>1. c \in Call /\ c.op \in Creations /\ work'[w].call = c
        BY <1>3, <2>3 DEF Inserts
      <3>2. Inserts(x) /\ work'[x] = work[x]
        BY <1>3, <2>3 DEF Inserts, Busy
      <3>3. Inserted(work[x].call) # Inserted(c)
        BY <1>1, <3>1, <3>2 DEF Unshared, Inserts
      <3> QED BY <2>3, <3>1, <3>2, <3>3 DEF Inserted, BudgetRow, RequestRow, ExpenseRow
    <2> QED BY <2>1, <2>2, <2>3
  <1> QED BY <1>1, <1>4, <1>6, <1>7, SameTables DEF IInv

LEMMA LockRowInv ==
  ASSUME IInv, NEW w \in Worker, LockRow(w)
  PROVE  IInv'
  <1>1. UNCHANGED tables /\ work' = work
    BY DEF LockRow
  <1>2. PICK r \in Wants(w) : lock[r] = None /\ lock' = [lock EXCEPT ![r] = w]
    BY DEF LockRow
  <1>3. /\ lock' \in [Row -> Worker \cup {None}]
        /\ \A row \in Row : lock[row] \in Worker => lock'[row] = lock[row]
    BY <1>2, BudgetsAssumption DEF IInv, TypeOK
  <1>4. TypeOK'
    BY <1>1, <1>3 DEF IInv, TypeOK, tables
  <1>5. Frame(w)
    BY <1>1, <1>3 DEF IInv, TypeOK, tables, Frame
  <1>6. ASSUME NEW x \in Worker PROVE Sound(x)'
    <2>1. CASE x # w
      BY <1>4, <1>5, <2>1, OthersSound
    <2>2. CASE x = w
      <3> DEFINE c == work[w].call
      <3>1. Busy(w) /\ c \in Call /\ WellFormed(c) /\ Named(c)
        BY CallsWellFormed DEF LockRow, Proceeds, IInv, Sound, Known
      <3>2. Known(w) /\ BudgetHeld(w) /\ RowHeld(w) /\ SeesApproved(w) /\ SeesPaid(w)
        BY DEF IInv, Sound
      <3>3. Known(w)' /\ SeesApproved(w)' /\ SeesPaid(w)'
        BY <1>1, <3>2 DEF Known, Named, SeesApproved, SeesPaid, Busy, Viewed, BudgetOf, tables
      <3>4. c.op # "create budget" => BudgetRow(BudgetOf(c)) \in Row
        BY <3>1, BudgetIsKnown, RowsOfIds DEF IInv
      <3>5. BudgetHeld(w)'
        <4>1. c.op # "create budget" /\ work[w].step > BudgetStep(c) =>
                lock'[BudgetRow(BudgetOf(c))] = w
          BY <1>3, <3>1, <3>2, <3>4 DEF BudgetHeld
        <4> QED BY <1>1, <4>1 DEF BudgetHeld, Busy, BudgetStep, BudgetRow, BudgetOf, tables
      <3>6. /\ c.op \in ExpenseOps => c.expense \in Expense
            /\ c.op \in DocumentOps => c.document \in Document
        BY <3>1 DEF WellFormed
      <3>7. work[w].step > 1 =>
              /\ c.op \in ExpenseOps => lock'[ExpenseRow(c.expense)] = w
              /\ c.op \in DocumentOps => lock'[DocumentRow(c.document)] = w
        BY <1>3, <3>1, <3>2, <3>6, RowsOfIds DEF RowHeld
      <3>8. RowHeld(w)'
        BY <1>1, <3>7 DEF RowHeld, Busy, ExpenseRow, DocumentRow
      <3> QED BY <2>2, <3>3, <3>5, <3>8 DEF Sound
    <2> QED BY <2>1, <2>2
  <1>7. OneInserter'
    BY <1>1 DEF IInv, OneInserter, Inserts, Busy, Inserted, BudgetRow, RequestRow, ExpenseRow
  <1> QED BY <1>1, <1>4, <1>6, <1>7, SameTables DEF IInv

LEMMA RowsAreNotView ==
  \A id : {BudgetRow(id)} # View /\ {ExpenseRow(id)} # View /\ {DocumentRow(id)} # View
  <1> DEFINE v == <<"view", "first plain SELECT">>
  <1>1. v[1] = "view" /\ \A id : /\ BudgetRow(id)[1] = "budget"
                              /\ ExpenseRow(id)[1] = "expense"
                              /\ DocumentRow(id)[1] = "document"
    BY DEF BudgetRow, ExpenseRow, DocumentRow
  <1>2. \A id : BudgetRow(id) # v /\ ExpenseRow(id) # v /\ DocumentRow(id) # v
    BY <1>1
  <1> HIDE DEF v
  <1>3. \A id : {BudgetRow(id)} # {v} /\ {ExpenseRow(id)} # {v} /\ {DocumentRow(id)} # {v}
    BY <1>2
  <1> QED BY <1>3 DEF View, v

LEMMA ReturnInv ==
  ASSUME IInv, NEW w \in Worker, Return(w)
  PROVE  IInv'
  <1> DEFINE c == work[w].call
             k == work[w].step
             done == [call   |-> c,
                      step   |-> k + 1,
                      viewed |-> work[w].viewed \/ Statement(w) = View,
                      seen   |-> IF Statement(w) = View
                                 THEN [funds |-> funds, paid |-> paid] ELSE work[w].seen,
                      spent  |-> committed[BudgetOf(c)]]
  <1>1. /\ UNCHANGED tables /\ lock' = lock
        /\ Busy(w) /\ InPlan(w) /\ Wants(w) = {}
        /\ work' = [work EXCEPT ![w] = done]
    BY DEF Return, Proceeds
  <1>2. c \in Call /\ WellFormed(c)
    BY <1>1, CallsWellFormed DEF IInv
  <1>3. Named(c) /\ BudgetHeld(w) /\ RowHeld(w) /\ SeesApproved(w) /\ SeesPaid(w)
    BY <1>1 DEF IInv, Sound, Known
  <1>4. BudgetOf(c) \in Budget
    <2>1. CASE c.op = "create budget"
      BY <1>2, <2>1 DEF BudgetOf, WellFormed, ExpenseOps, RequestOps, Creations
    <2>2. CASE c.op # "create budget"
      BY <1>2, <1>3, <2>2, BudgetIsKnown DEF IInv
    <2> QED BY <2>1, <2>2
  <1>5. work[w] \in WorkRecord /\ k \in Nat /\ work[w].seen \in [funds : [Budget -> Int], paid : [Expense -> Int]]
    BY DEF IInv, TypeOK, WorkRecord
  <1>6. done \in WorkRecord
    <2>1. committed[BudgetOf(c)] \in Int
      BY <1>4 DEF IInv, TypeOK
    <2>2. [funds |-> funds, paid |-> paid] \in [funds : [Budget -> Int], paid : [Expense -> Int]]
      BY DEF IInv, TypeOK
    <2>3. done.seen \in [funds : [Budget -> Int], paid : [Expense -> Int]]
      BY <1>5, <2>2
    <2>4. work[w].viewed \in BOOLEAN
      BY <1>5 DEF WorkRecord
    <2>5. (work[w].viewed \/ Statement(w) = View) \in BOOLEAN
      BY <2>4
    <2>6. c \in Call \cup {None} /\ k + 1 \in Nat
      BY <1>2, <1>5
    <2> QED BY <2>1, <2>3, <2>5, <2>6 DEF WorkRecord
  <1>7. /\ work' \in [Worker -> WorkRecord]
        /\ work'[w] = done
        /\ \A x \in Worker : x # w => work'[x] = work[x]
    BY <1>1, <1>6 DEF IInv, TypeOK
  <1>8. TypeOK'
    BY <1>1, <1>7 DEF IInv, TypeOK, tables
  <1>9. Frame(w)
    BY <1>1, <1>7 DEF IInv, TypeOK, tables, Frame
  <1>10. \A x \in Worker : x # w => Sound(x)'
    BY <1>8, <1>9, OthersSound
  <1>11. /\ work'[w].call = c /\ work'[w].step = k + 1 /\ Busy(w)'
         /\ work'[w].spent = committed[BudgetOf(c)]
    BY <1>1, <1>7 DEF Busy
  <1>12. \A row \in Row : Statement(w) = {row} /\ Statement(w) # View => lock[row] = w
    BY <1>1 DEF Wants, Holds
  <1>13. Known(w)'
    BY <1>1, <1>3, <1>11 DEF Known, Named, tables
  <1>20. c.op # "create budget" =>
           BudgetStep(c) \in {1, 2} /\ Plan(c)[BudgetStep(c)] = {BudgetRow(BudgetOf(c))}
    BY <1>2, PlanLocksBudget
  <1>21. work'[w].viewed <=> (work[w].viewed \/ Statement(w) = View)
    <2>1. done.viewed <=> (work[w].viewed \/ Statement(w) = View)
      BY DEF done
    <2> HIDE DEF done
    <2>2. work'[w].viewed = done.viewed
      BY <1>7
    <2> QED BY <2>1, <2>2, Zenon
  <1>14. BudgetHeld(w)'
    <2>1. ASSUME c.op # "create budget", k + 1 > BudgetStep(c)
          PROVE  lock[BudgetRow(BudgetOf(c))] = w
      <3>1. BudgetStep(c) \in {1, 2} /\ Plan(c)[BudgetStep(c)] = {BudgetRow(BudgetOf(c))}
        BY <1>20, <2>1
      <3>2. k > BudgetStep(c) \/ k = BudgetStep(c)
        <4>1. k + 1 > BudgetStep(c)
          BY <2>1
        <4>2. BudgetStep(c) \in Nat
          BY <3>1
        <4> QED BY <1>5, <4>1, <4>2
      <3>3. CASE k > BudgetStep(c)
        BY <1>1, <1>3, <2>1, <3>3 DEF BudgetHeld
      <3>4. CASE k = BudgetStep(c)
        <4>1. Statement(w) = {BudgetRow(BudgetOf(c))}
          BY <3>1, <3>4 DEF Statement
        <4>2. Statement(w) # View
          BY <4>1, RowsAreNotView
        <4>3. BudgetRow(BudgetOf(c)) \in Row
          BY <1>4, RowsOfIds
        <4> QED BY <1>12, <4>1, <4>2, <4>3
      <3> QED BY <3>2, <3>3, <3>4
    <2>2. BudgetOf(c)' = BudgetOf(c) /\ BudgetStep(c)' = BudgetStep(c)
      BY <1>1, <1>11 DEF BudgetOf, BudgetStep, tables
    <2> QED BY <1>1, <1>11, <2>1, <2>2 DEF BudgetHeld, BudgetRow
  <1>15. RowHeld(w)'
    <2>1. ASSUME c.op \in ExpenseOps, k + 1 > 1
          PROVE  lock[ExpenseRow(c.expense)] = w
      <3>1. k = 1 \/ k > 1
        BY <1>5, <2>1
      <3>2. CASE k > 1
        BY <1>1, <1>3, <2>1, <3>2 DEF RowHeld
      <3>3. CASE k = 1
        <4>1. Statement(w) = {ExpenseRow(c.expense)}
          BY <1>2, <2>1, <3>3, PlanLocksRow DEF Statement
        <4>2. Statement(w) # View
          BY <4>1, RowsAreNotView
        <4>3. ExpenseRow(c.expense) \in Row
          BY <1>2, <2>1, RowsOfIds DEF WellFormed
        <4> QED BY <1>12, <4>1, <4>2, <4>3
      <3> QED BY <3>1, <3>2, <3>3
    <2>2. ASSUME c.op \in DocumentOps, k + 1 > 1
          PROVE  lock[DocumentRow(c.document)] = w
      <3>1. k = 1 \/ k > 1
        BY <1>5, <2>2
      <3>2. CASE k > 1
        BY <1>1, <1>3, <2>2, <3>2 DEF RowHeld
      <3>3. CASE k = 1
        <4>1. Statement(w) = {DocumentRow(c.document)}
          BY <1>2, <2>2, <3>3, PlanLocksRow DEF Statement
        <4>2. Statement(w) # View
          BY <4>1, RowsAreNotView
        <4>3. DocumentRow(c.document) \in Row
          BY <1>2, <2>2, RowsOfIds DEF WellFormed
        <4> QED BY <1>12, <4>1, <4>2, <4>3
      <3> QED BY <3>1, <3>2, <3>3
    <2> QED BY <1>1, <1>11, <2>1, <2>2 DEF RowHeld, ExpenseRow, DocumentRow
  <1>16. k + 1 > 3 => k = 3 \/ k > 3
    BY <1>5
  <1>17. SeesApproved(w)'
    <2>1. ASSUME c.op = "approve expense", k + 1 > 3
          PROVE  work'[w].seen.funds[BudgetOf(c)] <= funds[BudgetOf(c)]
      <3>1. funds[BudgetOf(c)] \in Nat
        BY <1>4 DEF IInv, TypeOK
      <3>2. CASE Statement(w) = View
        <4>1. work'[w].seen.funds = funds
          BY <1>7, <3>2
        <4> QED BY <3>1, <4>1
      <3>3. CASE Statement(w) # View
        <4>1. k # 3
          BY <1>2, <2>1, <3>3, PlanViews DEF Statement
        <4>2. work'[w].seen = work[w].seen
          BY <1>7, <3>3
        <4>3. work[w].seen.funds[BudgetOf(c)] <= funds[BudgetOf(c)]
          BY <1>1, <1>3, <1>16, <2>1, <4>1 DEF SeesApproved
        <4> QED BY <4>2, <4>3
      <3> QED BY <3>2, <3>3
    <2>2. BudgetOf(c)' = BudgetOf(c)
      BY <1>1, <1>11 DEF BudgetOf, tables
    <2> QED BY <1>1, <1>11, <2>1, <2>2 DEF SeesApproved, tables
  <1>18. SeesPaid(w)'
    <2>1. ASSUME c.op = "disburse", k + 1 > 3
          PROVE  work'[w].viewed /\ paid[c.expense] <= work'[w].seen.paid[c.expense]
      <3>1. c.expense \in Expense /\ paid[c.expense] \in Int
        BY <1>2, <2>1 DEF WellFormed, ExpenseOps, IInv, TypeOK
      <3>2. CASE Statement(w) = View
        <4>1. work'[w].seen.paid = paid /\ work'[w].viewed
          <5>1. work'[w].seen.paid = paid
            BY <1>7, <3>2
          <5> QED BY <1>21, <3>2, <5>1
        <4> QED BY <3>1, <4>1
      <3>3. CASE Statement(w) # View
        <4>1. k # 3
          BY <1>2, <2>1, <3>3, PlanViews DEF Statement
        <4>2. work[w].viewed /\ paid[c.expense] <= work[w].seen.paid[c.expense]
          BY <1>1, <1>3, <1>16, <2>1, <4>1 DEF SeesPaid, Viewed
        <4>3. work'[w].seen = work[w].seen
          BY <1>7, <3>3
        <4> QED BY <1>21, <4>2, <4>3
      <3> QED BY <3>2, <3>3
    <2> QED BY <1>1, <1>11, <2>1 DEF SeesPaid, Viewed, tables
  <1>19. OneInserter'
    <2> SUFFICES ASSUME NEW x \in Worker, NEW y \in Worker, x # y, Inserts(x)', Inserts(y)'
                 PROVE  (Inserted(work[y].call) # Inserted(work[x].call))'
      BY DEF OneInserter
    <2>1. \A z \in Worker : work'[z].call = work[z].call
      BY <1>7, <1>11
    <2>2. Inserts(x) /\ Inserts(y)
      BY <2>1 DEF Inserts, Busy
    <2> QED BY <2>1, <2>2 DEF IInv, OneInserter, Inserted, BudgetRow, RequestRow, ExpenseRow
  <1> QED BY <1>1, <1>8, <1>10, <1>13, <1>14, <1>15, <1>17, <1>18, <1>19, SameTables DEF IInv, Sound

-----------------------------------------------------------------------------
(* The decisions.                                                          *)

(* A step keeps the invariant, and is a step of the envelope.              *)
Kept == IInv' /\ [Env!Next]_<<Limit, committed>>

LEMMA DecisionInv ==
  ASSUME IInv, NEW w \in Worker, End(w), TypeOK', Frame(w),
         Shape', WithinEnvelope', EngagedOnce', PaidWithinAmount',
         [Env!Next]_<<Limit, committed>>
  PROVE  Kept
  BY AfterEnd DEF IInv, Kept

(* What may be spent on a budget is a number, and covers what is.          *)
LEMMA LimitIs ==
  ASSUME IInv
  PROVE  \A b \in Budget :
           /\ Limit[b] = IF b \in DOMAIN budget THEN budget[b].initial + funds[b] ELSE 0
           /\ Limit[b] \in Nat
           /\ committed[b] \in Int
           /\ committed[b] <= Limit[b]
           /\ ~Approved(b) => committed[b] = 0
  <1> SUFFICES ASSUME NEW b \in Budget
               PROVE  /\ Limit[b] = IF b \in DOMAIN budget THEN budget[b].initial + funds[b] ELSE 0
                      /\ Limit[b] \in Nat
                      /\ committed[b] \in Int
                      /\ committed[b] <= Limit[b]
                      /\ ~Approved(b) => committed[b] = 0
    OBVIOUS
  <1>1. Limit[b] = IF b \in DOMAIN budget THEN budget[b].initial + funds[b] ELSE 0
    BY DEF Limit
  <1>2. b \in DOMAIN budget => budget[b].initial \in Nat
    BY DEF IInv, TypeOK, BudgetRecord
  <1>3. funds[b] \in Nat /\ committed[b] \in Int
    BY DEF IInv, TypeOK
  <1>4. Limit[b] \in Nat
    BY <1>1, <1>2, <1>3
  <1>5. committed[b] <= Limit[b] /\ (~Approved(b) => committed[b] = 0)
    BY DEF IInv, WithinEnvelope, Shape
  <1> QED BY <1>1, <1>3, <1>4, <1>5

(* A step that moves the limit of one budget.                              *)
LEMMA LimitMoves ==
  ASSUME NEW b \in Budget, \A x \in Budget : x # b => Limit'[x] = Limit[x]
  PROVE  Limit' = [Limit EXCEPT ![b] = Limit'[b]]
  BY DEF Limit

LEMMA LimitStays ==
  ASSUME UNCHANGED <<budget, funds>>
  PROVE  Limit' = Limit
  BY DEF Limit

(* A step that touches one budget's row: its limit still covers what is    *)
(* committed, and a budget that was approved stays so.                     *)
LEMMA BudgetTableInv ==
  ASSUME IInv, NEW w \in Worker, End(w),
         UNCHANGED <<request, expense, engagement, funds, committed, treasury>>,
         NEW b \in Budget, NEW row \in BudgetRecord,
         DOMAIN budget' = DOMAIN budget \cup {b},
         budget'[b] = row,
         \A x \in DOMAIN budget : x # b => budget'[x] = budget[x],
         b \notin DOMAIN budget => Appears(w, BudgetRow(b)),
         Approved(b) => row.status = "closed" /\ row.initial = budget[b].initial
  PROVE  Kept
  <1>1. /\ request' = request /\ expense' = expense /\ engagement' = engagement
        /\ funds' = funds /\ committed' = committed
        /\ paid' = paid /\ reversed' = reversed /\ reservation' = reservation
    BY DEF treasury
  <1>2. DOMAIN budget' \subseteq Budget /\ \A x \in DOMAIN budget' : budget'[x] \in BudgetRecord
    BY DEF IInv, TypeOK
  <1>3. TypeOK'
    BY <1>1, <1>2, EndType DEF IInv, TypeOK
  <1>4. Frame(w)
    <2>1. \A x \in Budget : funds'[x] >= funds[x]
      BY <1>1 DEF IInv, TypeOK
    <2>2. \A x \in Expense : paid'[x] <= paid[x]
      BY <1>1 DEF IInv, TypeOK
    <2> QED BY <1>1, <2>1, <2>2, EndType DEF IInv, Frame
  <1>5. \A x \in Budget : Approved(x) =>
           x \in DOMAIN budget' /\ budget'[x].status \in {"active", "closed"}
    BY DEF Approved
  <1>6. Shape'
    <2>1. \A e \in DOMAIN expense : Approved(expense[e].budget) /\ expense[e].budget \in Budget
      BY DEF IInv, Shape, Approved, TypeOK
    <2>2. \A e \in DOMAIN expense' :
             /\ expense'[e].budget \in DOMAIN budget'
             /\ budget'[expense'[e].budget].status \in {"active", "closed"}
      BY <1>1, <1>5, <2>1
    <2>3. \A r \in DOMAIN request' : request'[r].budget \in DOMAIN budget'
      BY <1>1 DEF IInv, Shape
    <2>4. \A x \in Budget :
             ~(x \in DOMAIN budget' /\ budget'[x].status \in {"active", "closed"}) =>
                committed'[x] = 0
      BY <1>1, <1>5 DEF IInv, Shape
    <2>5. \A e \in Expense : e \notin DOMAIN expense' => paid'[e] <= 0
      BY <1>1 DEF IInv, Shape
    <2> QED BY <2>2, <2>3, <2>4, <2>5 DEF Shape, Approved
  <1>7. WithinEnvelope'
    <2> SUFFICES ASSUME NEW x \in Budget PROVE committed'[x] <= Limit'[x]
      BY DEF WithinEnvelope
    <2>1. Limit'[x] = IF x \in DOMAIN budget' THEN budget'[x].initial + funds[x] ELSE 0
      BY <1>1 DEF Limit
    <2>2. committed'[x] = committed[x] /\ committed[x] \in Int /\ committed[x] <= Limit[x]
          /\ funds[x] \in Nat
      BY <1>1, LimitIs DEF IInv, TypeOK
    <2>3. CASE x # b
      <3>1. Limit'[x] = Limit[x]
        BY <2>1, <2>3, LimitIs
      <3> QED BY <2>2, <3>1
    <2>4. CASE x = b /\ Approved(b)
      <3>1. Limit'[x] = Limit[x]
        BY <2>1, <2>4, LimitIs DEF Approved
      <3> QED BY <2>2, <3>1
    <2>5. CASE x = b /\ ~Approved(b)
      <3>1. committed[x] = 0
        BY <2>5, LimitIs
      <3>2. row.initial \in Nat
        BY DEF BudgetRecord
      <3>3. Limit'[x] = row.initial + funds[x]
        BY <2>1, <2>5
      <3> QED BY <2>2, <3>1, <3>2, <3>3
    <2> QED BY <2>3, <2>4, <2>5
  <1>8. EngagedOnce' /\ PaidWithinAmount'
    BY <1>1 DEF IInv, EngagedOnce, PaidWithinAmount
  <1>9. [Env!Next]_<<Limit, committed>>
    <2>1. \A x \in Budget :
             Limit'[x] = IF x \in DOMAIN budget' THEN budget'[x].initial + funds[x] ELSE 0
      BY <1>1 DEF Limit
    <2>2. \A x \in Budget : x # b => Limit'[x] = Limit[x]
      BY <2>1, LimitIs
    <2>3. Limit' = [Limit EXCEPT ![b] = Limit'[b]]
      BY <2>2, LimitMoves
    <2>4. CASE Approved(b)
      <3>1. Limit'[b] = Limit[b]
        BY <2>1, <2>4, LimitIs DEF Approved
      <3>2. Limit' = Limit
        BY <2>3, <3>1 DEF Limit
      <3> QED BY <1>1, <3>2
    <2>5. CASE ~Approved(b)
      <3>1. committed[b] = 0
        BY <2>5, LimitIs
      <3>2. row.initial \in Nat /\ funds[b] \in Nat
        BY DEF BudgetRecord, IInv, TypeOK
      <3>3. Limit'[b] \in Nat
        BY <2>1, <3>2
      <3>4. Env!Set(b)
        BY <1>1, <2>3, <3>1, <3>3 DEF Env!Set
      <3> QED BY <3>4 DEF Env!Next
    <2> QED BY <2>4, <2>5
  <1> QED BY <1>3, <1>4, <1>6, <1>7, <1>8, <1>9, DecisionInv

LEMMA CreateBudgetInv ==
  ASSUME IInv, NEW w \in Worker, CreateBudget(w)
  PROVE  Kept
  <1> DEFINE c == work[w].call
             row == [creator |-> c.user, initial |-> c.amount, status |-> "draft"]
  <1>1. /\ Decides(w, "create budget") /\ End(w)
        /\ budget' = Insert(budget, c.budget, row)
        /\ UNCHANGED <<request, expense, engagement, funds, committed, treasury>>
    BY DEF CreateBudget
  <1>2. c \in Call /\ WellFormed(c) /\ c.op = "create budget" /\ Busy(w) /\ Named(c)
    BY <1>1, Deciding
  <1>3. c.budget \in Budget /\ c.amount \in Nat /\ c.user \in User
    BY <1>2 DEF WellFormed, Creations
  <1>4. row \in BudgetRecord
    BY <1>3 DEF BudgetRecord, BudgetStatus
  <1>5. c.budget \notin DOMAIN budget
    BY <1>2 DEF Named
  <1>6. Appears(w, BudgetRow(c.budget))
    BY <1>2 DEF Appears, Inserts, Inserted, Creations
  <1>7. ~Approved(c.budget)
    BY <1>5 DEF Approved
  <1> HIDE DEF row
  <1>8. /\ DOMAIN budget' = DOMAIN budget \cup {c.budget}
        /\ budget'[c.budget] = row
        /\ \A x \in DOMAIN budget : x # c.budget => budget'[x] = budget[x]
    BY <1>1 DEF Insert
  <1> QED BY <1>1, <1>3, <1>4, <1>6, <1>7, <1>8, BudgetTableInv

LEMMA ChangeBudgetInv ==
  ASSUME IInv, NEW w \in Worker, NEW op \in BudgetOps,
         NEW status \in BudgetStatus, NEW initial \in Nat,
         ChangeBudget(w, op, status, initial),
         Approved(work[w].call.budget) =>
            status = "closed" /\ initial = budget[work[w].call.budget].initial
  PROVE  Kept
  <1> DEFINE c == work[w].call
             b == c.budget
             row == [creator |-> budget[b].creator, initial |-> initial, status |-> status]
  <1>1. /\ Decides(w, op) /\ End(w)
        /\ budget' = [budget EXCEPT ![b] = row]
        /\ UNCHANGED <<request, expense, engagement, funds, committed, treasury>>
    BY DEF ChangeBudget
  <1>2. c \in Call /\ WellFormed(c) /\ c.op = op /\ Named(c)
    BY <1>1, Deciding
  <1>3. b \in Budget /\ b \in DOMAIN budget
    BY <1>2 DEF WellFormed, Named, BudgetOps
  <1>4. row \in BudgetRecord
    <2>1. budget[b].creator \in User
      BY <1>3 DEF IInv, TypeOK, BudgetRecord
    <2> QED BY <2>1 DEF BudgetRecord
  <1>5. row.status = status /\ row.initial = initial
    OBVIOUS
  <1> HIDE DEF row
  <1>6. /\ DOMAIN budget' = DOMAIN budget \cup {b}
        /\ budget'[b] = row
        /\ \A x \in DOMAIN budget : x # b => budget'[x] = budget[x]
    BY <1>1, <1>3
  <1> QED BY <1>1, <1>3, <1>4, <1>5, <1>6, BudgetTableInv

(* The guards of a budget's own operations keep an approved one apart.     *)
LEMMA BudgetOpsInv ==
  ASSUME IInv, NEW w \in Worker
  PROVE  /\ SubmitBudget(w) => Kept
         /\ CorrectBudget(w) => Kept
         /\ ApproveBudget(w) => Kept
         /\ RejectBudget(w) => Kept
         /\ ReopenBudget(w) => Kept
         /\ CancelBudget(w) => Kept
         /\ CloseBudget(w) => Kept
  <1> DEFINE c == work[w].call
             b == c.budget
  <1>1. ASSUME NEW op \in BudgetOps, Decides(w, op)
        PROVE  /\ c.op = op /\ WellFormed(c)
               /\ budget[b].initial \in Nat /\ budget[b].status \in BudgetStatus
               /\ op \in {"submit", "correct", "approve", "reject", "reopen", "cancel"} =>
                    ~Approved(b)
    <2>1. c.op = op /\ WellFormed(c) /\ Named(c) /\ Allowed(w)
      BY <1>1, Deciding
    <2>2. b \in DOMAIN budget
      BY <2>1 DEF Named, BudgetOps
    <2>3. budget[b].initial \in Nat /\ budget[b].status \in BudgetStatus
      BY <2>2 DEF IInv, TypeOK, BudgetRecord
    <2>4. HasBudget(w, c)
      BY <1>1, Deciding DEF BudgetOps
    <2>5. BudgetOf(c) = b
      BY <2>1 DEF BudgetOf, BudgetOps, ExpenseOps, RequestOps
    <2>6. op \in BudgetOps \ {"close"} => BudgetGuard(w, c)
      BY <2>1 DEF Allowed
    <2>7. op \in {"submit", "correct", "approve", "reject", "reopen", "cancel"} =>
            budget[b].status \in {"draft", "submitted", "rejected"}
      BY <2>1, <2>4, <2>5, <2>6 DEF BudgetGuard, StatusOf, BudgetOps
    <2> QED BY <2>1, <2>3, <2>7 DEF Approved
  <1>2. ASSUME SubmitBudget(w) PROVE Kept
    <2>1. ChangeBudget(w, "submit", "submitted", budget[b].initial)
      BY <1>2 DEF SubmitBudget, Initial
    <2>2. Decides(w, "submit") /\ "submit" \in BudgetOps /\ "submitted" \in BudgetStatus
      BY <2>1 DEF ChangeBudget, BudgetOps, BudgetStatus
    <2> QED BY <1>1, <2>1, <2>2, ChangeBudgetInv
  <1>3. ASSUME CorrectBudget(w) PROVE Kept
    <2>1. ChangeBudget(w, "correct", budget[b].status, c.amount)
      BY <1>3 DEF CorrectBudget
    <2>2. Decides(w, "correct") /\ "correct" \in BudgetOps
      BY <2>1 DEF ChangeBudget, BudgetOps
    <2>3. c.amount \in Nat
      BY <1>1, <2>2 DEF WellFormed
    <2> QED BY <1>1, <2>1, <2>2, <2>3, ChangeBudgetInv
  <1>4. ASSUME ApproveBudget(w) PROVE Kept
    <2>1. ChangeBudget(w, "approve", "active", budget[b].initial)
      BY <1>4 DEF ApproveBudget, Initial
    <2>2. Decides(w, "approve") /\ "approve" \in BudgetOps /\ "active" \in BudgetStatus
      BY <2>1 DEF ChangeBudget, BudgetOps, BudgetStatus
    <2> QED BY <1>1, <2>1, <2>2, ChangeBudgetInv
  <1>5. ASSUME RejectBudget(w) PROVE Kept
    <2>1. ChangeBudget(w, "reject", "rejected", budget[b].initial)
      BY <1>5 DEF RejectBudget, Initial
    <2>2. Decides(w, "reject") /\ "reject" \in BudgetOps /\ "rejected" \in BudgetStatus
      BY <2>1 DEF ChangeBudget, BudgetOps, BudgetStatus
    <2> QED BY <1>1, <2>1, <2>2, ChangeBudgetInv
  <1>6. ASSUME ReopenBudget(w) PROVE Kept
    <2>1. ChangeBudget(w, "reopen", "draft", budget[b].initial)
      BY <1>6 DEF ReopenBudget, Initial
    <2>2. Decides(w, "reopen") /\ "reopen" \in BudgetOps /\ "draft" \in BudgetStatus
      BY <2>1 DEF ChangeBudget, BudgetOps, BudgetStatus
    <2> QED BY <1>1, <2>1, <2>2, ChangeBudgetInv
  <1>7. ASSUME CancelBudget(w) PROVE Kept
    <2>1. ChangeBudget(w, "cancel", "cancelled", budget[b].initial)
      BY <1>7 DEF CancelBudget, Initial
    <2>2. Decides(w, "cancel") /\ "cancel" \in BudgetOps /\ "cancelled" \in BudgetStatus
      BY <2>1 DEF ChangeBudget, BudgetOps, BudgetStatus
    <2> QED BY <1>1, <2>1, <2>2, ChangeBudgetInv
  <1>8. ASSUME CloseBudget(w) PROVE Kept
    <2>1. ChangeBudget(w, "close", "closed", budget[b].initial)
      BY <1>8 DEF CloseBudget, Initial
    <2>2. Decides(w, "close") /\ "close" \in BudgetOps /\ "closed" \in BudgetStatus
      BY <2>1 DEF ChangeBudget, BudgetOps, BudgetStatus
    <2> QED BY <1>1, <2>1, <2>2, ChangeBudgetInv
  <1> QED BY <1>2, <1>3, <1>4, <1>5, <1>6, <1>7, <1>8

(* A step that changes requests, and raises the funds of one budget.       *)
LEMMA RequestTableInv ==
  ASSUME IInv, NEW w \in Worker, End(w),
         UNCHANGED <<budget, expense, engagement, committed, treasury>>,
         DOMAIN request' \subseteq FundRequest,
         \A r \in DOMAIN request' : request'[r] \in RequestRecord,
         \A r \in DOMAIN request' : request'[r].budget \in DOMAIN budget,
         \A r \in DOMAIN request : r \in DOMAIN request' /\ request'[r].budget = request[r].budget,
         \A r \in DOMAIN request' \ DOMAIN request : Appears(w, RequestRow(r)),
         funds' \in [Budget -> Nat],
         \A b \in Budget : funds'[b] >= funds[b],
         \E b \in Budget : \A x \in Budget : x # b => funds'[x] = funds[x]
  PROVE  Kept
  <1>1. /\ budget' = budget /\ expense' = expense /\ engagement' = engagement
        /\ committed' = committed
        /\ paid' = paid /\ reversed' = reversed /\ reservation' = reservation
    BY DEF treasury
  <1>2. TypeOK'
    BY <1>1, EndType DEF IInv, TypeOK
  <1>3. Frame(w)
    <2>1. \A x \in Expense : paid'[x] <= paid[x]
      BY <1>1 DEF IInv, TypeOK
    <2> QED BY <1>1, <2>1, EndType DEF IInv, Frame
  <1>4. Shape' /\ EngagedOnce' /\ PaidWithinAmount'
    BY <1>1 DEF IInv, Shape, Approved, EngagedOnce, PaidWithinAmount
  <1>5. WithinEnvelope'
    <2> SUFFICES ASSUME NEW b \in Budget PROVE committed'[b] <= Limit'[b]
      BY DEF WithinEnvelope
    <2>1. /\ Limit'[b] = IF b \in DOMAIN budget THEN budget[b].initial + funds'[b] ELSE 0
          /\ Limit[b] = IF b \in DOMAIN budget THEN budget[b].initial + funds[b] ELSE 0
      BY <1>1 DEF Limit
    <2>2. committed[b] <= Limit[b] /\ committed[b] \in Int /\ Limit[b] \in Nat
      BY LimitIs
    <2>3. b \in DOMAIN budget => budget[b].initial \in Nat
      BY DEF IInv, TypeOK, BudgetRecord
    <2>4. funds[b] \in Nat /\ funds'[b] \in Nat /\ funds'[b] >= funds[b]
      BY DEF IInv, TypeOK
    <2>5. Limit[b] <= Limit'[b] /\ Limit'[b] \in Nat
      BY <2>1, <2>3, <2>4
    <2> QED BY <1>1, <2>2, <2>5
  <1>6. [Env!Next]_<<Limit, committed>>
    <2>1. PICK b \in Budget : \A x \in Budget : x # b => funds'[x] = funds[x]
      OBVIOUS
    <2>2. \A x \in Budget :
            /\ Limit'[x] = IF x \in DOMAIN budget THEN budget[x].initial + funds'[x] ELSE 0
            /\ Limit[x] = IF x \in DOMAIN budget THEN budget[x].initial + funds[x] ELSE 0
      BY <1>1 DEF Limit
    <2>3. \A x \in Budget : x # b => Limit'[x] = Limit[x]
      BY <2>1, <2>2
    <2>4. Limit' = [Limit EXCEPT ![b] = Limit'[b]]
      BY <2>3, LimitMoves
    <2>5. Limit'[b] >= Limit[b]
      <3>1. b \in DOMAIN budget => budget[b].initial \in Nat
        BY DEF IInv, TypeOK, BudgetRecord
      <3>2. funds[b] \in Nat /\ funds'[b] \in Nat /\ funds'[b] >= funds[b]
        BY DEF IInv, TypeOK
      <3> QED BY <2>2, <3>1, <3>2
    <2>6. Env!Raise(b)
      BY <1>1, <2>4, <2>5 DEF Env!Raise
    <2> QED BY <2>6 DEF Env!Next
  <1> QED BY <1>2, <1>3, <1>4, <1>5, <1>6, DecisionInv

LEMMA RequestFundsInv ==
  ASSUME IInv, NEW w \in Worker, RequestFunds(w)
  PROVE  Kept
  <1> DEFINE c == work[w].call
             row == [budget |-> c.budget, amount |-> c.amount, requester |-> c.user,
                     status |-> "SUBMITTED"]
  <1>1. /\ Decides(w, "request funds") /\ End(w)
        /\ request' = Insert(request, c.request, row)
        /\ UNCHANGED <<budget, expense, engagement, funds, committed, treasury>>
    BY DEF RequestFunds
  <1>2. c \in Call /\ WellFormed(c) /\ c.op = "request funds" /\ Busy(w) /\ Named(c)
    BY <1>1, Deciding
  <1>3. c.budget \in Budget /\ c.amount \in Nat /\ c.user \in User /\ c.request \in FundRequest
    BY <1>2 DEF WellFormed, Creations
  <1>4. row \in RequestRecord /\ row.budget = c.budget
    BY <1>3 DEF RequestRecord
  <1>5. c.request \notin DOMAIN request /\ c.budget \in DOMAIN budget
    BY <1>2 DEF Named, Creations
  <1>6. Appears(w, RequestRow(c.request))
    BY <1>2 DEF Appears, Inserts, Inserted, Creations
  <1> HIDE DEF row
  <1>7. /\ DOMAIN request' = DOMAIN request \cup {c.request}
        /\ request'[c.request] = row
        /\ \A x \in DOMAIN request : request'[x] = request[x]
    BY <1>1, <1>5 DEF Insert
  <1>8. /\ DOMAIN request' \subseteq FundRequest
        /\ \A r \in DOMAIN request' : request'[r] \in RequestRecord
        /\ \A r \in DOMAIN request' : request'[r].budget \in DOMAIN budget
    BY <1>3, <1>4, <1>5, <1>7 DEF IInv, TypeOK, Shape
  <1>9. /\ funds' \in [Budget -> Nat]
        /\ \A b \in Budget : funds'[b] >= funds[b]
        /\ \E b \in Budget : \A x \in Budget : x # b => funds'[x] = funds[x]
    <2>1. funds' = funds /\ funds \in [Budget -> Nat]
      BY <1>1 DEF IInv, TypeOK
    <2>2. \A n \in Nat : n >= n
      OBVIOUS
    <2> QED BY <1>3, <2>1, <2>2
  <1> QED BY <1>1, <1>6, <1>7, <1>8, <1>9, RequestTableInv

LEMMA DecideFundsInv ==
  ASSUME IInv, NEW w \in Worker, NEW op \in RequestOps, Decides(w, op), End(w),
         NEW status \in {"APPROVED", "REJECTED"},
         request' = [request EXCEPT ![work[w].call.request].status = status],
         UNCHANGED <<budget, expense, engagement, committed, treasury>>,
         funds' \in [Budget -> Nat],
         \A b \in Budget : funds'[b] >= funds[b],
         \E b \in Budget : \A x \in Budget : x # b => funds'[x] = funds[x]
  PROVE  Kept
  <1> DEFINE q == work[w].call.request
  <1>1. q \in DOMAIN request
    <2>1. Named(work[w].call) /\ work[w].call.op = op
      BY Deciding
    <2> QED BY <2>1 DEF Named
  <1>2. request[q] \in RequestRecord
    BY <1>1 DEF IInv, TypeOK
  <1>3. DOMAIN request' = DOMAIN request /\ request'[q] = [request[q] EXCEPT !.status = status]
        /\ \A r \in DOMAIN request : r # q => request'[r] = request[r]
    BY <1>1
  <1>4. request'[q] \in RequestRecord /\ request'[q].budget = request[q].budget
    BY <1>2, <1>3 DEF RequestRecord
  <1>5. /\ DOMAIN request' \subseteq FundRequest
        /\ \A r \in DOMAIN request' : request'[r] \in RequestRecord
        /\ \A r \in DOMAIN request' : request'[r].budget \in DOMAIN budget
        /\ \A r \in DOMAIN request : r \in DOMAIN request' /\ request'[r].budget = request[r].budget
    BY <1>3, <1>4 DEF IInv, TypeOK, Shape
  <1> QED BY <1>3, <1>5, RequestTableInv

LEMMA ApproveFundsInv ==
  ASSUME IInv, NEW w \in Worker, ApproveFunds(w)
  PROVE  Kept
  <1> DEFINE q == work[w].call.request
             b == request[q].budget
             n == request[q].amount
  <1>1. /\ Decides(w, "approve funds") /\ End(w)
        /\ request' = [request EXCEPT ![q].status = "APPROVED"]
        /\ funds' = [funds EXCEPT ![b] = funds[b] + n]
        /\ UNCHANGED <<budget, expense, engagement, committed, treasury>>
    BY DEF ApproveFunds
  <1>2. q \in DOMAIN request
    BY <1>1, Deciding DEF Named, RequestOps
  <1>3. n \in Nat /\ b \in Budget
    BY <1>2 DEF IInv, TypeOK, RequestRecord
  <1>4. funds \in [Budget -> Nat]
    BY DEF IInv, TypeOK
  <1>5. funds[b] + n \in Nat /\ funds[b] + n >= funds[b]
    BY <1>3, <1>4
  <1>6. /\ funds' \in [Budget -> Nat]
        /\ \A x \in Budget : funds'[x] >= funds[x]
        /\ \E y \in Budget : \A x \in Budget : x # y => funds'[x] = funds[x]
    <2>1. funds'[b] = funds[b] + n /\ \A x \in Budget : x # b => funds'[x] = funds[x]
      BY <1>1, <1>3, <1>4
    <2>2. funds' \in [Budget -> Nat]
      BY <1>1, <1>4, <1>5, ZenonT(60)
    <2>3. ASSUME NEW x \in Budget PROVE funds'[x] >= funds[x]
      <3>1. funds[x] \in Nat
        BY <1>4
      <3> QED BY <1>5, <2>1, <3>1
    <2> QED BY <1>3, <2>1, <2>2, <2>3
  <1>7. "approve funds" \in RequestOps
    BY DEF RequestOps
  <1> QED BY <1>1, <1>6, <1>7, DecideFundsInv

LEMMA RejectFundsInv ==
  ASSUME IInv, NEW w \in Worker, RejectFunds(w)
  PROVE  Kept
  <1>1. /\ Decides(w, "reject funds") /\ End(w)
        /\ request' = [request EXCEPT ![work[w].call.request].status = "REJECTED"]
        /\ UNCHANGED <<budget, expense, engagement, funds, committed, treasury>>
    BY DEF RejectFunds
  <1>4. PICK b \in Budget : TRUE
    <2>1. BudgetOf(work[w].call) \in Budget
      BY <1>1, Deciding
    <2> QED BY <2>1
  <1>2. /\ funds' \in [Budget -> Nat]
        /\ \A x \in Budget : funds'[x] >= funds[x]
        /\ \E y \in Budget : \A x \in Budget : x # y => funds'[x] = funds[x]
    <2>1. funds' = funds /\ funds \in [Budget -> Nat]
      BY <1>1 DEF IInv, TypeOK
    <2>2. \A n \in Nat : n >= n
      OBVIOUS
    <2> QED BY <1>4, <2>1, <2>2
  <1>3. "reject funds" \in RequestOps
    BY DEF RequestOps
  <1> QED BY <1>1, <1>2, <1>3, DecideFundsInv

(* A step that adds an expense to an approved budget.                      *)
LEMMA NewExpenseInv ==
  ASSUME IInv, NEW w \in Worker, End(w),
         UNCHANGED <<budget, request, funds, committed, treasury>>,
         NEW e \in Expense, e \notin DOMAIN expense,
         NEW row \in ExpenseRecord, Approved(row.budget),
         DOMAIN expense' = DOMAIN expense \cup {e},
         expense'[e] = row,
         \A x \in DOMAIN expense : expense'[x] = expense[x],
         Appears(w, ExpenseRow(e)),
         engagement' \in [Document -> Expense \cup {None}],
         EngagedOnce'
  PROVE  Kept
  <1>1. /\ budget' = budget /\ request' = request /\ funds' = funds
        /\ committed' = committed
        /\ paid' = paid /\ reversed' = reversed /\ reservation' = reservation
    BY DEF treasury
  <1>2. DOMAIN expense' \subseteq Expense /\ \A x \in DOMAIN expense' : expense'[x] \in ExpenseRecord
    BY DEF IInv, TypeOK
  <1>3. TypeOK'
    BY <1>1, <1>2, EndType DEF IInv, TypeOK
  <1>4. Frame(w)
    <2>1. \A x \in Expense : paid'[x] <= paid[x]
      BY <1>1 DEF IInv, TypeOK
    <2>2. \A b \in Budget : funds'[b] >= funds[b]
      BY <1>1 DEF IInv, TypeOK
    <2> QED BY <1>1, <2>1, <2>2, EndType DEF IInv, Frame
  <1>5. Shape'
    BY <1>1 DEF IInv, Shape, Approved
  <1>6. WithinEnvelope'
    BY <1>1 DEF IInv, WithinEnvelope, Limit
  <1>7. PaidWithinAmount'
    <2> SUFFICES ASSUME NEW x \in DOMAIN expense' PROVE paid[x] <= expense'[x].amount
      BY <1>1 DEF PaidWithinAmount
    <2>1. CASE x = e
      <3>1. paid[e] <= 0 /\ paid[e] \in Int
        BY DEF IInv, Shape, TypeOK
      <3>2. row.amount \in Nat
        BY DEF ExpenseRecord
      <3> QED BY <2>1, <3>1, <3>2
    <2>2. CASE x # e
      BY <2>2 DEF IInv, PaidWithinAmount
    <2> QED BY <2>1, <2>2
  <1>8. Limit' = Limit
    BY <1>1, LimitStays
  <1> QED BY <1>1, <1>3, <1>4, <1>5, <1>6, <1>7, <1>8, DecisionInv

(* A worker about to insert an expense has checked its budget.             *)
LEMMA CreatingExpense ==
  ASSUME IInv, NEW w \in Worker, NEW op \in DocumentOps \cup {"create expense"}, Decides(w, op)
  PROVE  LET c == work[w].call
         IN  /\ c \in Call /\ WellFormed(c) /\ c.op = op
             /\ c.budget \in Budget /\ c.expense \in Expense /\ c.user \in User
             /\ c.expense \notin DOMAIN expense
             /\ Approved(c.budget)
             /\ Appears(w, ExpenseRow(c.expense))
  <1> DEFINE c == work[w].call
  <1>1. c \in Call /\ WellFormed(c) /\ c.op = op /\ Busy(w) /\ Named(c) /\ Allowed(w)
    BY Deciding
  <1>2. op # "create budget"
    BY DEF DocumentOps
  <1>3. HasBudget(w, c)
    BY <1>2, Deciding
  <1>4. c.op \in Creations /\ c.op # "create budget" /\ c.op # "request funds"
    BY <1>1 DEF Creations, DocumentOps
  <1>5. c.budget \in Budget /\ c.expense \in Expense /\ c.user \in User
    BY <1>1, <1>4 DEF WellFormed
  <1>6. c.expense \notin DOMAIN expense /\ c.budget \in DOMAIN budget
    BY <1>1, <1>4 DEF Named
  <1>7. BudgetOf(c) = c.budget
    BY <1>1 DEF BudgetOf, ExpenseOps, RequestOps, DocumentOps
  <1>8. StatusOf(c) = "active"
    <2>1. CASE op = "create expense"
      BY <1>1, <1>3, <2>1 DEF Allowed
    <2>2. CASE op \in DocumentOps
      <3>1. DocumentGuard(w, c)
        BY <1>1, <2>2 DEF Allowed
      <3> QED BY <1>3, <3>1 DEF DocumentGuard
    <2> QED BY <2>1, <2>2
  <1>9. Approved(c.budget)
    BY <1>6, <1>7, <1>8 DEF Approved, StatusOf
  <1>10. Appears(w, ExpenseRow(c.expense))
    BY <1>1, <1>4 DEF Appears, Inserts, Inserted
  <1> QED BY <1>1, <1>5, <1>6, <1>9, <1>10

LEMMA CreateExpenseInv ==
  ASSUME IInv, NEW w \in Worker, CreateExpense(w)
  PROVE  Kept
  <1> DEFINE c == work[w].call
             e == c.expense
             row == [budget |-> c.budget, amount |-> c.amount, creator |-> c.user,
                     document |-> None, status |-> "draft"]
  <1>1. /\ Decides(w, "create expense") /\ End(w)
        /\ expense' = Insert(expense, e, row)
        /\ UNCHANGED <<budget, request, engagement, funds, committed, treasury>>
    BY DEF CreateExpense, NewExpense
  <1>2. "create expense" \in DocumentOps \cup {"create expense"}
    OBVIOUS
  <1>3. /\ WellFormed(c) /\ c.op = "create expense"
        /\ c.budget \in Budget /\ e \in Expense /\ c.user \in User
        /\ e \notin DOMAIN expense
        /\ Approved(c.budget)
        /\ Appears(w, ExpenseRow(e))
    BY <1>1, <1>2, CreatingExpense
  <1>4. c.amount \in Nat
    BY <1>3 DEF WellFormed
  <1>5. row \in ExpenseRecord /\ row.budget = c.budget /\ row.document = None
    BY <1>3, <1>4 DEF ExpenseRecord, ExpenseStatus
  <1> HIDE DEF row
  <1>6. /\ DOMAIN expense' = DOMAIN expense \cup {e}
        /\ expense'[e] = row
        /\ \A x \in DOMAIN expense : expense'[x] = expense[x]
    BY <1>1, <1>3 DEF Insert
  <1>7. engagement' = engagement /\ engagement \in [Document -> Expense \cup {None}]
    BY <1>1 DEF IInv, TypeOK
  <1>8. EngagedOnce'
    BY <1>5, <1>6, <1>7 DEF IInv, EngagedOnce
  <1> QED BY <1>1, <1>3, <1>5, <1>6, <1>7, <1>8, NewExpenseInv

LEMMA EngageInv ==
  ASSUME IInv, NEW w \in Worker, NEW op \in DocumentOps, EngageDocument(w, op)
  PROVE  Kept
  <1> DEFINE c == work[w].call
             e == c.expense
             d == c.document
             row == [budget |-> c.budget, amount |-> Due[d], creator |-> c.user,
                     document |-> d, status |-> "draft"]
  <1>1. /\ Decides(w, op) /\ End(w)
        /\ expense' = Insert(expense, e, row)
        /\ engagement' = [engagement EXCEPT ![d] = e]
        /\ UNCHANGED <<budget, request, funds, committed, treasury>>
    BY DEF EngageDocument, NewExpense
  <1>2. op \in DocumentOps \cup {"create expense"}
    OBVIOUS
  <1>3. /\ WellFormed(c) /\ c.op = op
        /\ c.budget \in Budget /\ e \in Expense /\ c.user \in User
        /\ e \notin DOMAIN expense
        /\ Approved(c.budget)
        /\ Appears(w, ExpenseRow(e))
    BY <1>1, <1>2, CreatingExpense
  <1>4. d \in Document /\ Due[d] \in Nat
    BY <1>3, BudgetsAssumption DEF WellFormed
  <1>5. engagement[d] = None
    <2>1. lock[DocumentRow(d)] = w /\ Allowed(w)
      BY <1>1, Deciding
    <2>2. DocumentGuard(w, c)
      BY <1>3, <2>1 DEF Allowed
    <2> QED BY <2>1, <2>2 DEF DocumentGuard, Holds
  <1>6. row \in ExpenseRecord /\ row.budget = c.budget /\ row.document = d
    BY <1>3, <1>4 DEF ExpenseRecord, ExpenseStatus
  <1> HIDE DEF row
  <1>7. /\ DOMAIN expense' = DOMAIN expense \cup {e}
        /\ expense'[e] = row
        /\ \A x \in DOMAIN expense : expense'[x] = expense[x]
    BY <1>1, <1>3 DEF Insert
  <1>8. /\ engagement \in [Document -> Expense \cup {None}]
        /\ engagement' \in [Document -> Expense \cup {None}]
        /\ engagement'[d] = e
        /\ \A x \in Document : x # d => engagement'[x] = engagement[x]
    BY <1>1, <1>3, <1>4 DEF IInv, TypeOK
  <1>9. EngagedOnce'
    <2> SUFFICES ASSUME NEW x \in DOMAIN expense', expense'[x].document # None
                 PROVE  engagement'[expense'[x].document] = x
      BY DEF EngagedOnce
    <2>1. CASE x = e
      BY <1>6, <1>7, <1>8, <2>1
    <2>2. CASE x # e
      <3>1. x \in DOMAIN expense /\ expense'[x] = expense[x]
        BY <1>7, <2>2
      <3>2. engagement[expense[x].document] = x
        BY <3>1 DEF IInv, EngagedOnce
      <3>3. x \in Expense /\ expense[x].document \in Document
        BY <3>1 DEF IInv, TypeOK, ExpenseRecord
      <3>4. expense[x].document # d
        BY <1>5, <3>2, <3>3, BudgetsAssumption
      <3> QED BY <1>8, <3>1, <3>2, <3>3, <3>4
    <2> QED BY <2>1, <2>2
  <1> QED BY <1>1, <1>3, <1>6, <1>7, <1>8, <1>9, NewExpenseInv

LEMMA ChangeExpenseInv ==
  ASSUME IInv, NEW w \in Worker, NEW op \in ExpenseOps, NEW status \in ExpenseStatus,
         NEW delta \in Int, ChangeExpense(w, op, status, delta),
         committed[Target(w).budget] + delta <= Limit[Target(w).budget]
  PROVE  Kept
  <1> DEFINE c == work[w].call
             e == c.expense
             b == expense[e].budget
             row == [budget |-> b, amount |-> expense[e].amount,
                     creator |-> expense[e].creator, document |-> expense[e].document,
                     status |-> status]
  <1>1. /\ Decides(w, op) /\ End(w)
        /\ expense' = [expense EXCEPT ![e] = row]
        /\ committed' = [committed EXCEPT ![b] = committed[b] + delta]
        /\ budget' = budget /\ request' = request /\ engagement' = engagement /\ funds' = funds
        /\ paid' = paid /\ reversed' = reversed /\ reservation' = reservation
    BY DEF ChangeExpense, treasury
  <1>2. c.op = op /\ Named(c) /\ HasBudget(w, c)
    <2>1. op # "create budget"
      BY DEF ExpenseOps
    <2> QED BY <1>1, <2>1, Deciding
  <1>3. e \in DOMAIN expense /\ BudgetOf(c) = b
    BY <1>2 DEF Named, BudgetOf
  <1>4. expense[e] \in ExpenseRecord /\ b \in Budget /\ Approved(b)
    BY <1>3 DEF IInv, TypeOK, Shape, ExpenseRecord
  <1>5. lock[BudgetRow(b)] = w
    BY <1>2, <1>3 DEF HasBudget, Holds
  <1>6. row \in ExpenseRecord /\ row.budget = b /\ row.amount = expense[e].amount
        /\ row.document = expense[e].document
    BY <1>4 DEF ExpenseRecord
  <1> HIDE DEF row
  <1>7. /\ DOMAIN expense' = DOMAIN expense
        /\ expense'[e] = row
        /\ \A x \in DOMAIN expense : x # e => expense'[x] = expense[x]
    BY <1>1, <1>3
  <1>8. \A x \in DOMAIN expense : /\ expense'[x].budget = expense[x].budget
                                 /\ expense'[x].amount = expense[x].amount
                                 /\ expense'[x].document = expense[x].document
                                 /\ expense'[x] \in ExpenseRecord
    BY <1>6, <1>7 DEF IInv, TypeOK
  <1>9. /\ committed' \in [Budget -> Int]
        /\ committed'[b] = committed[b] + delta
        /\ \A x \in Budget : x # b => committed'[x] = committed[x]
    <2>1. committed \in [Budget -> Int]
      BY DEF IInv, TypeOK
    <2>2. committed[b] + delta \in Int
      BY <1>4, <2>1
    <2> QED BY <1>1, <1>4, <2>1, <2>2
  <1>10. TypeOK'
    BY <1>1, <1>7, <1>8, <1>9, EndType DEF IInv, TypeOK
  <1>11. Frame(w)
    <2>1. \A x \in Expense : paid'[x] <= paid[x]
      BY <1>1 DEF IInv, TypeOK
    <2>2. \A x \in Budget : funds'[x] >= funds[x]
      BY <1>1 DEF IInv, TypeOK
    <2>3. \A x \in Budget : lock[BudgetRow(x)] # w => committed'[x] = committed[x]
      BY <1>5, <1>9
    <2> QED BY <1>1, <1>7, <1>8, <2>1, <2>2, <2>3, EndType DEF IInv, Frame
  <1>12. Shape'
    <2>1. \A x \in Budget : ~Approved(x) => committed'[x] = 0
      BY <1>4, <1>9 DEF IInv, Shape
    <2> QED BY <1>1, <1>7, <1>8, <2>1 DEF IInv, Shape, Approved
  <1>13. WithinEnvelope'
    <2> SUFFICES ASSUME NEW x \in Budget PROVE committed'[x] <= Limit'[x]
      BY DEF WithinEnvelope
    <2>1. Limit'[x] = Limit[x]
      BY <1>1 DEF Limit
    <2>2. CASE x = b
      BY <1>9, <2>1, <2>2 DEF Target
    <2>3. CASE x # b
      BY <1>9, <2>1, <2>3 DEF IInv, WithinEnvelope
    <2> QED BY <2>2, <2>3
  <1>14. EngagedOnce' /\ PaidWithinAmount'
    BY <1>1, <1>7, <1>8 DEF IInv, EngagedOnce, PaidWithinAmount
  <1>15. [Env!Next]_<<Limit, committed>>
    <2>1. Limit' = Limit
      BY <1>1, LimitStays
    <2>2. committed' = [committed EXCEPT ![b] = committed'[b]]
      BY <1>1, <1>9
    <2>3. committed[b] \in Int /\ Limit[b] \in Nat /\ committed[b] + delta <= Limit[b]
      BY <1>4, LimitIs DEF Target
    <2>4. CASE delta >= 0
      <3>1. committed'[b] \in committed[b]..Limit[b]
        BY <1>9, <2>3, <2>4
      <3>2. Env!Commit(b)
        BY <2>1, <2>2, <3>1 DEF Env!Commit
      <3> QED BY <1>4, <3>2 DEF Env!Next
    <2>5. CASE delta < 0
      <3>1. committed'[b] <= committed[b]
        BY <1>9, <2>3, <2>5
      <3>2. Env!Release(b)
        BY <2>1, <2>2, <3>1 DEF Env!Release
      <3> QED BY <1>4, <3>2 DEF Env!Next
    <2> QED BY <2>4, <2>5
  <1> QED BY <1>1, <1>10, <1>11, <1>12, <1>13, <1>14, <1>15, DecisionInv

LEMMA TargetIs ==
  ASSUME IInv, NEW w \in Worker, NEW op \in ExpenseOps, Decides(w, op)
  PROVE  /\ work[w].call.op = op
         /\ work[w].call.expense \in DOMAIN expense /\ work[w].call.expense \in Expense
         /\ Target(w) \in ExpenseRecord
         /\ BudgetOf(work[w].call) = Target(w).budget
         /\ Target(w).budget \in Budget /\ Target(w).budget \in DOMAIN budget
         /\ ExpenseGuard(w, work[w].call)
  <1>1. work[w].call.op = op /\ Named(work[w].call) /\ Allowed(w)
    BY Deciding
  <1>2. work[w].call.expense \in DOMAIN expense
    BY <1>1 DEF Named
  <1>3. Target(w) \in ExpenseRecord /\ Target(w).budget \in DOMAIN budget
    BY <1>2 DEF Target, IInv, TypeOK, Shape, Approved
  <1> QED BY <1>1, <1>2, <1>3 DEF Target, BudgetOf, ExpenseRecord, Allowed, IInv, TypeOK

(* The commitments the approval has read are those it adds to.             *)
LEMMA ApprovalFits ==
  ASSUME IInv, NEW w \in Worker
  PROVE  Decides(w, "approve expense") =>
           committed[Target(w).budget] + Target(w).amount <= Limit[Target(w).budget]
  <1> DEFINE c == work[w].call
             b == Target(w).budget
             n == Target(w).amount
             f == work[w].seen.funds[b]
             s == work[w].spent
  <1>1. ASSUME Decides(w, "approve expense")
        PROVE  committed[b] + n <= Limit[b]
    <2>1. "approve expense" \in ExpenseOps
      BY DEF ExpenseOps
    <2>2. /\ c.op = "approve expense" /\ BudgetOf(c) = b
          /\ b \in Budget /\ b \in DOMAIN budget
          /\ Target(w) \in ExpenseRecord /\ ExpenseGuard(w, c)
      BY <1>1, <2>1, TargetIs
    <2>3. c \in Call /\ Busy(w) /\ Ready(w)
      BY <1>1, Deciding
    <2>4. work[w] \in WorkRecord /\ work[w].step \in Nat
      BY DEF IInv, TypeOK, WorkRecord
    <2>5. work[w].step > 3
      <3>1. Len(Plan(c)) = 4
        BY <2>2, <2>3, PlanViews
      <3>2. work[w].step > 4
        BY <2>3, <3>1 DEF Ready
      <3> QED BY <2>4, <3>2
    <2>6. s = committed[b] /\ f <= funds[b]
      BY <2>2, <2>3, <2>5 DEF IInv, Sound, SeesApproved
    <2>7. n <= budget[b].initial + f - s
      <3>1. expense[c.expense].amount <= Remaining(w, c)
        BY <2>2, <2>3 DEF ExpenseGuard
      <3> QED BY <2>2, <3>1 DEF Remaining, Target
    <2>8. Limit[b] = budget[b].initial + funds[b] /\ committed[b] \in Int
      BY <2>2, LimitIs
    <2>9. f \in Int /\ funds[b] \in Nat
      BY <2>2, <2>4 DEF IInv, TypeOK, WorkRecord
    <2>10. budget[b].initial \in Nat /\ n \in Nat
      BY <2>2 DEF IInv, TypeOK, BudgetRecord, ExpenseRecord
    <2> HIDE DEF c, b, n, f, s
    <2> QED BY <2>6, <2>7, <2>8, <2>9, <2>10
  <1> QED BY <1>1

LEMMA ExpenseOpsInv ==
  ASSUME IInv, NEW w \in Worker
  PROVE  /\ SubmitExpense(w) => Kept
         /\ CorrectExpense(w) => Kept
         /\ ApproveExpense(w) => Kept
         /\ RejectExpense(w) => Kept
         /\ CancelExpense(w) => Kept
  <1> DEFINE b == Target(w).budget
             n == Target(w).amount
  <1>1. ASSUME NEW op \in ExpenseOps, Decides(w, op)
        PROVE  /\ b \in Budget /\ n \in Nat /\ Target(w).status \in ExpenseStatus
               /\ committed[b] \in Int /\ Limit[b] \in Nat /\ committed[b] <= Limit[b]
    <2>1. Target(w) \in ExpenseRecord /\ b \in Budget
      BY <1>1, TargetIs
    <2>2. n \in Nat /\ Target(w).status \in ExpenseStatus
      BY <2>1 DEF ExpenseRecord
    <2> QED BY <2>1, <2>2, LimitIs
  <1>2. ASSUME NEW op \in ExpenseOps, NEW status \in ExpenseStatus,
               ChangeExpense(w, op, status, 0)
        PROVE  Kept
    <2>1. Decides(w, op)
      BY <1>2 DEF ChangeExpense
    <2>2. committed[b] + 0 <= Limit[b]
      BY <1>1, <2>1
    <2> QED BY <1>2, <2>2, ChangeExpenseInv
  <1>3. ASSUME SubmitExpense(w) PROVE Kept
    BY <1>2, <1>3 DEF SubmitExpense, ExpenseOps, ExpenseStatus
  <1>4. ASSUME CorrectExpense(w) PROVE Kept
    <2>1. ChangeExpense(w, "correct expense", Target(w).status, 0)
      BY <1>4 DEF CorrectExpense
    <2>2. Decides(w, "correct expense") /\ "correct expense" \in ExpenseOps
      BY <2>1 DEF ChangeExpense, ExpenseOps
    <2> QED BY <1>1, <1>2, <2>1, <2>2
  <1>5. ASSUME RejectExpense(w) PROVE Kept
    BY <1>2, <1>5 DEF RejectExpense, ExpenseOps, ExpenseStatus
  <1>6. ASSUME ApproveExpense(w) PROVE Kept
    <2>1. ChangeExpense(w, "approve expense", "approved", n)
      BY <1>6 DEF ApproveExpense
    <2>2. Decides(w, "approve expense") /\ "approve expense" \in ExpenseOps
          /\ "approved" \in ExpenseStatus
      BY <2>1 DEF ChangeExpense, ExpenseOps, ExpenseStatus
    <2>4. n \in Nat
      BY <1>1, <2>2
    <2>3. committed[b] + n <= Limit[b]
      BY <2>2, ApprovalFits
    <2>5. n \in Int
      BY <2>4
    <2> QED BY <2>1, <2>2, <2>3, <2>5, ChangeExpenseInv
  <1>7. ASSUME CancelExpense(w) PROVE Kept
    <2> DEFINE delta == IF Target(w).status = "approved" THEN -n ELSE 0
    <2>1. ChangeExpense(w, "cancel expense", "cancelled", delta)
      BY <1>7 DEF CancelExpense
    <2>2. Decides(w, "cancel expense") /\ "cancel expense" \in ExpenseOps
          /\ "cancelled" \in ExpenseStatus
      BY <2>1 DEF ChangeExpense, ExpenseOps, ExpenseStatus
    <2>5. /\ n \in Nat /\ b \in Budget
          /\ committed[b] \in Int /\ Limit[b] \in Nat /\ committed[b] <= Limit[b]
      BY <1>1, <2>2
    <2>6. delta = -n \/ delta = 0
      OBVIOUS
    <2> HIDE DEF delta
    <2>3. delta \in Int /\ delta <= 0
      BY <2>5, <2>6
    <2>4. committed[b] + delta <= Limit[b]
      BY <2>3, <2>5
    <2> QED BY <2>1, <2>2, <2>3, <2>4, ChangeExpenseInv
  <1> QED BY <1>3, <1>4, <1>5, <1>6, <1>7

(* What the disbursement has read of the payments is all that was paid.    *)
LEMMA PaymentFits ==
  ASSUME IInv, NEW w \in Worker
  PROVE  Decides(w, "disburse") =>
           paid[work[w].call.expense] + work[w].call.amount <= Target(w).amount
  <1> DEFINE c == work[w].call
             e == c.expense
             n == Target(w).amount
             v == work[w].seen.paid[e]
             m == c.amount
  <1>1. ASSUME Decides(w, "disburse")
        PROVE  paid[e] + m <= n
    <2>1. "disburse" \in ExpenseOps
      BY DEF ExpenseOps
    <2>2. /\ c.op = "disburse" /\ e \in Expense
          /\ Target(w) \in ExpenseRecord /\ ExpenseGuard(w, c)
      BY <1>1, <2>1, TargetIs
    <2>3. c \in Call /\ Busy(w) /\ Ready(w) /\ WellFormed(c)
      BY <1>1, Deciding
    <2>4. work[w] \in WorkRecord /\ work[w].step \in Nat
      BY DEF IInv, TypeOK, WorkRecord
    <2>5. work[w].step > 3
      <3>1. Len(Plan(c)) = 3
        BY <2>2, <2>3, PlanViews
      <3>2. work[w].step > 3
        BY <2>3, <3>1 DEF Ready
      <3> QED BY <2>4, <3>2
    <2>6. Viewed(w) /\ paid[e] <= v
      BY <2>2, <2>3, <2>5 DEF IInv, Sound, SeesPaid
    <2>7. m <= n - v
      BY <2>2, <2>6 DEF ExpenseGuard, Target
    <2>8. v \in Int /\ paid[e] \in Int
      BY <2>2, <2>4 DEF IInv, TypeOK, WorkRecord
    <2>9. m \in Nat /\ n \in Nat
      BY <2>2, <2>3 DEF WellFormed, ExpenseRecord
    <2> HIDE DEF c, e, n, v, m
    <2> QED BY <2>6, <2>7, <2>8, <2>9
  <1> QED BY <1>1

LEMMA DisburseInv ==
  ASSUME IInv, NEW w \in Worker, Disburse(w)
  PROVE  Kept
  <1> DEFINE c == work[w].call
             e == c.expense
             m == c.amount
  <1>1. /\ Decides(w, "disburse") /\ End(w)
        /\ paid' = [paid EXCEPT ![e] = paid[e] + m]
        /\ UNCHANGED <<budget, request, expense, engagement, funds, committed,
                       reversed, reservation>>
    BY DEF Disburse
  <1>2. "disburse" \in ExpenseOps
    BY DEF ExpenseOps
  <1>3. e \in DOMAIN expense /\ e \in Expense
    BY <1>1, <1>2, TargetIs
  <1>4. lock[ExpenseRow(e)] = w
    BY <1>1, <1>2, Deciding
  <1>5. m \in Nat
    <2>1. WellFormed(c) /\ c.op = "disburse"
      BY <1>1, Deciding
    <2> QED BY <2>1 DEF WellFormed
  <1>6. paid[e] + m <= expense[e].amount
    BY <1>1, PaymentFits DEF Target
  <1>7. /\ paid' \in [Expense -> Int]
        /\ paid'[e] = paid[e] + m
        /\ \A x \in Expense : x # e => paid'[x] = paid[x]
    <2>1. paid \in [Expense -> Int]
      BY DEF IInv, TypeOK
    <2>2. paid[e] + m \in Int
      BY <1>3, <1>5, <2>1
    <2> QED BY <1>1, <1>3, <2>1, <2>2
  <1>8. TypeOK'
    BY <1>1, <1>7, EndType DEF IInv, TypeOK
  <1>9. Frame(w)
    <2>1. \A x \in Budget : funds'[x] >= funds[x]
      BY <1>1 DEF IInv, TypeOK
    <2>2. \A x \in Expense : lock[ExpenseRow(x)] # w => paid'[x] <= paid[x]
      BY <1>4, <1>7 DEF IInv, TypeOK
    <2> QED BY <1>1, <2>1, <2>2, EndType DEF IInv, Frame
  <1>10. Shape'
    BY <1>1, <1>3, <1>7 DEF IInv, Shape, Approved
  <1>11. PaidWithinAmount'
    BY <1>1, <1>6, <1>7 DEF IInv, PaidWithinAmount, TypeOK
  <1>12. EngagedOnce' /\ WithinEnvelope'
    BY <1>1 DEF IInv, EngagedOnce, WithinEnvelope, Limit
  <1>13. Limit' = Limit /\ committed' = committed
    BY <1>1, LimitStays
  <1> QED BY <1>1, <1>8, <1>9, <1>10, <1>11, <1>12, <1>13, DecisionInv

-----------------------------------------------------------------------------
(* The treasury lowers what is paid, and moves reservations.               *)

LEMMA TreasuryFrame ==
  ASSUME IInv, TypeOK',
         UNCHANGED <<budget, request, expense, engagement, funds, committed, lock, work>>,
         \A e \in Expense : paid'[e] <= paid[e]
  PROVE  Kept
  <1>1. Limit' = Limit
    BY LimitStays
  <1>2. \A e \in Expense : paid'[e] \in Int /\ paid[e] \in Int
    BY DEF IInv, TypeOK
  <1>3. Shape'
    <2>1. \A e \in Expense : e \notin DOMAIN expense => paid'[e] <= 0
      BY <1>2 DEF IInv, Shape
    <2> QED BY <2>1 DEF IInv, Shape, Approved
  <1>4. PaidWithinAmount'
    <2> SUFFICES ASSUME NEW e \in DOMAIN expense PROVE paid'[e] <= expense[e].amount
      BY DEF PaidWithinAmount
    <2>1. e \in Expense /\ paid[e] <= expense[e].amount /\ expense[e].amount \in Nat
      BY DEF IInv, TypeOK, PaidWithinAmount, ExpenseRecord
    <2> QED BY <1>2, <2>1
  <1>5. EngagedOnce' /\ WithinEnvelope' /\ OneInserter'
    BY DEF IInv, EngagedOnce, WithinEnvelope, Limit, OneInserter, Inserts, Busy, Inserted,
           BudgetRow, RequestRow, ExpenseRow
  <1>6. ASSUME NEW x \in Worker PROVE Sound(x)'
    <2>1. Known(x)' /\ BudgetHeld(x)' /\ RowHeld(x)' /\ SeesApproved(x)'
      BY DEF IInv, Sound, Known, Named, BudgetHeld, BudgetOf, BudgetStep, RowHeld,
             SeesApproved, Busy, BudgetRow, ExpenseRow, DocumentRow
    <2>2. SeesPaid(x)'
      <3> DEFINE c == work[x].call
      <3>1. ASSUME Busy(x), c.op = "disburse", work[x].step > 3
            PROVE  Viewed(x) /\ paid'[c.expense] <= work[x].seen.paid[c.expense]
        <4>1. Viewed(x) /\ paid[c.expense] <= work[x].seen.paid[c.expense]
          BY <3>1 DEF IInv, Sound, SeesPaid
        <4>2. c.expense \in Expense
          BY <3>1, CallsWellFormed DEF IInv, WellFormed, ExpenseOps
        <4>3. work[x].seen.paid[c.expense] \in Int
          BY <4>2 DEF IInv, TypeOK, WorkRecord
        <4> QED BY <1>2, <4>1, <4>2, <4>3
      <3> QED BY <3>1 DEF SeesPaid, Busy, Viewed
    <2> QED BY <2>1, <2>2 DEF Sound
  <1> QED BY <1>1, <1>3, <1>4, <1>5, <1>6 DEF IInv, Kept

LEMMA TreasuryInv ==
  ASSUME IInv, NEW e \in DOMAIN expense, TreasuryActs(e)
  PROVE  Kept
  <1>1. e \in Expense /\ paid \in [Expense -> Int]
        /\ reservation \in [Expense -> ReservationStatus]
    BY DEF IInv, TypeOK
  <1>2. CASE ReverseDisbursement(e)
    <2>1. PICK n \in 1..paid[e] : paid' = [paid EXCEPT ![e] = paid[e] - n]
      BY <1>2 DEF ReverseDisbursement
    <2>2. /\ reversed' = reversed \cup {e}
          /\ UNCHANGED <<budget, request, expense, engagement, funds, committed,
                         reservation, lock, work>>
      BY <1>2 DEF ReverseDisbursement
    <2>3. n \in Nat /\ paid[e] - n \in Int /\ paid[e] - n <= paid[e]
      BY <1>1, <2>1
    <2>4. paid' \in [Expense -> Int]
      BY <1>1, <2>1, <2>3
    <2>5. \A x \in Expense : paid'[x] <= paid[x]
      <3> SUFFICES ASSUME NEW x \in Expense PROVE paid'[x] <= paid[x]
        OBVIOUS
      <3>1. paid[x] \in Int
        BY <1>1
      <3>2. CASE x = e
        BY <1>1, <2>1, <2>3, <3>2
      <3>3. CASE x # e
        BY <1>1, <2>1, <3>1, <3>3
      <3> QED BY <3>2, <3>3
    <2>6. TypeOK'
      BY <1>1, <2>2, <2>4 DEF IInv, TypeOK
    <2> QED BY <2>2, <2>5, <2>6, TreasuryFrame
  <1>3. ASSUME NEW from, NEW to \in ReservationStatus, SetReservation(e, from, to)
        PROVE  Kept
    <2>1. /\ reservation' = [reservation EXCEPT ![e] = to]
          /\ UNCHANGED <<budget, request, expense, engagement, funds, committed,
                         paid, reversed, lock, work>>
      BY <1>3 DEF SetReservation
    <2>2. TypeOK'
      BY <1>1, <2>1 DEF IInv, TypeOK
    <2>3. \A x \in Expense : paid'[x] <= paid[x]
      <3>1. \A x \in Expense : paid'[x] = paid[x] /\ paid[x] \in Int
        BY <1>1, <2>1
      <3> QED BY <3>1
    <2> QED BY <2>1, <2>2, <2>3, TreasuryFrame
  <1> QED BY <1>2, <1>3
          DEF TreasuryActs, CreateReservation, SubmitReservation, ApproveReservation,
              RejectReservation, EndReservation, ReservationStatus

-----------------------------------------------------------------------------
(* Every step, and the theorems.                                           *)

LEMMA StepKept ==
  ASSUME IInv, [Next]_vars
  PROVE  Kept
  <1>1. ASSUME IInv', UNCHANGED tables PROVE Kept
    <2>1. Limit' = Limit /\ committed' = committed
      BY <1>1, LimitStays DEF tables
    <2> QED BY <1>1, <2>1 DEF Kept
  <1>2. CASE UNCHANGED vars
    <2>1. /\ UNCHANGED tables /\ lock' = lock /\ work' = work
      BY <1>2 DEF vars, tables
    <2>2. TypeOK'
      BY <2>1 DEF IInv, TypeOK, tables
    <2>3. \A x \in Expense : paid'[x] <= paid[x]
      BY <2>1 DEF IInv, TypeOK, tables
    <2> QED BY <2>1, <2>2, <2>3, TreasuryFrame DEF tables
  <1>3. ASSUME NEW w \in Worker, NEW c \in Call, Begin(w, c) PROVE Kept
    BY <1>1, <1>3, BeginInv DEF Begin
  <1>4. ASSUME NEW w \in Worker, End(w), UNCHANGED tables PROVE Kept
    BY <1>1, <1>4, RollbackInv
  <1>5. ASSUME NEW w \in Worker, Decide(w) PROVE Kept
    <2>1. ASSUME NEW op \in DocumentOps, EngageDocument(w, op) PROVE Kept
      BY <2>1, EngageInv
    <2>2. Engage(w) \/ Link(w) => Kept
      BY <2>1 DEF Engage, Link, DocumentOps
    <2> QED BY <1>5, <2>2, CreateBudgetInv, BudgetOpsInv, RequestFundsInv, ApproveFundsInv,
               RejectFundsInv, CreateExpenseInv, ExpenseOpsInv, DisburseInv DEF Decide
  <1>6. ASSUME NEW w \in Worker, Advance(w) PROVE Kept
    <2>1. CASE LockRow(w)
      BY <1>1, <2>1, LockRowInv DEF LockRow
    <2>2. CASE Return(w)
      BY <1>1, <2>2, ReturnInv DEF Return
    <2>3. CASE Refuse(w) \/ Replay(w)
      BY <1>4, <2>3 DEF Refuse, Replay
    <2>4. CASE Decide(w)
      BY <1>5, <2>4
    <2> QED BY <1>6, <2>1, <2>2, <2>3, <2>4 DEF Advance
  <1>7. ASSUME NEW w \in Worker, DeadlockVictim(w) \/ Crash(w) PROVE Kept
    BY <1>4, <1>7 DEF DeadlockVictim, Crash
  <1>8. ASSUME NEW e \in DOMAIN expense, TreasuryActs(e) PROVE Kept
    BY <1>8, TreasuryInv
  <1> QED BY <1>2, <1>3, <1>6, <1>7, <1>8 DEF Next

(* IInv holds of every behaviour: what each transaction in progress relies *)
(* on is never taken from it.                                              *)
THEOREM Invariance == Spec => []IInv
  <1>1. IInv /\ [Next]_vars => IInv'
    BY StepKept DEF Kept
  <1> QED BY <1>1, InitIInv, PTL DEF Spec

(* The tables, totals, locks and workers keep their types.                 *)
THEOREM TypeCorrect == Spec => []TypeOK
  <1>1. IInv => TypeOK
    BY DEF IInv
  <1> QED BY <1>1, Invariance, PTL

(* Whatever approvals, cancellations, corrections and extra funds race, on *)
(* any number of budgets, the approved expenses of one stay within it: the *)
(* budget's row is locked before the commitments are summed, and held to   *)
(* COMMIT (POST /hr/expenses/:id/approve).                                 *)
THEOREM EnvelopeRespected == Spec => []WithinEnvelope
  <1>1. IInv => WithinEnvelope
    BY DEF IInv
  <1> QED BY <1>1, Invariance, PTL

(* A remuneration or an invoice becomes one expense at most: its row is    *)
(* locked before it is read (engage, finance-request, budget-link).        *)
THEOREM DocumentsEngagedOnce == Spec => []EngagedOnce
  <1>1. IInv => EngagedOnce
    BY DEF IInv
  <1> QED BY <1>1, Invariance, PTL

(* What is disbursed on an expense never exceeds it: the expense is locked *)
(* before its payments are summed (budgetExpenseDisburse).                 *)
THEOREM NeverOverpaid == Spec => []PaidWithinAmount
  <1>1. IInv => PaidWithinAmount
    BY DEF IInv
  <1> QED BY <1>1, Invariance, PTL

(* Concurrent decisions do to a budget what deciding one by one would: the *)
(* limit is set while nothing is spent, then only raised, and each         *)
(* approval commits within it.                                             *)
THEOREM EnvelopeImplemented == Spec => ImplementsEnvelope
  <1>1. Init => Env!Init
    <2> SUFFICES ASSUME Init PROVE Env!Init
      OBVIOUS
    <2>1. IInv
      BY InitIInv
    <2>2. \A b \in Budget : Limit[b] \in Nat
      BY <2>1, LimitIs
    <2>3. Limit \in [Budget -> Nat]
      BY <2>2 DEF Limit
    <2> QED BY <2>3 DEF Init, Env!Init
  <1>2. IInv /\ [Next]_vars => [Env!Next]_Env!vars
    BY StepKept DEF Kept, Env!vars
  <1> QED BY <1>1, <1>2, Invariance, PTL DEF Spec, ImplementsEnvelope, Env!Spec

-----------------------------------------------------------------------------
(* Closing a budget.  Its expenses stay those that the closer locked, and  *)
(* what was paid on them what it saw, unless a disbursement is reversed.   *)

Closing(w) ==
    LET c == work[w].call
    IN  Busy(w) /\ c.op = "close" =>
          /\ work[w].step > 2 => \A e \in ExpensesOf(c.budget) : lock[ExpenseRow(e)] = w
          /\ work[w].step > 5 =>
               /\ Viewed(w)
               /\ \A e \in ExpensesOf(c.budget) \ reversed : paid[e] = work[w].seen.paid[e]

(* A step of w leaves to others the expenses of the budgets it does not    *)
(* hold, and the payments of the expenses it does not hold.                *)
Undisturbed(w) ==
    /\ \A x \in Worker : x # w => work'[x] = work[x]
    /\ \A row \in Row : lock[row] \in Worker /\ lock[row] # w => lock'[row] = lock[row]
    /\ \A b \in Budget : lock[BudgetRow(b)] # w => ExpensesOf(b)' = ExpensesOf(b)
    /\ \A e \in Expense : lock[ExpenseRow(e)] # w => paid'[e] = paid[e]
    /\ reversed' = reversed

LEMMA CloserIs ==
  ASSUME IInv, NEW w \in Worker, Busy(w), work[w].call.op = "close"
  PROVE  LET b == work[w].call.budget
         IN  /\ work[w].call \in Call /\ b \in Budget
             /\ work[w].step \in Nat
             /\ work[w].step > 1 => lock[BudgetRow(b)] = w
             /\ ExpensesOf(b) \subseteq Expense
  <1> DEFINE c == work[w].call
  <1>1. c \in Call /\ WellFormed(c)
    BY CallsWellFormed DEF IInv
  <1>2. c.budget \in Budget
    BY <1>1 DEF WellFormed, BudgetOps
  <1>3. BudgetHeld(w) /\ work[w].step \in Nat
    BY DEF IInv, Sound, TypeOK, WorkRecord
  <1>4. BudgetStep(c) = 1 /\ BudgetOf(c) = c.budget
    BY DEF BudgetStep, BudgetOf, RequestOps, ExpenseOps, DocumentOps
  <1>5. work[w].step > 1 => lock[BudgetRow(c.budget)] = w
    BY <1>3, <1>4 DEF BudgetHeld
  <1>6. ExpensesOf(c.budget) \subseteq Expense
    BY DEF ExpensesOf, IInv, TypeOK
  <1> QED BY <1>1, <1>2, <1>3, <1>5, <1>6

LEMMA OthersClosing ==
  ASSUME IInv, NEW w \in Worker, Undisturbed(w), NEW x \in Worker, x # w, Closing(x)
  PROVE  Closing(x)'
  <1> DEFINE c == work[x].call
             k == work[x].step
  <1>1. work'[x] = work[x] /\ reversed' = reversed
    BY DEF Undisturbed
  <1>2. ASSUME Busy(x), c.op = "close", k > 2
        PROVE  /\ ExpensesOf(c.budget)' = ExpensesOf(c.budget)
               /\ \A e \in ExpensesOf(c.budget) : /\ lock'[ExpenseRow(e)] = x
                                                  /\ paid'[e] = paid[e]
    <2>1. /\ c.budget \in Budget /\ k \in Nat
          /\ k > 1 => lock[BudgetRow(c.budget)] = x
          /\ ExpensesOf(c.budget) \subseteq Expense
      BY <1>2, CloserIs
    <2>2. lock[BudgetRow(c.budget)] = x
      BY <1>2, <2>1
    <2>3. c.budget' = c.budget
      BY <1>1
    <2>4. \A b \in Budget : lock[BudgetRow(b)] # w => ExpensesOf(b)' = ExpensesOf(b)
      BY DEF Undisturbed
    <2>5. ExpensesOf(c.budget)' = ExpensesOf(c.budget)
      BY <2>1, <2>2, <2>3, <2>4 DEF ExpensesOf
    <2>6. \A e \in ExpensesOf(c.budget) : lock[ExpenseRow(e)] = x /\ ExpenseRow(e) \in Row
      BY <1>2, <2>1, RowsOfIds DEF Closing
    <2>7. \A e \in ExpensesOf(c.budget) : lock'[ExpenseRow(e)] = x /\ paid'[e] = paid[e]
      BY <2>1, <2>6 DEF Undisturbed
    <2> QED BY <2>5, <2>7
  <1>3. k \in Nat
    BY DEF IInv, TypeOK, WorkRecord
  <1>4. ASSUME Busy(x), c.op = "close", k > 2
        PROVE  \A e \in ExpensesOf(c.budget)' : lock'[ExpenseRow(e)] = x
    BY <1>2, <1>4
  <1>5. ASSUME Busy(x), c.op = "close", k > 5
        PROVE  /\ Viewed(x)
               /\ \A e \in ExpensesOf(c.budget)' \ reversed' : paid'[e] = work[x].seen.paid[e]
    <2>1. k > 2
      BY <1>3, <1>5
    <2>2. /\ Viewed(x)
          /\ \A e \in ExpensesOf(c.budget) \ reversed : paid[e] = work[x].seen.paid[e]
      BY <1>5 DEF Closing
    <2> QED BY <1>1, <1>2, <1>5, <2>1, <2>2
  <1> QED BY <1>1, <1>4, <1>5 DEF Closing, Busy, Viewed, ExpensesOf, ExpenseRow

(* The end of a transaction, whatever it wrote.                            *)
LEMMA EndClosing ==
  ASSUME IInv, \A x \in Worker : Closing(x), NEW w \in Worker, End(w), Undisturbed(w)
  PROVE  \A x \in Worker : Closing(x)'
  <1>1. ~Busy(w)'
    BY EndType DEF IInv
  <1>2. Closing(w)'
    BY <1>1 DEF Closing
  <1> QED BY <1>2, OthersClosing

(* A step that changes no row and none of the payments.                    *)
LEMMA QuietStep ==
  ASSUME IInv, NEW w \in Worker, UNCHANGED <<expense, paid, reversed>>,
         \A x \in Worker : x # w => work'[x] = work[x],
         \A row \in Row : lock[row] \in Worker /\ lock[row] # w => lock'[row] = lock[row]
  PROVE  Undisturbed(w)
  BY DEF Undisturbed, ExpensesOf

LEMMA ClosePlanIs ==
  ASSUME NEW c \in Call, c.op = "close"
  PROVE  /\ Len(Plan(c)) = 5
         /\ Plan(c)[2] = {ExpenseRow(e) : e \in ExpensesOf(c.budget)}
         /\ Plan(c)[5] = View
  <1>1. PICK X, Y, Z : ClosePlan(c) =
           <<X, {ExpenseRow(e) : e \in ExpensesOf(c.budget)}, Y, Z, View>>
    BY DEF ClosePlan
  <1>2. Plan(c) = <<X, {ExpenseRow(e) : e \in ExpensesOf(c.budget)}, Y, Z, View>>
    BY <1>1, PlanForms
  <1> QED BY <1>2

LEMMA ExpensesAreNotView ==
  ASSUME NEW S, NEW e \in S
  PROVE  {ExpenseRow(x) : x \in S} # View
  <1> DEFINE v == <<"view", "first plain SELECT">>
  <1>1. ExpenseRow(e)[1] = "expense" /\ v[1] = "view"
    BY DEF ExpenseRow
  <1>2. ExpenseRow(e) # v
    BY <1>1
  <1> HIDE DEF v
  <1>3. ExpenseRow(e) \in {ExpenseRow(x) : x \in S} /\ ExpenseRow(e) \notin {v}
    BY <1>2
  <1>4. View = {v}
    BY DEF View, v
  <1> QED BY <1>3, <1>4

LEMMA ReturnClosing ==
  ASSUME IInv, \A x \in Worker : Closing(x), NEW w \in Worker, Return(w)
  PROVE  \A x \in Worker : Closing(x)'
  <1> DEFINE c == work[w].call
             k == work[w].step
             done == [call   |-> c,
                      step   |-> k + 1,
                      viewed |-> work[w].viewed \/ Statement(w) = View,
                      seen   |-> IF Statement(w) = View
                                 THEN [funds |-> funds, paid |-> paid] ELSE work[w].seen,
                      spent  |-> committed[BudgetOf(c)]]
  <1>1. /\ UNCHANGED tables /\ lock' = lock
        /\ Busy(w) /\ InPlan(w) /\ Wants(w) = {}
        /\ work' = [work EXCEPT ![w] = done]
    BY DEF Return, Proceeds
  <1>2. work \in [Worker -> WorkRecord] /\ k \in Nat
    BY DEF IInv, TypeOK, WorkRecord
  <1>3. work'[w] = done /\ \A x \in Worker : x # w => work'[x] = work[x]
    BY <1>1, <1>2
  <1>4. expense' = expense /\ paid' = paid /\ reversed' = reversed
    BY <1>1 DEF tables
  <1>5. \A x \in Worker : x # w => Closing(x)'
    BY <1>1, <1>3, <1>4, QuietStep, OthersClosing
  <1>6. work'[w].call = c /\ work'[w].step = k + 1
    BY <1>3
  <1>7. ASSUME c.op = "close"
        PROVE  /\ k + 1 > 2 => \A e \in ExpensesOf(c.budget) : lock[ExpenseRow(e)] = w
               /\ k + 1 > 5 =>
                    /\ work'[w].viewed
                    /\ \A e \in ExpensesOf(c.budget) \ reversed : paid[e] = work'[w].seen.paid[e]
    <2>1. /\ Len(Plan(c)) = 5
          /\ Plan(c)[2] = {ExpenseRow(e) : e \in ExpensesOf(c.budget)}
          /\ Plan(c)[5] = View
      BY <1>1, <1>7, CloserIs, ClosePlanIs
    <2>2. k <= 5
      BY <1>1, <2>1 DEF InPlan
    <2>3. ASSUME k = 2, NEW e \in ExpensesOf(c.budget) PROVE lock[ExpenseRow(e)] = w
      <3>1. Statement(w) = {ExpenseRow(x) : x \in ExpensesOf(c.budget)}
        BY <2>1, <2>3 DEF Statement
      <3>2. Statement(w) # View
        BY <3>1, ExpensesAreNotView
      <3>3. ExpenseRow(e) \in Statement(w)
        BY <3>1
      <3> QED BY <1>1, <3>2, <3>3 DEF Wants, Holds
    <2>4. ASSUME k = 5
          PROVE  work'[w].viewed /\ \A e \in ExpensesOf(c.budget) : paid[e] = work'[w].seen.paid[e]
      <3>1. Statement(w) = View
        BY <2>1, <2>4 DEF Statement
      <3>2. work'[w].viewed
        <4>1. done.viewed <=> (work[w].viewed \/ Statement(w) = View)
          BY DEF done
        <4> HIDE DEF done
        <4>2. work'[w].viewed = done.viewed
          BY <1>3
        <4> QED BY <3>1, <4>1, <4>2, Zenon
      <3>3. work'[w].seen.paid = paid
        BY <1>3, <3>1
      <3> QED BY <3>2, <3>3
    <2>5. k > 2 => \A e \in ExpensesOf(c.budget) : lock[ExpenseRow(e)] = w
      BY <1>1, <1>7 DEF Closing
    <2>6. k + 1 > 2 => k = 2 \/ k > 2
      BY <1>2
    <2>7. k + 1 > 5 => k = 5
      BY <1>2, <2>2
    <2> HIDE DEF done
    <2> QED BY <2>3, <2>4, <2>5, <2>6, <2>7
  <1>8. c.budget' = c.budget
    BY <1>6
  <1>9. Closing(w)'
    BY <1>1, <1>4, <1>6, <1>7 DEF Closing, ExpensesOf, ExpenseRow, Viewed
  <1> QED BY <1>5, <1>9

-----------------------------------------------------------------------------
(* A table of rows that belong to budgets, and the total kept beside it of *)
(* the amounts of those in one status.                                     *)

Counted(T, b, s) == {x \in DOMAIN T : T[x].budget = b /\ T[x].status = s}

Matches(T, total, s) ==
    /\ IsFiniteSet(DOMAIN T)
    /\ \A b \in Budget : total[b] = AmountOf(Counted(T, b, s), T)

Countable(T) == \A x \in DOMAIN T : T[x].budget \in Budget /\ T[x].amount \in Nat

\* U is T with one row more, or with one row that changed.
RowAdded(T, U, id) ==
    /\ id \notin DOMAIN T /\ DOMAIN U = DOMAIN T \cup {id}
    /\ \A x \in DOMAIN T : U[x] = T[x]

RowChanged(T, U, id) ==
    /\ id \in DOMAIN T /\ DOMAIN U = DOMAIN T
    /\ \A x \in DOMAIN T : x # id => U[x] = T[x]
    /\ U[id].budget = T[id].budget /\ U[id].amount = T[id].amount

LEMMA AmountSame ==
  ASSUME NEW S, IsFiniteSet(S), NEW T, NEW U, \A x \in S : U[x].amount = T[x].amount
  PROVE  AmountOf(S, U) = AmountOf(S, T)
  <1> DEFINE f == [x \in S |-> T[x].amount]
             g == [x \in S |-> U[x].amount]
  <1>1. \A x \in S : g[x] = f[x]
    OBVIOUS
  <1>2. AmountOf(S, U) = SumFunctionOnSet(g, S) /\ AmountOf(S, T) = SumFunctionOnSet(f, S)
    BY DEF AmountOf
  <1> HIDE DEF f, g
  <1> QED BY <1>1, <1>2, SumSame

\* The rows of S have the same amounts in both.
Agree(S, T, U) == \A x \in S : T[x].amount \in Int /\ U[x].amount = T[x].amount

LEMMA AmountMore ==
  ASSUME NEW S, IsFiniteSet(S), NEW T, NEW U, Agree(S, T, U),
         NEW id, id \notin S, U[id].amount \in Int
  PROVE  AmountOf(S \cup {id}, U) = AmountOf(S, T) + U[id].amount
  <1> DEFINE f == [x \in S |-> T[x].amount]
             g == [x \in S \cup {id} |-> U[x].amount]
  <1>1. g[id] = U[id].amount /\ \A x \in S : f[x] \in Int /\ g[x] = f[x]
    BY DEF Agree
  <1>2. /\ AmountOf(S \cup {id}, U) = SumFunctionOnSet(g, S \cup {id})
        /\ AmountOf(S, T) = SumFunctionOnSet(f, S)
    BY DEF AmountOf
  <1> HIDE DEF f, g
  <1>3. g[id] \in Int
    BY <1>1
  <1> QED BY <1>1, <1>2, <1>3, SumOneMore

LEMMA AmountLess ==
  ASSUME NEW S, IsFiniteSet(S), NEW T, NEW U, NEW id \in S, \A x \in S : T[x].amount \in Int,
         \A x \in S \ {id} : U[x].amount = T[x].amount
  PROVE  AmountOf(S \ {id}, U) = AmountOf(S, T) - T[id].amount
  <1> DEFINE f == [x \in S |-> T[x].amount]
             g == [x \in S \ {id} |-> U[x].amount]
  <1>1. f[id] = T[id].amount /\ (\A x \in S : f[x] \in Int) /\ \A x \in S \ {id} : g[x] = f[x]
    OBVIOUS
  <1>2. /\ AmountOf(S \ {id}, U) = SumFunctionOnSet(g, S \ {id})
        /\ AmountOf(S, T) = SumFunctionOnSet(f, S)
    BY DEF AmountOf
  <1> HIDE DEF f, g
  <1> QED BY <1>1, <1>2, SumOneLess

LEMMA CountedFinite ==
  ASSUME NEW T, IsFiniteSet(DOMAIN T), NEW b, NEW s
  PROVE  IsFiniteSet(Counted(T, b, s))
  BY FS_Subset DEF Counted

(* A row that does not count yet.                                          *)
LEMMA RowAddedMatches ==
  ASSUME NEW T, NEW total, NEW s, Matches(T, total, s),
         NEW U, NEW id, RowAdded(T, U, id), U[id].status # s
  PROVE  Matches(U, total, s)
  <1>1. IsFiniteSet(DOMAIN U)
    BY FS_AddElement DEF Matches, RowAdded
  <1>2. ASSUME NEW b \in Budget PROVE total[b] = AmountOf(Counted(U, b, s), U)
    <2>1. Counted(U, b, s) = Counted(T, b, s)
      BY DEF Counted, RowAdded
    <2>2. \A x \in Counted(T, b, s) : U[x].amount = T[x].amount
      BY DEF Counted, RowAdded
    <2>3. AmountOf(Counted(T, b, s), U) = AmountOf(Counted(T, b, s), T)
      BY <2>2, CountedFinite, AmountSame DEF Matches
    <2> QED BY <2>1, <2>3 DEF Matches
  <1> QED BY <1>1, <1>2 DEF Matches

(* A row that changes status, and what that changes of the total.          *)
Difference(T, U, id, s) ==
    CASE T[id].status # s /\ U[id].status = s -> T[id].amount
      [] T[id].status = s /\ U[id].status # s -> -T[id].amount
      [] OTHER -> 0

LEMMA RowChangedMatches ==
  ASSUME NEW T, NEW total, NEW s, Matches(T, total, s), Countable(T),
         total \in [Budget -> Int],
         NEW U, NEW id, RowChanged(T, U, id),
         NEW total2,
         total2 = [total EXCEPT ![T[id].budget] = total[T[id].budget] + Difference(T, U, id, s)]
  PROVE  Matches(U, total2, s)
  <1> DEFINE c == T[id].budget
             n == T[id].amount
             A(b) == Counted(T, b, s)
             B(b) == Counted(U, b, s)
  <1>1. id \in DOMAIN T /\ c \in Budget /\ n \in Nat
    BY DEF RowChanged, Countable
  <1>2. IsFiniteSet(DOMAIN U)
    BY DEF RowChanged, Matches
  <1>3. /\ \A b \in Budget : IsFiniteSet(A(b)) /\ total[b] = AmountOf(A(b), T)
        /\ \A b \in Budget : \A x \in A(b) : T[x].amount \in Int /\ U[x].amount = T[x].amount
        /\ U[id].amount = n
    <2>1. \A b \in Budget : IsFiniteSet(A(b)) /\ total[b] = AmountOf(A(b), T)
      BY CountedFinite DEF Matches
    <2>2. \A x \in DOMAIN T : T[x].amount \in Int /\ U[x].amount = T[x].amount
      BY DEF Countable, RowChanged
    <2>3. \A b : A(b) \subseteq DOMAIN T
      BY DEF Counted
    <2> QED BY <2>1, <2>2, <2>3 DEF RowChanged
  <1>4. ASSUME NEW b \in Budget, b # c PROVE total2[b] = AmountOf(B(b), U)
    <2>1. B(b) = A(b)
      BY <1>1, <1>4 DEF Counted, RowChanged
    <2>2. AmountOf(A(b), U) = AmountOf(A(b), T)
      BY <1>3, AmountSame
    <2> QED BY <1>1, <1>3, <1>4, <2>1, <2>2
  <1>5. total2[c] = AmountOf(B(c), U)
    <2>1. total2[c] = total[c] + Difference(T, U, id, s) /\ total[c] \in Int
          /\ total[c] = AmountOf(A(c), T)
      BY <1>1, <1>3
    <2>2. CASE T[id].status # s /\ U[id].status = s
      <3>1. B(c) = A(c) \cup {id} /\ id \notin A(c)
        BY <1>1, <2>2 DEF Counted, RowChanged
      <3>2. AmountOf(A(c) \cup {id}, U) = AmountOf(A(c), T) + n
        <4>1. /\ U[id].amount \in Int /\ IsFiniteSet(A(c)) /\ U[id].amount = n
              /\ \A x \in A(c) : T[x].amount \in Int /\ U[x].amount = T[x].amount
          BY <1>1, <1>3
        <4>2. PICK S : S = A(c)
          OBVIOUS
        <4> HIDE DEF A, B, n
        <4>3. Agree(S, T, U)
          BY <4>1, <4>2 DEF Agree
        <4>5. id \notin S /\ IsFiniteSet(S) /\ U[id].amount \in Int
          BY <3>1, <4>1, <4>2
        <4>6. AmountOf(S \cup {id}, U) = AmountOf(S, T) + U[id].amount
          BY <4>3, <4>5, AmountMore
        <4> QED BY <4>1, <4>2, <4>6
      <3>3. Difference(T, U, id, s) = n
        BY <2>2 DEF Difference
      <3> QED BY <2>1, <3>1, <3>2, <3>3
    <2>3. CASE T[id].status = s /\ U[id].status # s
      <3>1. B(c) = A(c) \ {id} /\ id \in A(c)
        BY <1>1, <2>3 DEF Counted, RowChanged
      <3>2. AmountOf(A(c) \ {id}, U) = AmountOf(A(c), T) - n
        <4>1. IsFiniteSet(A(c))
          BY <1>1, <1>3
        <4> HIDE DEF A, B
        <4> QED BY <1>1, <1>3, <3>1, <4>1, AmountLess
      <3>3. Difference(T, U, id, s) = -n
        BY <2>3 DEF Difference
      <3> QED BY <1>1, <2>1, <3>1, <3>2, <3>3
    <2>4. CASE (T[id].status = s) <=> (U[id].status = s)
      <3>1. B(c) = A(c)
        BY <1>1, <2>4 DEF Counted, RowChanged
      <3>2. AmountOf(A(c), U) = AmountOf(A(c), T)
        BY <1>1, <1>3, AmountSame
      <3>3. Difference(T, U, id, s) = 0
        BY <2>4 DEF Difference
      <3> QED BY <2>1, <3>1, <3>2, <3>3
    <2> QED BY <2>2, <2>3, <2>4
  <1> QED BY <1>2, <1>4, <1>5 DEF Matches

Tallied == Matches(request, funds, "APPROVED") /\ Matches(expense, committed, "approved")

LEMMA TablesCountable ==
  ASSUME IInv
  PROVE  /\ Countable(request) /\ Countable(expense)
         /\ funds \in [Budget -> Int] /\ committed \in [Budget -> Int]
  BY DEF IInv, TypeOK, Countable, RequestRecord, ExpenseRecord

LEMMA TalliedTotals ==
  ASSUME TypeOK, Tallied
  PROVE  TotalsMatchRows
  <1> SUFFICES ASSUME NEW b \in DOMAIN budget
               PROVE  /\ funds[b] = AmountOf({r \in RequestsOf(b) : request[r].status = "APPROVED"}, request)
                      /\ committed[b] = AmountOf(ApprovedOf(b), expense)
    BY DEF TotalsMatchRows
  <1>1. b \in Budget
    BY DEF TypeOK
  <1>2. /\ {r \in RequestsOf(b) : request[r].status = "APPROVED"} = Counted(request, b, "APPROVED")
        /\ ApprovedOf(b) = Counted(expense, b, "approved")
    BY DEF Counted, RequestsOf, ApprovedOf, ExpensesOf
  <1> QED BY <1>1, <1>2 DEF Tallied, Matches

-----------------------------------------------------------------------------
(* Budgets and their rows, once closed.                                    *)

\* Nothing waits for a decision on b, and nothing is left to pay.
Decided(b) ==
    /\ \A e \in ExpensesOf(b) : expense[e].status # "draft"
    /\ \A r \in RequestsOf(b) : request[r].status # "SUBMITTED"

PaidUp(b) == \A e \in ApprovedOf(b) \ reversed : paid[e] = expense[e].amount

Settled ==
    /\ Tallied
    /\ \A w \in Worker : Closing(w)
    /\ NothingStranded
    /\ ClosedOwesNothing

(* A step that changes no table but perhaps ends a transaction.            *)
LEMMA TablesSettled ==
  ASSUME Settled, UNCHANGED tables, \A x \in Worker : Closing(x)'
  PROVE  Settled'
  <1>1. /\ budget' = budget /\ request' = request /\ expense' = expense
        /\ funds' = funds /\ committed' = committed /\ paid' = paid /\ reversed' = reversed
    BY DEF tables
  <1>2. Tallied'
    BY <1>1 DEF Settled, Tallied
  <1>3. NothingStranded' /\ ClosedOwesNothing'
    BY <1>1 DEF Settled, NothingStranded, ClosedOwesNothing, ApprovedOf, ExpensesOf, RequestsOf
  <1> QED BY <1>2, <1>3 DEF Settled

LEMMA RollbackSettled ==
  ASSUME IInv, Settled, NEW w \in Worker, End(w), UNCHANGED tables
  PROVE  Settled'
  <1>1. expense' = expense /\ paid' = paid /\ reversed' = reversed
    BY DEF tables
  <1>2. Undisturbed(w)
    BY <1>1, EndType, QuietStep DEF IInv
  <1> QED BY <1>2, EndClosing, TablesSettled DEF Settled

LEMMA BeginSettled ==
  ASSUME IInv, Settled, NEW w \in Worker, NEW c \in Call, Begin(w, c)
  PROVE  Settled'
  <1>1. /\ UNCHANGED tables /\ lock' = lock
        /\ work' = [work EXCEPT ![w] = [Idle EXCEPT !.call = c, !.step = 1]]
    BY DEF Begin
  <1>2. work'[w].step = 1 /\ \A x \in Worker : x # w => work'[x] = work[x]
    BY <1>1 DEF IInv, TypeOK, Idle
  <1>3. expense' = expense /\ paid' = paid /\ reversed' = reversed
    BY <1>1 DEF tables
  <1>4. Undisturbed(w)
    BY <1>1, <1>2, <1>3, QuietStep
  <1>5. Closing(w)'
    <2>1. ~(work'[w].step > 2) /\ ~(work'[w].step > 5)
      BY <1>2
    <2> QED BY <2>1 DEF Closing
  <1> QED BY <1>1, <1>4, <1>5, OthersClosing, TablesSettled DEF Settled

LEMMA LockRowSettled ==
  ASSUME IInv, Settled, NEW w \in Worker, LockRow(w)
  PROVE  Settled'
  <1>1. UNCHANGED tables /\ work' = work
    BY DEF LockRow
  <1>2. PICK r : lock[r] = None /\ lock' = [lock EXCEPT ![r] = w]
    BY DEF LockRow
  <1>3. \A row \in Row : lock[row] \in Worker => lock'[row] = lock[row]
    BY <1>2, BudgetsAssumption DEF IInv, TypeOK
  <1>4. expense' = expense /\ paid' = paid /\ reversed' = reversed
    BY <1>1 DEF tables
  <1>5. ASSUME NEW x \in Worker PROVE Closing(x)'
    <2> DEFINE c == work[x].call
    <2>1. ASSUME Busy(x), c.op = "close", work[x].step > 2, NEW e \in ExpensesOf(c.budget)
          PROVE  lock'[ExpenseRow(e)] = x
      <3>1. ExpenseRow(e) \in Row
        BY <2>1, CloserIs, RowsOfIds
      <3> QED BY <1>3, <2>1, <3>1 DEF Settled, Closing
    <2> QED BY <1>1, <1>4, <2>1 DEF Settled, Closing, Busy, Viewed, ExpensesOf, ExpenseRow
  <1> QED BY <1>1, <1>5, TablesSettled

LEMMA ReturnSettled ==
  ASSUME IInv, Settled, NEW w \in Worker, Return(w)
  PROVE  Settled'
  BY ReturnClosing, TablesSettled DEF Settled, Return

-----------------------------------------------------------------------------
(* The decisions on a budget.                                              *)

LEMMA NothingUnapproved ==
  ASSUME IInv, Settled, NEW b \in Budget, ~Approved(b)
  PROVE  ExpensesOf(b) = {} /\ Decided(b)
  <1>1. ExpensesOf(b) = {}
    BY DEF IInv, Shape, ExpensesOf
  <1>2. CASE b \in DOMAIN budget
    BY <1>1, <1>2 DEF Settled, NothingStranded, Approved, Decided
  <1>3. CASE b \notin DOMAIN budget
    BY <1>1, <1>3 DEF IInv, Shape, RequestsOf, Decided
  <1> QED BY <1>1, <1>2, <1>3

LEMMA BudgetTableSettled ==
  ASSUME IInv, Settled, NEW w \in Worker, End(w),
         UNCHANGED <<request, expense, engagement, funds, committed, treasury>>,
         NEW b \in Budget, NEW row,
         DOMAIN budget' = DOMAIN budget \cup {b},
         budget'[b] = row,
         \A x \in DOMAIN budget : x # b => budget'[x] = budget[x],
         row.status \notin {"active", "closed"} => ExpensesOf(b) = {},
         row.status # "active" => Decided(b),
         row.status = "closed" => PaidUp(b)
  PROVE  Settled'
  <1>1. /\ request' = request /\ expense' = expense
        /\ funds' = funds /\ committed' = committed
        /\ paid' = paid /\ reversed' = reversed
    BY DEF treasury
  <1>2. Tallied'
    BY <1>1 DEF Settled, Tallied
  <1>3. \A x \in Worker : Closing(x)'
    <2>1. Undisturbed(w)
      BY <1>1, EndType, QuietStep DEF IInv
    <2> QED BY <2>1, EndClosing DEF Settled
  <1>4. NothingStranded'
    BY <1>1 DEF Settled, NothingStranded, Decided, ExpensesOf, RequestsOf
  <1>5. ClosedOwesNothing'
    BY <1>1 DEF Settled, ClosedOwesNothing, PaidUp, ApprovedOf, ExpensesOf
  <1> QED BY <1>2, <1>3, <1>4, <1>5 DEF Settled

LEMMA CreateBudgetSettled ==
  ASSUME IInv, Settled, NEW w \in Worker, CreateBudget(w)
  PROVE  Settled'
  <1> DEFINE c == work[w].call
             row == [creator |-> c.user, initial |-> c.amount, status |-> "draft"]
  <1>1. /\ Decides(w, "create budget") /\ End(w)
        /\ budget' = Insert(budget, c.budget, row)
        /\ UNCHANGED <<request, expense, engagement, funds, committed, treasury>>
    BY DEF CreateBudget
  <1>2. WellFormed(c) /\ c.op = "create budget" /\ Named(c)
    BY <1>1, Deciding
  <1>3. c.budget \in Budget /\ c.budget \notin DOMAIN budget
    BY <1>2 DEF WellFormed, Creations, Named
  <1>4. ExpensesOf(c.budget) = {} /\ Decided(c.budget)
    BY <1>3, NothingUnapproved DEF Approved
  <1>5. row.status = "draft"
    OBVIOUS
  <1> HIDE DEF row
  <1>6. /\ DOMAIN budget' = DOMAIN budget \cup {c.budget}
        /\ budget'[c.budget] = row
        /\ \A x \in DOMAIN budget : x # c.budget => budget'[x] = budget[x]
    BY <1>1 DEF Insert
  <1> HIDE DEF c
  <1> QED BY <1>1, <1>3, <1>4, <1>5, <1>6, BudgetTableSettled

LEMMA ChangeBudgetSettled ==
  ASSUME IInv, Settled, NEW w \in Worker, NEW op \in BudgetOps, NEW status, NEW initial,
         ChangeBudget(w, op, status, initial),
         status \notin {"active", "closed"} => ExpensesOf(work[w].call.budget) = {},
         status # "active" => Decided(work[w].call.budget),
         status = "closed" => PaidUp(work[w].call.budget)
  PROVE  Settled'
  <1> DEFINE b == work[w].call.budget
             row == [creator |-> budget[b].creator, initial |-> initial, status |-> status]
  <1>1. /\ Decides(w, op) /\ End(w)
        /\ budget' = [budget EXCEPT ![b] = row]
        /\ UNCHANGED <<request, expense, engagement, funds, committed, treasury>>
    BY DEF ChangeBudget
  <1>2. b \in Budget /\ b \in DOMAIN budget
    <2>1. WellFormed(work[w].call) /\ work[w].call.op = op /\ Named(work[w].call)
      BY <1>1, Deciding
    <2> QED BY <2>1 DEF WellFormed, Named, BudgetOps
  <1>3. row.status = status
    OBVIOUS
  <1> HIDE DEF row
  <1>4. /\ DOMAIN budget' = DOMAIN budget \cup {b}
        /\ budget'[b] = row
        /\ \A x \in DOMAIN budget : x # b => budget'[x] = budget[x]
    BY <1>1, <1>2
  <1> HIDE DEF b
  <1>5. /\ row.status \notin {"active", "closed"} => ExpensesOf(b) = {}
        /\ row.status # "active" => Decided(b)
        /\ row.status = "closed" => PaidUp(b)
    BY <1>3 DEF b
  <1> QED BY <1>1, <1>2, <1>4, <1>5, BudgetTableSettled

(* What the closing route has checked under its locks.                     *)
LEMMA ClosingChecked ==
  ASSUME IInv, Settled, NEW w \in Worker, Decides(w, "close")
  PROVE  LET b == work[w].call.budget
         IN  budget[b].status = "active" /\ Decided(b) /\ PaidUp(b)
  <1> DEFINE c == work[w].call
             b == c.budget
  <1>1. /\ c \in Call /\ c.op = "close" /\ Busy(w) /\ Ready(w) /\ Allowed(w)
        /\ HasBudget(w, c)
    BY Deciding
  <1>2. CloseGuard(w, c)
    BY <1>1 DEF Allowed
  <1>3. budget[b].status = "active"
    <2>1. BudgetOf(c) = b
      BY <1>1 DEF BudgetOf, RequestOps, ExpenseOps
    <2> QED BY <1>1, <1>2, <2>1 DEF CloseGuard, StatusOf
  <1>4. work[w].step > 5
    <2>1. Len(Plan(c)) = 5
      BY <1>1, ClosePlanIs
    <2> QED BY <1>1, <2>1 DEF Ready
  <1>5. /\ Viewed(w)
        /\ \A e \in ExpensesOf(b) \ reversed : paid[e] = work[w].seen.paid[e]
    BY <1>1, <1>4 DEF Settled, Closing
  <1>6. Decided(b)
    BY <1>2, <1>5 DEF CloseGuard, Decided
  <1>7. PaidUp(b)
    <2> SUFFICES ASSUME NEW e \in ApprovedOf(b) \ reversed PROVE paid[e] = expense[e].amount
      BY DEF PaidUp
    <2>1. e \in ExpensesOf(b) \ reversed /\ e \in DOMAIN expense /\ expense[e].status = "approved"
      BY DEF ApprovedOf, ExpensesOf
    <2>2. expense[e].amount <= work[w].seen.paid[e]
      BY <1>2, <1>5, <2>1 DEF CloseGuard
    <2>3. paid[e] = work[w].seen.paid[e]
      BY <1>5, <2>1
    <2>4. paid[e] <= expense[e].amount /\ paid[e] \in Int /\ expense[e].amount \in Nat
      BY <2>1 DEF IInv, PaidWithinAmount, TypeOK, ExpenseRecord
    <2> QED BY <2>2, <2>3, <2>4
  <1> QED BY <1>3, <1>6, <1>7

LEMMA BudgetOpsSettled ==
  ASSUME IInv, Settled, NEW w \in Worker,
         \/ SubmitBudget(w) \/ CorrectBudget(w) \/ ApproveBudget(w) \/ RejectBudget(w)
         \/ ReopenBudget(w) \/ CancelBudget(w) \/ CloseBudget(w)
  PROVE  Settled'
  <1> DEFINE c == work[w].call
             b == c.budget
  <1>1. ASSUME NEW op \in BudgetOps \ {"close"}, Decides(w, op)
        PROVE  /\ ExpensesOf(b) = {} /\ Decided(b)
               /\ budget[b].status \in {"draft", "submitted", "rejected"}
    <2>0. c.op = op /\ WellFormed(c) /\ Named(c) /\ Allowed(w)
      BY <1>1, Deciding
    <2>1. c.op = op /\ Allowed(w) /\ b \in Budget
      BY <2>0 DEF WellFormed
    <2>2. HasBudget(w, c)
      BY <1>1, Deciding DEF BudgetOps
    <2>3. BudgetOf(c) = b
      BY <2>1 DEF BudgetOf, BudgetOps, ExpenseOps, RequestOps
    <2>4. BudgetGuard(w, c)
      BY <2>1 DEF Allowed
    <2>5. budget[b].status \in {"draft", "submitted", "rejected"}
      BY <2>1, <2>2, <2>3, <2>4 DEF BudgetGuard, StatusOf, BudgetOps
    <2> QED BY <2>1, <2>5, NothingUnapproved DEF Approved
  <1>2. ASSUME NEW op \in BudgetOps \ {"close"}, NEW status, NEW initial,
               ChangeBudget(w, op, status, initial), status # "closed"
        PROVE  Settled'
    <2>1. ExpensesOf(b) = {} /\ Decided(b)
      BY <1>1, <1>2 DEF ChangeBudget
    <2> QED BY <1>2, <2>1, ChangeBudgetSettled
  <1>3. CASE CloseBudget(w)
    <2>1. ChangeBudget(w, "close", "closed", Initial(w)) /\ "close" \in BudgetOps
      BY <1>3 DEF CloseBudget, BudgetOps
    <2>2. Decided(b) /\ PaidUp(b)
      BY <2>1, ClosingChecked DEF ChangeBudget
    <2> QED BY <2>1, <2>2, ChangeBudgetSettled
  <1>4. CASE CorrectBudget(w)
    <2>1. ChangeBudget(w, "correct", budget[b].status, c.amount)
      BY <1>4 DEF CorrectBudget
    <2>2. "correct" \in BudgetOps \ {"close"}
      BY DEF BudgetOps
    <2>3. budget[b].status # "closed"
      BY <1>1, <2>1, <2>2 DEF ChangeBudget
    <2> QED BY <1>2, <2>1, <2>2, <2>3
  <1>5. {"submit", "approve", "reject", "reopen", "cancel"} \subseteq BudgetOps \ {"close"}
    BY DEF BudgetOps
  <1>6. CASE SubmitBudget(w)
    BY <1>2, <1>5, <1>6 DEF SubmitBudget
  <1>7. CASE ApproveBudget(w)
    BY <1>2, <1>5, <1>7 DEF ApproveBudget
  <1>8. CASE RejectBudget(w)
    BY <1>2, <1>5, <1>8 DEF RejectBudget
  <1>9. CASE ReopenBudget(w)
    BY <1>2, <1>5, <1>9 DEF ReopenBudget
  <1>10. CASE CancelBudget(w)
    BY <1>2, <1>5, <1>10 DEF CancelBudget
  <1> QED BY <1>3, <1>4, <1>6, <1>7, <1>8, <1>9, <1>10

-----------------------------------------------------------------------------
(* The decisions on extra funds.                                           *)

LEMMA RequestTableSettled ==
  ASSUME IInv, Settled, NEW w \in Worker, End(w),
         UNCHANGED <<budget, expense, engagement, committed, treasury>>,
         Matches(request', funds', "APPROVED"),
         \A r \in DOMAIN request' : request'[r].status = "SUBMITTED" =>
            budget[request'[r].budget].status = "active"
  PROVE  Settled'
  <1>1. /\ budget' = budget /\ expense' = expense /\ committed' = committed
        /\ paid' = paid /\ reversed' = reversed
    BY DEF treasury
  <1>2. Tallied'
    BY <1>1 DEF Settled, Tallied
  <1>3. \A x \in Worker : Closing(x)'
    <2>1. Undisturbed(w)
      BY <1>1, EndType, QuietStep DEF IInv
    <2> QED BY <2>1, EndClosing DEF Settled
  <1>4. NothingStranded'
    BY <1>1 DEF Settled, NothingStranded, ExpensesOf, RequestsOf
  <1>5. ClosedOwesNothing'
    BY <1>1 DEF Settled, ClosedOwesNothing, ApprovedOf, ExpensesOf
  <1> QED BY <1>2, <1>3, <1>4, <1>5 DEF Settled

LEMMA PendingOnActive ==
  ASSUME IInv, Settled
  PROVE  /\ \A r \in DOMAIN request : request[r].status = "SUBMITTED" =>
              budget[request[r].budget].status = "active"
         /\ \A e \in DOMAIN expense : expense[e].status = "draft" =>
              budget[expense[e].budget].status = "active"
  BY DEF IInv, Shape, Approved, Settled, NothingStranded, ExpensesOf, RequestsOf

LEMMA RequestFundsSettled ==
  ASSUME IInv, Settled, NEW w \in Worker, RequestFunds(w)
  PROVE  Settled'
  <1> DEFINE c == work[w].call
             row == [budget |-> c.budget, amount |-> c.amount, requester |-> c.user,
                     status |-> "SUBMITTED"]
  <1>1. /\ Decides(w, "request funds") /\ End(w)
        /\ request' = Insert(request, c.request, row) /\ funds' = funds
        /\ UNCHANGED <<budget, expense, engagement, committed, treasury>>
    BY DEF RequestFunds
  <1>2. c.op = "request funds" /\ Named(c) /\ Allowed(w) /\ HasBudget(w, c)
    BY <1>1, Deciding, ZenonT(60)
  <1>3. c.request \notin DOMAIN request
    BY <1>2 DEF Named
  <1>4. budget[c.budget].status = "active"
    BY <1>2 DEF Allowed, StatusOf, BudgetOf, ExpenseOps, RequestOps
  <1>5. row.status = "SUBMITTED" /\ row.budget = c.budget
    OBVIOUS
  <1> HIDE DEF row
  <1>6. RowAdded(request, request', c.request) /\ request'[c.request] = row
    BY <1>1, <1>3 DEF Insert, RowAdded
  <1>7. Matches(request', funds, "APPROVED")
    BY <1>5, <1>6, RowAddedMatches DEF Settled, Tallied
  <1>8. \A r \in DOMAIN request' : request'[r].status = "SUBMITTED" =>
            budget[request'[r].budget].status = "active"
    BY <1>4, <1>5, <1>6, PendingOnActive DEF RowAdded
  <1> QED BY <1>1, <1>7, <1>8, RequestTableSettled

LEMMA DecideFundsSettled ==
  ASSUME IInv, Settled, NEW w \in Worker, ApproveFunds(w) \/ RejectFunds(w)
  PROVE  Settled'
  <1> DEFINE q == work[w].call.request
             b == request[q].budget
  <1>1. ASSUME NEW op \in RequestOps, Decides(w, op), End(w),
               NEW status \in {"APPROVED", "REJECTED"},
               request' = [request EXCEPT ![q].status = status],
               UNCHANGED <<budget, expense, engagement, committed, treasury>>,
               funds' = [funds EXCEPT ![b] = funds[b] +
                           IF status = "APPROVED" THEN request[q].amount ELSE 0]
        PROVE  Settled'
    <2>1. work[w].call.op = op /\ Named(work[w].call) /\ Allowed(w) /\ HasBudget(w, work[w].call)
      BY <1>1, Deciding DEF RequestOps
    <2>2. q \in DOMAIN request /\ request[q].status = "SUBMITTED"
      BY <2>1 DEF Named, Allowed, RequestGuard
    <2>3. request[q] \in RequestRecord
      BY <2>2 DEF IInv, TypeOK
    <2>4. /\ RowChanged(request, request', q) /\ request'[q].status = status
      BY <1>1, <2>2, <2>3 DEF RowChanged, RequestRecord
    <2>5. Difference(request, request', q, "APPROVED") =
             IF status = "APPROVED" THEN request[q].amount ELSE 0
      BY <2>2, <2>4 DEF Difference
    <2>6. Matches(request, funds, "APPROVED") /\ Countable(request) /\ funds \in [Budget -> Int]
      BY TablesCountable DEF Settled, Tallied
    <2>7. Matches(request', funds', "APPROVED")
      BY <1>1, <2>4, <2>5, <2>6, RowChangedMatches
    <2>8. \A r \in DOMAIN request' : request'[r].status = "SUBMITTED" =>
              budget[request'[r].budget].status = "active"
      BY <2>4, PendingOnActive DEF RowChanged
    <2> QED BY <1>1, <2>7, <2>8, RequestTableSettled
  <1>2. "approve funds" \in RequestOps /\ "reject funds" \in RequestOps
    BY DEF RequestOps
  <1>3. CASE ApproveFunds(w)
    BY <1>1, <1>2, <1>3, ZenonT(60) DEF ApproveFunds
  <1>4. CASE RejectFunds(w)
    <2>1. /\ Decides(w, "reject funds") /\ End(w) /\ funds' = funds
          /\ request' = [request EXCEPT ![q].status = "REJECTED"]
          /\ UNCHANGED <<budget, expense, engagement, committed, treasury>>
      BY <1>4 DEF RejectFunds
    <2>2. q \in DOMAIN request
      <3>1. work[w].call.op = "reject funds" /\ Named(work[w].call)
        BY <2>1, Deciding
      <3> QED BY <1>2, <3>1 DEF Named
    <2>3. b \in Budget /\ funds \in [Budget -> Nat]
      BY <2>2 DEF IInv, TypeOK, RequestRecord
    <2>4. funds' = [funds EXCEPT ![b] = funds[b] + 0]
      <3>1. funds[b] + 0 = funds[b]
        BY <2>3
      <3>2. funds = [funds EXCEPT ![b] = funds[b]]
        BY <2>3
      <3> QED BY <2>1, <3>1, <3>2
    <2> QED BY <1>1, <1>2, <2>1, <2>4
  <1> QED BY <1>3, <1>4

-----------------------------------------------------------------------------
(* The decisions on expenses.                                              *)

LEMMA ExpenseTableSettled ==
  ASSUME IInv, IInv', Settled, NEW w \in Worker, End(w),
         UNCHANGED <<budget, request, funds, paid, reversed>>,
         Matches(expense', committed', "approved"),
         \A b \in Budget : lock[BudgetRow(b)] # w => ExpensesOf(b)' = ExpensesOf(b),
         \A e \in DOMAIN expense' : expense'[e].status = "draft" =>
            budget[expense'[e].budget].status = "active",
         \A e \in DOMAIN expense' : expense'[e].status = "approved" =>
            \/ budget[expense'[e].budget].status = "active"
            \/ /\ e \in DOMAIN expense /\ expense[e].status = "approved"
               /\ expense'[e].budget = expense[e].budget /\ expense'[e].amount = expense[e].amount
  PROVE  Settled'
  <1>1. Tallied'
    BY DEF Settled, Tallied
  <1>2. \A x \in Worker : Closing(x)'
    <2>1. Undisturbed(w)
      BY EndType DEF Undisturbed, IInv
    <2> QED BY <2>1, EndClosing DEF Settled
  <1>3. NothingStranded'
    <2>1. \A e \in DOMAIN expense' : budget[expense'[e].budget].status \in {"active", "closed"}
      BY DEF IInv, Shape, Approved
    <2> QED BY <2>1 DEF Settled, NothingStranded, ExpensesOf, RequestsOf
  <1>4. ClosedOwesNothing'
    <2> SUFFICES ASSUME NEW b \in DOMAIN budget, budget[b].status = "closed",
                        NEW e \in DOMAIN expense', expense'[e].budget = b,
                        expense'[e].status = "approved", e \notin reversed
                 PROVE  paid[e] = expense'[e].amount
      BY DEF ClosedOwesNothing, ApprovedOf, ExpensesOf
    <2>1. /\ e \in DOMAIN expense /\ expense[e].status = "approved"
          /\ expense[e].budget = b /\ expense'[e].amount = expense[e].amount
      OBVIOUS
    <2> QED BY <2>1 DEF Settled, ClosedOwesNothing, ApprovedOf, ExpensesOf
  <1> QED BY <1>1, <1>2, <1>3, <1>4 DEF Settled

LEMMA NewExpenseSettled ==
  ASSUME IInv, IInv', Settled, NEW w \in Worker, NEW op \in DocumentOps \cup {"create expense"},
         Decides(w, op), End(w), NEW n, NEW d, NewExpense(work[w].call, n, d),
         UNCHANGED <<budget, request, funds, committed, treasury>>
  PROVE  Settled'
  <1> DEFINE c == work[w].call
             e == c.expense
             row == [budget |-> c.budget, amount |-> n, creator |-> c.user,
                     document |-> d, status |-> "draft"]
  <1>1. /\ paid' = paid /\ reversed' = reversed /\ committed' = committed
        /\ expense' = Insert(expense, e, row)
    BY DEF treasury, NewExpense
  <1>2. c.op = op /\ e \notin DOMAIN expense
    BY CreatingExpense
  <1>3. op # "create budget" /\ c.op \notin ExpenseOps \cup RequestOps
    BY <1>2 DEF DocumentOps, ExpenseOps, RequestOps
  <1>4. HasBudget(w, c) /\ Allowed(w) /\ BudgetOf(c) = c.budget
    BY <1>3, Deciding DEF BudgetOf
  <1>5. budget[c.budget].status = "active" /\ lock[BudgetRow(c.budget)] = w
    <2>1. CASE op = "create expense"
      BY <1>2, <1>4, <2>1 DEF Allowed, StatusOf, HasBudget, Holds
    <2>2. CASE op \in DocumentOps
      <3>1. DocumentGuard(w, c)
        BY <1>2, <1>4, <2>2 DEF Allowed
      <3> QED BY <1>4, <3>1 DEF DocumentGuard, StatusOf, HasBudget, Holds
    <2> QED BY <2>1, <2>2
  <1>6. row.status = "draft" /\ row.budget = c.budget
    OBVIOUS
  <1> HIDE DEF row
  <1>7. RowAdded(expense, expense', e) /\ expense'[e] = row
    BY <1>1, <1>2 DEF Insert, RowAdded
  <1>8. Matches(expense', committed', "approved")
    <2>1. expense'[e].status # "approved" /\ Matches(expense, committed, "approved")
      BY <1>6, <1>7 DEF Settled, Tallied
    <2>2. Matches(expense', committed, "approved")
      BY <1>7, <2>1, RowAddedMatches
    <2> QED BY <1>1, <2>2
  <1>9. \A b \in Budget : lock[BudgetRow(b)] # w => ExpensesOf(b)' = ExpensesOf(b)
    BY <1>5, <1>6, <1>7 DEF RowAdded, ExpensesOf
  <1>10. \A x \in DOMAIN expense' : expense'[x].status = "draft" =>
            budget[expense'[x].budget].status = "active"
    BY <1>5, <1>6, <1>7, PendingOnActive DEF RowAdded
  <1>11. \A x \in DOMAIN expense' : expense'[x].status = "approved" =>
            /\ x \in DOMAIN expense /\ expense[x].status = "approved"
            /\ expense'[x].budget = expense[x].budget /\ expense'[x].amount = expense[x].amount
    BY <1>6, <1>7 DEF RowAdded
  <1> QED BY <1>1, <1>8, <1>9, <1>10, <1>11, ExpenseTableSettled

LEMMA CreationsSettled ==
  ASSUME IInv, IInv', Settled, NEW w \in Worker, CreateExpense(w) \/ Engage(w) \/ Link(w)
  PROVE  Settled'
  <1>1. CASE CreateExpense(w)
    BY <1>1, NewExpenseSettled DEF CreateExpense
  <1>2. ASSUME NEW op \in DocumentOps, EngageDocument(w, op) PROVE Settled'
    BY <1>2, NewExpenseSettled DEF EngageDocument
  <1> QED BY <1>1, <1>2 DEF Engage, Link, DocumentOps

LEMMA ChangeExpenseSettled ==
  ASSUME IInv, IInv', Settled, NEW w \in Worker, NEW op \in ExpenseOps, NEW status, NEW delta,
         ChangeExpense(w, op, status, delta),
         status = "draft" => Target(w).status = "draft",
         status = "approved" => budget[Target(w).budget].status = "active",
         delta = IF Target(w).status # "approved" /\ status = "approved" THEN Target(w).amount
                 ELSE IF Target(w).status = "approved" /\ status # "approved" THEN -Target(w).amount
                 ELSE 0
  PROVE  Settled'
  <1> DEFINE e == work[w].call.expense
             b == expense[e].budget
             row == [budget |-> b, amount |-> expense[e].amount,
                     creator |-> expense[e].creator, document |-> expense[e].document,
                     status |-> status]
  <1>1. /\ Decides(w, op) /\ End(w)
        /\ expense' = [expense EXCEPT ![e] = row]
        /\ committed' = [committed EXCEPT ![b] = committed[b] + delta]
        /\ budget' = budget /\ request' = request /\ funds' = funds
        /\ paid' = paid /\ reversed' = reversed
    BY DEF ChangeExpense, treasury
  <1>2. e \in DOMAIN expense /\ Target(w) = expense[e]
    BY <1>1, TargetIs DEF Target
  <1>3. row.budget = b /\ row.amount = expense[e].amount /\ row.status = status
    OBVIOUS
  <1> HIDE DEF row
  <1>4. RowChanged(expense, expense', e) /\ expense'[e] = row
    BY <1>1, <1>2, <1>3 DEF RowChanged
  <1>5. delta = Difference(expense, expense', e, "approved")
    BY <1>2, <1>3, <1>4 DEF Difference
  <1>6. Matches(expense', committed', "approved")
    <2>1. /\ Matches(expense, committed, "approved") /\ Countable(expense)
          /\ committed \in [Budget -> Int]
      BY TablesCountable DEF Settled, Tallied
    <2> QED BY <1>1, <1>4, <1>5, <2>1, RowChangedMatches
  <1>7. \A x \in Budget : ExpensesOf(x)' = ExpensesOf(x)
    BY <1>4 DEF RowChanged, ExpensesOf
  <1>8. \A x \in DOMAIN expense' : expense'[x].status = "draft" =>
            budget[expense'[x].budget].status = "active"
    BY <1>2, <1>3, <1>4, PendingOnActive DEF RowChanged
  <1>9. \A x \in DOMAIN expense' : expense'[x].status = "approved" =>
            \/ budget[expense'[x].budget].status = "active"
            \/ /\ x \in DOMAIN expense /\ expense[x].status = "approved"
               /\ expense'[x].budget = expense[x].budget /\ expense'[x].amount = expense[x].amount
    BY <1>2, <1>3, <1>4 DEF RowChanged
  <1> QED BY <1>1, <1>6, <1>7, <1>8, <1>9, ExpenseTableSettled, ZenonT(60)

LEMMA ExpenseOpsSettled ==
  ASSUME IInv, IInv', Settled, NEW w \in Worker,
         \/ SubmitExpense(w) \/ CorrectExpense(w) \/ ApproveExpense(w) \/ RejectExpense(w)
         \/ CancelExpense(w)
  PROVE  Settled'
  <1> DEFINE c == work[w].call
             s == Target(w).status
  <1>1. ASSUME NEW op \in ExpenseOps, Decides(w, op)
        PROVE  /\ op \in {"submit expense", "correct expense"} => s \in {"draft", "rejected"}
               /\ op \in {"approve expense", "reject expense"} => s = "submitted"
               /\ op = "approve expense" => budget[Target(w).budget].status = "active"
    <2>1. c.op = op /\ ExpenseGuard(w, c) /\ BudgetOf(c) = Target(w).budget
      BY <1>1, TargetIs
    <2>2. HasBudget(w, c)
      BY <1>1, Deciding DEF ExpenseOps
    <2> QED BY <2>1, <2>2 DEF ExpenseGuard, Target, StatusOf
  <1>2. {"submit expense", "correct expense", "approve expense", "reject expense",
         "cancel expense"} \subseteq ExpenseOps
    BY DEF ExpenseOps
  <1>3. CASE SubmitExpense(w)
    <2>1. ChangeExpense(w, "submit expense", "submitted", 0)
      BY <1>3 DEF SubmitExpense
    <2>2. s \in {"draft", "rejected"}
      BY <1>1, <1>2, <2>1 DEF ChangeExpense
    <2> QED BY <1>2, <2>1, <2>2, ChangeExpenseSettled
  <1>4. CASE CorrectExpense(w)
    <2>1. ChangeExpense(w, "correct expense", s, 0)
      BY <1>4 DEF CorrectExpense
    <2>2. s \in {"draft", "rejected"}
      BY <1>1, <1>2, <2>1 DEF ChangeExpense
    <2> QED BY <1>2, <2>1, <2>2, ChangeExpenseSettled
  <1>5. CASE ApproveExpense(w)
    <2>1. ChangeExpense(w, "approve expense", "approved", Target(w).amount)
      BY <1>5 DEF ApproveExpense
    <2>2. s = "submitted" /\ budget[Target(w).budget].status = "active"
      BY <1>1, <1>2, <2>1 DEF ChangeExpense
    <2> QED BY <1>2, <2>1, <2>2, ChangeExpenseSettled
  <1>6. CASE RejectExpense(w)
    <2>1. ChangeExpense(w, "reject expense", "rejected", 0)
      BY <1>6 DEF RejectExpense
    <2>2. s = "submitted"
      BY <1>1, <1>2, <2>1 DEF ChangeExpense
    <2> QED BY <1>2, <2>1, <2>2, ChangeExpenseSettled
  <1>7. CASE CancelExpense(w)
    <2>1. ChangeExpense(w, "cancel expense", "cancelled",
                        IF s = "approved" THEN -Target(w).amount ELSE 0)
      BY <1>7 DEF CancelExpense
    <2> QED BY <1>2, <2>1, ChangeExpenseSettled
  <1> QED BY <1>3, <1>4, <1>5, <1>6, <1>7

(* A closed budget's expenses are paid in full: what is disbursed on one   *)
(* would exceed it.                                                        *)
LEMMA DisburseSettled ==
  ASSUME IInv, Settled, NEW w \in Worker, Disburse(w)
  PROVE  Settled'
  <1> DEFINE c == work[w].call
             e == c.expense
             m == c.amount
  <1>1. /\ Decides(w, "disburse") /\ End(w)
        /\ paid' = [paid EXCEPT ![e] = paid[e] + m]
        /\ budget' = budget /\ request' = request /\ expense' = expense /\ funds' = funds
        /\ committed' = committed /\ reversed' = reversed
    BY DEF Disburse
  <1>2. "disburse" \in ExpenseOps
    BY DEF ExpenseOps
  <1>3. e \in Expense /\ lock[ExpenseRow(e)] = w /\ paid[e] + m <= expense[e].amount
    BY <1>1, <1>2, TargetIs, Deciding, PaymentFits DEF Target
  <1>4. m \in Nat \ {0}
    <2>1. WellFormed(c) /\ c.op = "disburse"
      BY <1>1, Deciding
    <2> QED BY <2>1 DEF WellFormed
  <1>5. \A x \in Expense : x # e => paid'[x] = paid[x]
    BY <1>1 DEF IInv, TypeOK
  <1>6. Tallied'
    BY <1>1 DEF Settled, Tallied
  <1>7. \A x \in Worker : Closing(x)'
    <2>1. Undisturbed(w)
      BY <1>1, <1>3, <1>5, EndType DEF Undisturbed, ExpensesOf, IInv
    <2> QED BY <1>1, <2>1, EndClosing DEF Settled
  <1>8. NothingStranded'
    BY <1>1 DEF Settled, NothingStranded, ExpensesOf, RequestsOf
  <1>9. ClosedOwesNothing'
    <2> SUFFICES ASSUME NEW b \in DOMAIN budget, budget[b].status = "closed",
                        NEW x \in ApprovedOf(b) \ reversed
                 PROVE  paid'[x] = expense[x].amount
      BY <1>1 DEF ClosedOwesNothing, ApprovedOf, ExpensesOf
    <2>1. paid[x] = expense[x].amount
      BY DEF Settled, ClosedOwesNothing
    <2>2. x \in Expense /\ expense[x].amount \in Nat
      BY DEF ApprovedOf, ExpensesOf, IInv, TypeOK, ExpenseRecord
    <2>3. x # e
      <3> SUFFICES ASSUME x = e PROVE FALSE
        OBVIOUS
      <3>1. expense[e].amount + m <= expense[e].amount /\ expense[e].amount \in Nat
        BY <1>3, <2>1, <2>2
      <3> QED BY <1>4, <3>1
    <2> QED BY <1>5, <2>1, <2>2, <2>3
  <1> QED BY <1>6, <1>7, <1>8, <1>9 DEF Settled

LEMMA DecideSettled ==
  ASSUME IInv, IInv', Settled, NEW w \in Worker, Decide(w)
  PROVE  Settled'
  BY CreateBudgetSettled, BudgetOpsSettled, RequestFundsSettled, DecideFundsSettled,
     CreationsSettled, ExpenseOpsSettled, DisburseSettled DEF Decide

-----------------------------------------------------------------------------
(* The treasury: reversing a disbursement is the one way a closed budget   *)
(* comes to owe again.                                                     *)

LEMMA TreasurySettled ==
  ASSUME IInv, Settled, NEW e \in DOMAIN expense, TreasuryActs(e)
  PROVE  Settled'
  <1>1. ASSUME UNCHANGED <<budget, request, expense, engagement, funds, committed, lock, work>>,
               reversed \subseteq reversed',
               \A x \in Expense \ reversed' : paid'[x] = paid[x]
        PROVE  Settled'
    <2>1. DOMAIN expense \subseteq Expense
      BY DEF IInv, TypeOK
    <2>2. Tallied' /\ NothingStranded'
      BY <1>1 DEF Settled, Tallied, NothingStranded, ExpensesOf, RequestsOf
    <2>3. ClosedOwesNothing'
      BY <1>1, <2>1 DEF Settled, ClosedOwesNothing, ApprovedOf, ExpensesOf
    <2>4. \A x \in Worker : Closing(x)'
      BY <1>1, <2>1 DEF Settled, Closing, Busy, Viewed, ExpensesOf, ExpenseRow
    <2> QED BY <2>2, <2>3, <2>4 DEF Settled
  <1>2. CASE ReverseDisbursement(e)
    <2>1. /\ reversed' = reversed \cup {e}
          /\ UNCHANGED <<budget, request, expense, engagement, funds, committed, lock, work>>
      BY <1>2 DEF ReverseDisbursement
    <2>2. PICK n : paid' = [paid EXCEPT ![e] = paid[e] - n]
      BY <1>2 DEF ReverseDisbursement
    <2>3. \A x \in Expense \ reversed' : paid'[x] = paid[x]
      BY <2>1, <2>2 DEF IInv, TypeOK
    <2> QED BY <1>1, <2>1, <2>3
  <1>3. ASSUME NEW from, NEW to, SetReservation(e, from, to) PROVE Settled'
    BY <1>1, <1>3 DEF SetReservation
  <1> QED BY <1>2, <1>3
          DEF TreasuryActs, CreateReservation, SubmitReservation, ApproveReservation,
              RejectReservation, EndReservation

LEMMA InitSettled == Init => Settled
  <1> SUFFICES ASSUME Init PROVE Settled
    OBVIOUS
  <1>1. /\ DOMAIN request = {} /\ DOMAIN expense = {}
        /\ \A b \in Budget : funds[b] = 0 /\ committed[b] = 0
    BY DEF Init
  <1>2. /\ \A b, s : Counted(request, b, s) = {} /\ Counted(expense, b, s) = {}
        /\ IsFiniteSet(DOMAIN request) /\ IsFiniteSet(DOMAIN expense)
    BY <1>1, FS_EmptySet DEF Counted
  <1>3. \A T : AmountOf({}, T) = 0
    BY SumEmpty DEF AmountOf
  <1>4. Tallied
    BY <1>1, <1>2, <1>3 DEF Tallied, Matches
  <1>5. \A w \in Worker : Closing(w)
    BY IdleType DEF Init, Closing, Busy
  <1>6. NothingStranded /\ ClosedOwesNothing
    BY <1>1, BudgetsAssumption DEF Init, NothingStranded, ClosedOwesNothing, ApprovedOf,
       ExpensesOf, RequestsOf
  <1> QED BY <1>4, <1>5, <1>6 DEF Settled

LEMMA StepSettled ==
  ASSUME IInv, IInv', Settled, [Next]_vars
  PROVE  Settled'
  <1>1. CASE UNCHANGED vars
    <2>1. UNCHANGED tables /\ lock' = lock /\ work' = work
      BY <1>1 DEF vars, tables
    <2>2. expense' = expense /\ paid' = paid /\ reversed' = reversed
      BY <2>1 DEF tables
    <2>3. \A x \in Worker : Closing(x)'
      BY <2>1, <2>2 DEF Settled, Closing, Busy, Viewed, ExpensesOf, ExpenseRow
    <2> QED BY <2>1, <2>3, TablesSettled
  <1>2. ASSUME NEW w \in Worker, NEW c \in Call, Begin(w, c) PROVE Settled'
    BY <1>2, BeginSettled
  <1>3. ASSUME NEW w \in Worker, Advance(w) PROVE Settled'
    <2>1. CASE Refuse(w) \/ Replay(w)
      BY <2>1, RollbackSettled DEF Refuse, Replay
    <2> QED BY <1>3, <2>1, LockRowSettled, ReturnSettled, DecideSettled DEF Advance
  <1>4. ASSUME NEW w \in Worker, DeadlockVictim(w) \/ Crash(w) PROVE Settled'
    BY <1>4, RollbackSettled DEF DeadlockVictim, Crash
  <1>5. ASSUME NEW e \in DOMAIN expense, TreasuryActs(e) PROVE Settled'
    BY <1>5, TreasurySettled
  <1> QED BY <1>1, <1>2, <1>3, <1>4, <1>5 DEF Next

(* What the books and the closures rest on holds of every behaviour: the   *)
(* totals are those of the rows, and a budget being closed keeps the       *)
(* expenses it had when they were locked, and the payments it has seen.    *)
THEOREM BooksSettled == Spec => []Settled
  <1>1. IInv /\ Settled /\ [Next]_vars /\ IInv' => Settled'
    BY StepSettled
  <1> QED BY <1>1, InitSettled, Invariance, PTL DEF Spec

(* However often it is decided, retried or crashed, each request of extra  *)
(* funds and each approval counts once in the totals of its budget (SUM of *)
(* budget_fund_movements and of approved budget_expenses).                 *)
THEOREM TotalsTrue == Spec => []TotalsMatchRows
  <1>1. IInv /\ Settled => TotalsMatchRows
    BY TalliedTotals DEF IInv, Settled
  <1> QED BY <1>1, BooksSettled, Invariance, PTL

(* Closing a budget leaves no draft expense and no pending request on it,  *)
(* whatever is created, corrected or decided meanwhile: every creation     *)
(* locks the budget and checks that it is active                           *)
(* (POST /hr/budgets/:id/close).                                           *)
THEOREM NoneStranded == Spec => []NothingStranded
  <1>1. Settled => NothingStranded
    BY DEF Settled
  <1> QED BY <1>1, BooksSettled, PTL

(* The payments that POST /hr/budgets/:id/close has read are still those   *)
(* of its expenses when it commits, since it holds their rows, and nothing *)
(* is approved or paid on them afterwards: what a closed budget committed  *)
(* is paid in full unless a disbursement was reversed.                     *)
THEOREM ClosedBudgetsPaid == Spec => []ClosedOwesNothing
  <1>1. Settled => ClosedOwesNothing
    BY DEF Settled
  <1> QED BY <1>1, BooksSettled, PTL

-----------------------------------------------------------------------------
(* Which rows a transaction comes to hold.  Asks(c, k, row): the k-th      *)
(* statement of c asks for row.  The first asks for the row the call       *)
(* decides on, where there is one, the next for its budget; then a         *)
(* cancellation asks for a reservation, and a closure, an approval and an  *)
(* engagement for rows that belong to the budget they hold.                *)

Scans == {"close", "approve expense", "engage"}

HasPlan(c) == c.op # "create budget"

OwnRow(c) ==
    IF c.op \in RequestOps THEN RequestRow(c.request)
    ELSE IF c.op \in ExpenseOps THEN ExpenseRow(c.expense)
    ELSE DocumentRow(c.document)

PartOf(row, b) ==
    \/ \E e \in ExpensesOf(b) : row \in {ExpenseRow(e), ReservationRow(e)}
    \/ \E r \in RequestsOf(b) : row = RequestRow(r)

Asks(c, k, row) ==
    /\ HasPlan(c)
    /\ \/ k = 1 /\ BudgetStep(c) = 2 /\ row = OwnRow(c)
       \/ k = BudgetStep(c) /\ row = BudgetRow(BudgetOf(c))
       \/ k > BudgetStep(c) /\ c.op = "cancel expense" /\ row = ReservationRow(c.expense)
       \/ k > BudgetStep(c) /\ c.op \in Scans /\ PartOf(row, BudgetOf(c))

Asked(w, row) == \E k \in Nat : k <= work[w].step /\ Asks(work[w].call, k, row)

LocksExplained ==
    \A w \in Worker :
        /\ Busy(w) => work[w].step >= 1
        /\ \A row \in Row : Holds(w, row) => Busy(w) /\ Asked(w, row)

LEMMA StepsOfBudget ==
  ASSUME NEW c
  PROVE  /\ BudgetStep(c) \in {1, 2}
         /\ BudgetStep(c) = 2 <=> c.op \in RequestOps \cup ExpenseOps \cup DocumentOps
  BY DEF BudgetStep

LEMMA OwnFirst ==
  ASSUME NEW c \in Call, BudgetStep(c) = 2
  PROVE  Plan(c)[1] = {OwnRow(c)}
  <1>1. c.op \in RequestOps \cup ExpenseOps \cup DocumentOps
    BY StepsOfBudget
  <1>2. CASE c.op \in RequestOps
    <2>1. Plan(c) = <<{RequestRow(c.request)}, {BudgetRow(BudgetOf(c))}>>
      BY <1>2, PlanForms
    <2> DEFINE R == {RequestRow(c.request)}
               B == {BudgetRow(BudgetOf(c))}
    <2>2. Plan(c) = <<R, B>>
      BY <2>1
    <2> HIDE DEF R, B
    <2>3. Plan(c)[1] = R
      BY <2>2
    <2> QED BY <1>2, <2>3 DEF OwnRow, R
  <1>3. CASE c.op \notin RequestOps
    <2>1. c.op \in ExpenseOps => c.op \notin DocumentOps
      BY DEF ExpenseOps, DocumentOps
    <2> QED BY <1>1, <1>3, <2>1, PlanLocksRow DEF OwnRow
  <1> QED BY <1>2, <1>3

LEMMA ScansAreBeyond ==
  ASSUME NEW c \in Call, NEW k \in Nat, k > BudgetStep(c), k <= Len(Plan(c)),
         HasPlan(c), Plan(c)[k] # View, NEW row \in Plan(c)[k]
  PROVE  \/ c.op = "cancel expense" /\ row = ReservationRow(c.expense)
         \/ c.op \in Scans /\ PartOf(row, BudgetOf(c))
  <1>1. CASE c.op = "close"
    <2> DEFINE b == c.budget
               A == {BudgetRow(b)}
               E == {ExpenseRow(e) : e \in ExpensesOf(b)}
               F == {RequestRow(r) : r \in RequestsOf(b)}
               G == {ReservationRow(e) : e \in {x \in ExpensesOf(b) : reservation[x] # "none"}}
    <2>1. Plan(c) = <<A, E, F, G, View>>
      BY <1>1, PlanForms DEF ClosePlan
    <2>2. BudgetOf(c) = b
      BY <1>1 DEF BudgetOf, RequestOps, ExpenseOps
    <2>3. BudgetStep(c) = 1
      BY <1>1 DEF BudgetStep, RequestOps, ExpenseOps, DocumentOps
    <2>4. Plan(c)[k] \in {E, F, G}
      <3> HIDE DEF A, E, F, G
      <3>1. PICK p, v : p = Plan(c) /\ v = View
        OBVIOUS
      <3>2. p = <<A, E, F, G, v>> /\ p[k] # v /\ k > 1 /\ k <= Len(p)
        BY <2>1, <2>3, <3>1
      <3>3. k \in 2..5
        BY <3>2
      <3>4. p[2] = E /\ p[3] = F /\ p[4] = G /\ p[5] = v
        BY <3>2
      <3>5. k \in {2, 3, 4, 5}
        BY <3>3
      <3> QED BY <3>1, <3>2, <3>4, <3>5
    <2>5. row \in E \/ row \in F \/ row \in G
      BY <2>4
    <2>6. PartOf(row, b)
      BY <2>5 DEF PartOf
    <2> QED BY <1>1, <2>2, <2>6 DEF Scans
  <1>2. ASSUME NEW D, NEW B, NEW X, Plan(c) = <<D, B, View, X>>, BudgetStep(c) = 2
        PROVE  row \in X
    <2>1. PICK p, v : p = Plan(c) /\ v = View
      OBVIOUS
    <2>2. p = <<D, B, v, X>> /\ p[k] # v /\ k > 2 /\ k <= Len(p)
      BY <1>2, <2>1
    <2>3. p[3] = v /\ p[4] = X /\ Len(p) = 4
      BY <2>2
    <2>4. k = 4
      BY <2>2, <2>3
    <2> QED BY <2>1, <2>3, <2>4
  <1>3. CASE c.op = "cancel expense"
    <2> DEFINE X == IF reservation[c.expense] \in {"SUBMITTED", "ACTIVE"}
                    THEN {ReservationRow(c.expense)} ELSE {}
    <2>1. Plan(c) = <<{ExpenseRow(c.expense)}, {BudgetRow(BudgetOf(c))}, View, X>>
      BY <1>3, PlanForms DEF CancelExpensePlan
    <2>2. BudgetStep(c) = 2
      BY <1>3 DEF BudgetStep, ExpenseOps
    <2> HIDE DEF X
    <2>3. row \in X
      BY <1>2, <2>1, <2>2
    <2> QED BY <1>3, <2>3 DEF X
  <1>4. ASSUME NEW b, row \in {ExpenseRow(e) : e \in ApprovedOf(b)}
        PROVE  PartOf(row, b)
    BY <1>4 DEF PartOf, ApprovedOf
  <1>5. CASE c.op = "approve expense"
    <2> DEFINE X == {ExpenseRow(e) : e \in ApprovedOf(BudgetOf(c))}
    <2>1. Plan(c) = <<{ExpenseRow(c.expense)}, {BudgetRow(BudgetOf(c))}, View, X>>
      BY <1>5, PlanForms DEF ApprovePlan
    <2>2. BudgetStep(c) = 2
      BY <1>5 DEF BudgetStep, ExpenseOps
    <2> HIDE DEF X
    <2>3. row \in X
      BY <1>2, <2>1, <2>2
    <2> QED BY <1>4, <1>5, <2>3 DEF X, Scans
  <1>6. CASE c.op = "engage"
    <2> DEFINE X == {ExpenseRow(e) : e \in ApprovedOf(c.budget)}
    <2>1. Plan(c) = <<{DocumentRow(c.document)}, {BudgetRow(c.budget)}, View, X>>
      BY <1>6, PlanForms DEF EngagePlan
    <2>2. BudgetStep(c) = 2
      BY <1>6 DEF BudgetStep, DocumentOps
    <2>3. BudgetOf(c) = c.budget
      BY <1>6 DEF BudgetOf, RequestOps, ExpenseOps
    <2> HIDE DEF X
    <2>4. row \in X
      BY <1>2, <2>1, <2>2
    <2> QED BY <1>4, <1>6, <2>3, <2>4 DEF X, Scans
  <1>7. CASE c.op \notin Scans \cup {"cancel expense"}
    <2>1. ASSUME NEW A, NEW B, \/ Plan(c) = <<A>> /\ BudgetStep(c) = 1
                               \/ Plan(c) = <<A, View>> /\ BudgetStep(c) = 1
                               \/ Plan(c) = <<A, B>> /\ BudgetStep(c) = 2
                               \/ Plan(c) = <<A, B, View>> /\ BudgetStep(c) = 2
          PROVE  FALSE
      <3>1. PICK p, v : p = Plan(c) /\ v = View
        OBVIOUS
      <3>2. p[k] # v /\ k <= Len(p) /\ k > BudgetStep(c)
        BY <3>1
      <3>3. CASE p = <<A>> /\ BudgetStep(c) = 1
        BY <3>2, <3>3
      <3>4. CASE p = <<A, v>> /\ BudgetStep(c) = 1
        <4>1. p[2] = v /\ Len(p) = 2
          BY <3>4
        <4> QED BY <3>2, <3>4, <4>1
      <3>5. CASE p = <<A, B>> /\ BudgetStep(c) = 2
        BY <3>2, <3>5
      <3>6. CASE p = <<A, B, v>> /\ BudgetStep(c) = 2
        <4>1. p[3] = v /\ Len(p) = 3
          BY <3>6
        <4> QED BY <3>2, <3>6, <4>1
      <3> QED BY <2>1, <3>1, <3>3, <3>4, <3>5, <3>6
    <2>2. c.op \in Op /\ c.op \notin {"close", "approve expense", "engage", "cancel expense"}
      BY <1>7, BudgetsAssumption DEF WellFormed, Scans
    <2>3. CASE c.op \in BudgetOps \cup {"request funds", "create expense"}
      <3>1. BudgetStep(c) = 1
        BY <2>3 DEF BudgetStep, BudgetOps, RequestOps, ExpenseOps, DocumentOps
      <3>2. \/ Plan(c) = <<{BudgetRow(c.budget)}>>
            \/ Plan(c) = <<{BudgetRow(c.budget)}, View>>
        BY <2>2, <2>3, PlanForms
      <3> QED BY <2>1, <3>1, <3>2
    <2>4. CASE c.op \in RequestOps \cup ExpenseOps \cup DocumentOps
      <3>1. BudgetStep(c) = 2
        BY <2>4, StepsOfBudget
      <3>2. \E A, B : Plan(c) \in {<<A, B>>, <<A, B, View>>}
        <4>1. CASE c.op = "disburse"
          BY <4>1, PlanForms DEF DisbursePlan
        <4>2. CASE c.op = "link"
          BY <4>2, PlanForms
        <4>3. CASE c.op \in RequestOps
          BY <4>3, PlanForms
        <4>4. CASE c.op \in ExpenseOps /\ c.op # "disburse"
          BY <2>2, <4>4, PlanForms
        <4> QED BY <2>2, <2>4, <4>1, <4>2, <4>3, <4>4 DEF DocumentOps
      <3> QED BY <2>1, <3>1, <3>2
    <2> QED BY <2>2, <2>3, <2>4 DEF Op, Creations, HasPlan
  <1> QED BY <1>1, <1>3, <1>5, <1>6, <1>7 DEF Scans

LEMMA NoPlan ==
  ASSUME NEW c \in Call, c.op = "create budget"
  PROVE  Plan(c) = << >>
  BY DEF Plan, RequestOps, ExpenseOps

LEMMA StatementsAsk ==
  ASSUME NEW c \in Call, NEW k \in Nat, 1 <= k, k <= Len(Plan(c)),
         Plan(c)[k] # View, NEW row \in Plan(c)[k]
  PROVE  Asks(c, k, row)
  <1>1. HasPlan(c)
    <2>1. ASSUME c.op = "create budget" PROVE Len(Plan(c)) = 0
      <3>1. Plan(c) = << >>
        BY <2>1, NoPlan
      <3> QED BY <3>1
    <2>2. Len(Plan(c)) # 0
      OBVIOUS
    <2> QED BY <2>1, <2>2 DEF HasPlan
  <1>2. BudgetStep(c) \in {1, 2}
    BY StepsOfBudget
  <1>3. CASE k > BudgetStep(c)
    BY <1>1, <1>3, ScansAreBeyond DEF Asks
  <1>4. CASE k = BudgetStep(c)
    <2>1. Plan(c)[k] = {BudgetRow(BudgetOf(c))}
      BY <1>1, <1>4, PlanLocksBudget DEF HasPlan
    <2> QED BY <1>1, <1>4, <2>1 DEF Asks
  <1>5. CASE k < BudgetStep(c)
    <2>1. k = 1 /\ BudgetStep(c) = 2
      BY <1>2, <1>5
    <2>2. row = OwnRow(c)
      BY <2>1, OwnFirst
    <2> QED BY <1>1, <2>1, <2>2 DEF Asks
  <1> QED BY <1>2, <1>3, <1>4, <1>5

(* What a call asks for are rows of the tables.                            *)
LEMMA AsksRows ==
  ASSUME IInv, NEW c \in Call, Named(c), NEW k, NEW row, Asks(c, k, row)
  PROVE  row \in Row
  <1>1. WellFormed(c)
    BY BudgetsAssumption
  <1>2. BudgetOf(c) \in Budget
    BY BudgetIsKnown DEF IInv, Asks, HasPlan
  <1>3. CASE BudgetStep(c) = 2 /\ row = OwnRow(c)
    <2>1. c.op \in RequestOps \cup ExpenseOps \cup DocumentOps
      BY <1>3, StepsOfBudget
    <2> QED BY <1>1, <1>3, <2>1 DEF OwnRow, WellFormed, Row
  <1>4. CASE row = BudgetRow(BudgetOf(c))
    BY <1>2, <1>4 DEF Row
  <1>5. CASE c.op = "cancel expense" /\ row = ReservationRow(c.expense)
    BY <1>1, <1>5 DEF WellFormed, ExpenseOps, Row
  <1>6. CASE PartOf(row, BudgetOf(c))
    BY <1>6 DEF PartOf, ExpensesOf, RequestsOf, IInv, TypeOK, Row
  <1> QED BY <1>3, <1>4, <1>5, <1>6 DEF Asks

LEMMA WantIsAsked ==
  ASSUME IInv, LocksExplained, NEW w \in Worker, NEW row \in Wants(w)
  PROVE  /\ Busy(w) /\ ~Holds(w, row) /\ row \in Row
         /\ work[w].call \in Call /\ Named(work[w].call)
         /\ work[w].step \in Nat /\ work[w].step >= 1
         /\ Asks(work[w].call, work[w].step, row)
  <1>1. InPlan(w) /\ Statement(w) # View /\ row \in Statement(w) /\ ~Holds(w, row)
    BY DEF Wants
  <1>2. Busy(w) /\ work[w].step <= Len(Plan(work[w].call))
    BY <1>1 DEF InPlan
  <1>3. work[w].call \in Call /\ Named(work[w].call)
    BY <1>2, CallsWellFormed DEF IInv, Sound, Known
  <1>4. work[w].step \in Nat /\ work[w].step >= 1
    BY <1>2 DEF IInv, TypeOK, WorkRecord, LocksExplained
  <1>5. Asks(work[w].call, work[w].step, row)
    BY <1>1, <1>2, <1>3, <1>4, StatementsAsk DEF Statement
  <1> QED BY <1>1, <1>2, <1>3, <1>4, <1>5, AsksRows

(* No step moves an expense or a request to another budget.                *)
RowsStay ==
    /\ \A e \in DOMAIN expense :
          e \in DOMAIN expense' /\ expense'[e].budget = expense[e].budget
    /\ \A r \in DOMAIN request :
          r \in DOMAIN request' /\ request'[r].budget = request[r].budget

LEMMA StepRowsStay ==
  ASSUME IInv, [Next]_vars
  PROVE  RowsStay
  <1>1. ASSUME UNCHANGED <<expense, request>> PROVE RowsStay
    BY <1>1 DEF RowsStay
  <1>2. ASSUME NEW w \in Worker, Decide(w) PROVE RowsStay
    <2> DEFINE c == work[w].call
    <2>1. ASSUME NEW op, NEW s, NEW n, ChangeBudget(w, op, s, n)
          PROVE  UNCHANGED <<expense, request>>
      BY <2>1 DEF ChangeBudget
    <2>2. CASE \/ SubmitBudget(w) \/ CorrectBudget(w) \/ ApproveBudget(w) \/ RejectBudget(w)
               \/ ReopenBudget(w) \/ CancelBudget(w) \/ CloseBudget(w)
      BY <1>1, <2>1, <2>2 DEF SubmitBudget, CorrectBudget, ApproveBudget, RejectBudget,
                              ReopenBudget, CancelBudget, CloseBudget
    <2>3. CASE CreateBudget(w) \/ Disburse(w)
      BY <1>1, <2>3 DEF CreateBudget, Disburse
    <2>4. CASE RequestFunds(w)
      <3>1. Named(c) /\ c.op = "request funds"
        BY <2>4, Deciding DEF RequestFunds
      <3>2. c.request \notin DOMAIN request
        BY <3>1 DEF Named
      <3>3. PICK row : request' = Insert(request, c.request, row) /\ expense' = expense
        BY <2>4 DEF RequestFunds
      <3> QED BY <3>2, <3>3 DEF Insert, RowsStay
    <2>5. CASE ApproveFunds(w) \/ RejectFunds(w)
      <3> DEFINE r == c.request
      <3>1. PICK s : request' = [request EXCEPT ![r].status = s]
        BY <2>5 DEF ApproveFunds, RejectFunds
      <3>2. expense' = expense
        BY <2>5 DEF ApproveFunds, RejectFunds
      <3>3. \A x \in DOMAIN request : request[x] \in RequestRecord
        BY DEF IInv, TypeOK
      <3>4. \A x \in DOMAIN request : request'[x].budget = request[x].budget
        BY <3>1, <3>3 DEF RequestRecord
      <3>5. DOMAIN request' = DOMAIN request
        BY <3>1
      <3> QED BY <3>2, <3>4, <3>5 DEF RowsStay
    <2>6. CASE CreateExpense(w) \/ Engage(w) \/ Link(w)
      <3>1. PICK op \in DocumentOps \cup {"create expense"} : Decides(w, op)
        BY <2>6 DEF CreateExpense, Engage, Link, EngageDocument, DocumentOps
      <3>2. Named(c) /\ c.op = op
        BY <3>1, Deciding
      <3>3. c.expense \notin DOMAIN expense
        BY <3>1, <3>2 DEF Named
      <3>4. PICK row : expense' = Insert(expense, c.expense, row) /\ request' = request
        BY <2>6 DEF CreateExpense, Engage, Link, EngageDocument, NewExpense
      <3> QED BY <3>3, <3>4 DEF Insert, RowsStay
    <2>7. CASE \/ SubmitExpense(w) \/ CorrectExpense(w) \/ ApproveExpense(w)
               \/ RejectExpense(w) \/ CancelExpense(w)
      <3>1. PICK op, s, n : ChangeExpense(w, op, s, n)
        BY <2>7 DEF SubmitExpense, CorrectExpense, ApproveExpense, RejectExpense, CancelExpense
      <3> DEFINE e == c.expense
                 row == [budget |-> expense[e].budget, amount |-> expense[e].amount,
                         creator |-> expense[e].creator, document |-> expense[e].document,
                         status |-> s]
      <3>2. expense' = [expense EXCEPT ![e] = row] /\ request' = request
        BY <3>1 DEF ChangeExpense
      <3>3. row.budget = expense[e].budget
        OBVIOUS
      <3> HIDE DEF row
      <3> QED BY <3>2, <3>3 DEF RowsStay
    <2> QED BY <1>2, <2>2, <2>3, <2>4, <2>5, <2>6, <2>7 DEF Decide
  <1>3. ASSUME NEW w \in Worker, Advance(w) PROVE RowsStay
    BY <1>1, <1>2, <1>3 DEF Advance, LockRow, Return, Refuse, Replay, tables
  <1>4. ASSUME NEW w \in Worker, NEW c \in Call, Begin(w, c) PROVE RowsStay
    BY <1>1, <1>4 DEF Begin, tables
  <1>5. ASSUME NEW w \in Worker, DeadlockVictim(w) \/ Crash(w) PROVE RowsStay
    BY <1>1, <1>5 DEF DeadlockVictim, Crash, tables
  <1>6. ASSUME NEW e \in DOMAIN expense, TreasuryActs(e) PROVE RowsStay
    BY <1>1, <1>6 DEF TreasuryActs, ReverseDisbursement, CreateReservation, SubmitReservation,
       ApproveReservation, RejectReservation, EndReservation, SetReservation
  <1>7. CASE UNCHANGED vars
    BY <1>1, <1>7 DEF vars
  <1> QED BY <1>3, <1>4, <1>5, <1>6, <1>7 DEF Next

(* What was asked for still was, when the transaction goes on.             *)
LEMMA AskedStays ==
  ASSUME IInv, RowsStay, NEW x \in Worker, Busy(x),
         work'[x].call = work[x].call,
         work'[x].step \in Nat, work'[x].step >= work[x].step,
         NEW row, Asked(x, row)
  PROVE  Asked(x, row)'
  <1>0. PICK c : c = work[x].call /\ c = work'[x].call
    OBVIOUS
  <1>1. PICK k \in Nat : k <= work[x].step /\ Asks(c, k, row)
    BY <1>0 DEF Asked
  <1>2. c \in Call /\ Named(c) /\ HasPlan(c)
    BY <1>0, <1>1, CallsWellFormed DEF IInv, Sound, Known, Asks
  <1>3. k <= work'[x].step
    BY <1>1 DEF IInv, TypeOK, WorkRecord
  <1>4. BudgetOf(c)' = BudgetOf(c)
    <2>1. /\ c.op \in ExpenseOps => c.expense \in DOMAIN expense
          /\ c.op \in RequestOps => c.request \in DOMAIN request
      BY <1>2 DEF Named
    <2> QED BY <2>1 DEF BudgetOf, RowsStay
  <1>5. \A b : PartOf(row, b) => PartOf(row, b)'
    BY DEF PartOf, ExpensesOf, RequestsOf, RowsStay, ExpenseRow, ReservationRow, RequestRow
  <1>6. Asks(c, k, row)'
    <2>1. PICK b : b = BudgetOf(c) /\ b = BudgetOf(c)'
      BY <1>4
    <2>2. CASE k = 1 /\ BudgetStep(c) = 2 /\ row = OwnRow(c)
      BY <1>2, <2>2 DEF Asks, HasPlan, BudgetStep, OwnRow, RequestRow, ExpenseRow, DocumentRow
    <2>3. CASE k = BudgetStep(c) /\ row = BudgetRow(b)
      BY <1>2, <2>1, <2>3 DEF Asks, HasPlan, BudgetStep, BudgetRow
    <2>4. CASE k > BudgetStep(c) /\ c.op = "cancel expense" /\ row = ReservationRow(c.expense)
      BY <1>2, <2>4 DEF Asks, HasPlan, BudgetStep, ReservationRow
    <2>5. CASE k > BudgetStep(c) /\ c.op \in Scans /\ PartOf(row, b)
      <3>1. PartOf(row, b)'
        BY <1>5, <2>5
      <3> QED BY <1>2, <2>1, <2>5, <3>1 DEF Asks, HasPlan, BudgetStep, Scans
    <2> QED BY <1>1, <2>1, <2>2, <2>3, <2>4, <2>5 DEF Asks
  <1> QED BY <1>0, <1>3, <1>6 DEF Asked

LEMMA StepExplained ==
  ASSUME IInv, LocksExplained, [Next]_vars
  PROVE  LocksExplained'
  <1>1. RowsStay
    BY StepRowsStay
  <1>2. lock \in [Row -> Worker \cup {None}] /\ work \in [Worker -> WorkRecord] /\ None \notin Worker
    BY BudgetsAssumption DEF IInv, TypeOK
  <1>3. ASSUME NEW x \in Worker, work'[x] = work[x],
               \A row \in Row : lock'[row] = x => lock[row] = x
        PROVE  /\ Busy(x)' => work'[x].step >= 1
               /\ \A row \in Row : Holds(x, row)' => Busy(x)' /\ Asked(x, row)'
    <2>1. Busy(x)' <=> Busy(x)
      BY <1>3 DEF Busy
    <2>2. work[x].step \in Nat
      BY <1>2 DEF WorkRecord
    <2>3. ASSUME NEW row \in Row, Holds(x, row)' PROVE Busy(x)' /\ Asked(x, row)'
      <3>1. Busy(x) /\ Asked(x, row)
        BY <1>3, <2>3 DEF Holds, LocksExplained
      <3>2. work'[x].step >= work[x].step /\ work'[x].step \in Nat
        BY <1>3, <2>2
      <3> QED BY <1>1, <1>3, <2>1, <3>1, <3>2, AskedStays
    <2>4. Busy(x)' => work'[x].step >= 1
      BY <1>3, <2>1 DEF LocksExplained
    <2> QED BY <2>3, <2>4
  <1>4. ASSUME NEW w \in Worker, End(w) PROVE LocksExplained'
    <2>1. ~Busy(w)' /\ \A x \in Worker : x # w => work'[x] = work[x]
      BY <1>4, EndType DEF IInv
    <2>2. \A row \in Row : lock'[row] = IF lock[row] = w THEN None ELSE lock[row]
      BY <1>4 DEF End
    <2>3. \A row \in Row : lock'[row] # w
      BY <1>2, <2>2
    <2>4. \A row \in Row, x \in Worker : lock'[row] = x => lock[row] = x
      BY <1>2, <2>2
    <2>5. \A row \in Row : ~Holds(w, row)'
      BY <2>3 DEF Holds
    <2> QED BY <1>3, <2>1, <2>4, <2>5 DEF LocksExplained
  <1>5. ASSUME NEW w \in Worker, NEW c \in Call, Begin(w, c) PROVE LocksExplained'
    <2>1. /\ ~Busy(w) /\ lock' = lock
          /\ work' = [work EXCEPT ![w] = [Idle EXCEPT !.call = c, !.step = 1]]
      BY <1>5 DEF Begin
    <2>2. work'[w].step = 1 /\ \A x \in Worker : x # w => work'[x] = work[x]
      BY <1>2, <2>1 DEF Idle
    <2>3. \A row \in Row : lock'[row] # w
      BY <2>1 DEF LocksExplained, Holds
    <2>4. \A row \in Row : ~Holds(w, row)'
      BY <2>3 DEF Holds
    <2>5. Busy(w)' => work'[w].step >= 1
      BY <2>2
    <2> QED BY <1>3, <2>1, <2>2, <2>4, <2>5 DEF LocksExplained
  <1>6. ASSUME NEW w \in Worker, LockRow(w) PROVE LocksExplained'
    <2>1. UNCHANGED <<tables, work>> /\ Busy(w)
      BY <1>6 DEF LockRow, Proceeds
    <2>2. PICK r \in Wants(w) : lock[r] = None /\ lock' = [lock EXCEPT ![r] = w]
      BY <1>6 DEF LockRow
    <2>3. \A row \in Row : lock'[row] = IF row = r THEN w ELSE lock[row]
      BY <1>2, <2>2, WantIsAsked
    <2>4. ASSUME NEW x \in Worker, x # w
          PROVE  /\ Busy(x)' => work'[x].step >= 1
                 /\ \A row \in Row : Holds(x, row)' => Busy(x)' /\ Asked(x, row)'
      BY <1>3, <2>1, <2>3, <2>4
    <2>5. Busy(w)' /\ work'[w].step >= 1
      BY <2>1 DEF Busy, LocksExplained
    <2>6. ASSUME NEW row \in Row, Holds(w, row)' PROVE Asked(w, row)'
      <3>1. Asked(w, row)
        <4>1. CASE row = r
          BY <4>1, WantIsAsked DEF Asked
        <4>2. CASE row # r
          <5>1. lock[row] = w
            BY <2>3, <2>6, <4>2 DEF Holds
          <5> QED BY <5>1 DEF LocksExplained, Holds
        <4> QED BY <4>1, <4>2
      <3>2. work'[w].call = work[w].call /\ work'[w].step = work[w].step /\ work[w].step \in Nat
        BY <1>2, <2>1 DEF WorkRecord
      <3>3. work'[w].step \in Nat /\ work'[w].step >= work[w].step
        BY <3>2
      <3> QED BY <1>1, <2>1, <3>1, <3>2, <3>3, AskedStays
    <2> QED BY <2>4, <2>5, <2>6 DEF LocksExplained
  <1>7. ASSUME NEW w \in Worker, Return(w) PROVE LocksExplained'
    <2>1. PICK v, s, n :
            work' = [work EXCEPT ![w] = [call |-> work[w].call, step |-> work[w].step + 1,
                                         viewed |-> v, seen |-> s, spent |-> n]]
      BY <1>7 DEF Return
    <2>2. lock' = lock /\ Busy(w)
      BY <1>7 DEF Return, Proceeds
    <2>3. /\ work'[w].call = work[w].call /\ work'[w].step = work[w].step + 1
          /\ \A x \in Worker : x # w => work'[x] = work[x]
      BY <1>2, <2>1
    <2>4. work[w].step \in Nat /\ work[w].step >= 1
      BY <1>2, <2>2 DEF WorkRecord, LocksExplained
    <2>5. work'[w].step \in Nat /\ work'[w].step >= work[w].step /\ work'[w].step >= 1
      BY <2>3, <2>4
    <2>6. ASSUME NEW row \in Row, Holds(w, row)' PROVE Busy(w)' /\ Asked(w, row)'
      <3>1. Asked(w, row)
        BY <2>2, <2>6 DEF Holds, LocksExplained
      <3> QED BY <1>1, <2>2, <2>3, <2>5, <3>1, AskedStays DEF Busy
    <2>7. ASSUME NEW x \in Worker, x # w
          PROVE  /\ Busy(x)' => work'[x].step >= 1
                 /\ \A row \in Row : Holds(x, row)' => Busy(x)' /\ Asked(x, row)'
      BY <1>3, <2>2, <2>3, <2>7
    <2> QED BY <2>5, <2>6, <2>7 DEF LocksExplained
  <1>8. ASSUME UNCHANGED <<lock, work>> PROVE LocksExplained'
    BY <1>3, <1>8 DEF LocksExplained
  <1>9. ASSUME NEW w \in Worker, Decide(w) PROVE End(w)
    BY <1>9 DEF Decide, CreateBudget, ChangeBudget, SubmitBudget, CorrectBudget, ApproveBudget,
       RejectBudget, ReopenBudget, CancelBudget, CloseBudget, RequestFunds, ApproveFunds,
       RejectFunds, CreateExpense, Engage, Link, EngageDocument, ChangeExpense, SubmitExpense,
       CorrectExpense, ApproveExpense, RejectExpense, CancelExpense, Disburse
  <1>10. ASSUME NEW w \in Worker, Advance(w) \/ DeadlockVictim(w) \/ Crash(w)
         PROVE  LocksExplained'
    BY <1>4, <1>6, <1>7, <1>9, <1>10 DEF Advance, Refuse, Replay, DeadlockVictim, Crash
  <1>11. ASSUME NEW e \in DOMAIN expense, TreasuryActs(e) PROVE UNCHANGED <<lock, work>>
    BY <1>11 DEF TreasuryActs, ReverseDisbursement, CreateReservation, SubmitReservation,
       ApproveReservation, RejectReservation, EndReservation, SetReservation
  <1>12. CASE UNCHANGED vars
    BY <1>8, <1>12 DEF vars
  <1> QED BY <1>5, <1>8, <1>10, <1>11, <1>12 DEF Next

(* Every row a transaction holds is one its statements have asked for: the *)
(* row it decides on, its budget, or, once it holds the budget, a row that *)
(* belongs to it.                                                          *)
THEOREM LocksAsked == Spec => []LocksExplained
  <1>1. Init => LocksExplained
    <2> SUFFICES ASSUME Init PROVE LocksExplained
      OBVIOUS
    <2>1. \A w \in Worker : ~Busy(w)
      BY IdleType DEF Init, Busy
    <2>2. \A w \in Worker, row \in Row : ~Holds(w, row)
      BY BudgetsAssumption DEF Init, Holds
    <2> QED BY <2>1, <2>2 DEF LocksExplained
  <1>2. IInv /\ LocksExplained /\ [Next]_vars => LocksExplained'
    BY StepExplained
  <1> QED BY <1>1, <1>2, Invariance, PTL DEF Spec

-----------------------------------------------------------------------------
(* Deadlocks.  Where nobody holds a budget and asks for what belongs to    *)
(* it, every row a worker asks for ranks above those it holds: first a row *)
(* of its own, then the budget, then a reservation.  Along a cycle of      *)
(* waits the ranks would rise for ever.                                    *)

Rank(row) == IF row[1] = "budget" THEN 1 ELSE IF row[1] = "reservation" THEN 2 ELSE 0

LEMMA Ranks ==
  /\ \A c : Rank(OwnRow(c)) = 0
  /\ \A b : Rank(BudgetRow(b)) = 1
  /\ \A e : Rank(ReservationRow(e)) = 2
  /\ \A row : Rank(row) \in 0..2
  <1>1. \A c : Rank(OwnRow(c)) = 0
    BY DEF Rank, OwnRow, RequestRow, ExpenseRow, DocumentRow
  <1>2. \A b : Rank(BudgetRow(b)) = 1
    BY DEF Rank, BudgetRow
  <1>3. \A e : Rank(ReservationRow(e)) = 2
    BY DEF Rank, ReservationRow
  <1>4. \A row : Rank(row) \in 0..2
    BY DEF Rank
  <1> QED BY <1>1, <1>2, <1>3, <1>4

LEMMA Rising ==
  ASSUME IInv, LocksExplained, NEW w \in Worker, ~AgainstOrder(w),
         NEW row \in Row, Holds(w, row), NEW next \in Wants(w)
  PROVE  Rank(row) < Rank(next)
  <1> DEFINE c == work[w].call
             k == work[w].step
  <1>1. /\ Busy(w) /\ ~Holds(w, next) /\ k \in Nat
        /\ Asks(c, k, next)
    BY WantIsAsked
  <1>2. PICK j \in Nat : j <= k /\ Asks(c, j, row)
    BY DEF LocksExplained, Asked
  <1>3. row # next
    BY <1>1
  <1>4. BudgetStep(c) \in {1, 2}
    BY StepsOfBudget
  <1>5. ~(k > BudgetStep(c) /\ c.op \in Scans)
    <2>1. ASSUME k > BudgetStep(c), c.op \in Scans PROVE FALSE
      <3>1. HasBudget(w, c)
        BY <1>1, <2>1 DEF IInv, Sound, BudgetHeld, HasBudget, Holds, Scans
      <3> QED BY <2>1, <3>1 DEF AgainstOrder, Scans
    <2> QED BY <2>1
  <1>6. ~(j > BudgetStep(c) /\ c.op \in Scans)
    BY <1>1, <1>2, <1>4, <1>5
  <1>7. \/ j = 1 /\ BudgetStep(c) = 2 /\ row = OwnRow(c)
        \/ j = BudgetStep(c) /\ row = BudgetRow(BudgetOf(c))
        \/ j > BudgetStep(c) /\ row = ReservationRow(c.expense)
    BY <1>2, <1>6 DEF Asks
  <1>8. \/ k = 1 /\ BudgetStep(c) = 2 /\ next = OwnRow(c)
        \/ k = BudgetStep(c) /\ next = BudgetRow(BudgetOf(c))
        \/ k > BudgetStep(c) /\ next = ReservationRow(c.expense)
    BY <1>1, <1>5 DEF Asks
  <1> HIDE DEF c, k
  <1> QED BY <1>1, <1>2, <1>3, <1>4, <1>7, <1>8, Ranks

(* The budget a row belongs to.                                            *)
Owner(row) ==
    IF row[1] = "budget" THEN row[2]
    ELSE IF row[1] = "request" THEN request[row[2]].budget ELSE expense[row[2]].budget

LEMMA OwnerIs ==
  ASSUME IInv, NEW c \in Call, NEW k, NEW row, Asks(c, k, row), row[1] # "document"
  PROVE  Owner(row) = BudgetOf(c)
  <1>1. CASE row = BudgetRow(BudgetOf(c))
    BY <1>1 DEF Owner, BudgetRow
  <1>2. CASE c.op = "cancel expense" /\ row = ReservationRow(c.expense)
    BY <1>2 DEF Owner, ReservationRow, BudgetOf, ExpenseOps
  <1>3. CASE PartOf(row, BudgetOf(c))
    <2>1. CASE \E e \in ExpensesOf(BudgetOf(c)) : row \in {ExpenseRow(e), ReservationRow(e)}
      BY <2>1 DEF Owner, ExpenseRow, ReservationRow, ExpensesOf
    <2>2. CASE \E r \in RequestsOf(BudgetOf(c)) : row = RequestRow(r)
      BY <2>2 DEF Owner, RequestRow, RequestsOf
    <2> QED BY <1>3, <2>1, <2>2 DEF PartOf
  <1>4. CASE BudgetStep(c) = 2 /\ row = OwnRow(c)
    <2>1. c.op \in RequestOps \cup ExpenseOps
      BY <1>4 DEF OwnRow, DocumentRow
    <2>2. CASE c.op \in RequestOps
      <3>1. c.op \notin ExpenseOps
        BY <2>2 DEF RequestOps, ExpenseOps
      <3> QED BY <1>4, <2>2, <3>1 DEF OwnRow, Owner, RequestRow, BudgetOf
    <2>3. CASE c.op \in ExpenseOps /\ c.op \notin RequestOps
      BY <1>4, <2>3 DEF OwnRow, Owner, ExpenseRow, BudgetOf
    <2> QED BY <2>1, <2>2, <2>3
  <1> QED BY <1>1, <1>2, <1>3, <1>4 DEF Asks

(* Every deadlock of budgets, expenses, requests and documents has a       *)
(* closure, an approval or an engagement that holds the budget and asks    *)
(* for what belongs to it, and all its members wait for rows of the one    *)
(* budget: whatever else is sent at once, the other operations of the      *)
(* routes lock in one order (hr.routes.ts).                                *)
THEOREM DeadlocksExplained == Spec => []DeadlocksAgainstOrder
  <1>1. ASSUME IInv, LocksExplained, NEW S \in SUBSET Worker, S # {}, Deadlocked(S)
        PROVE  \E w \in S : AgainstOrder(w)
    <2> SUFFICES ASSUME \A w \in S : ~AgainstOrder(w) PROVE FALSE
      OBVIOUS
    <2>1. ASSUME NEW w \in S
          PROVE  \E row \in Wants(w), x \in S : row \in Row /\ Holds(x, row)
      <3>1. PICK x \in S : WaitsFor(w, x)
        BY <1>1 DEF Deadlocked
      <3>2. PICK row \in Wants(w) : lock[row] = x
        BY <3>1 DEF WaitsFor
      <3>3. row \in Row
        BY <1>1, WantIsAsked
      <3> QED BY <3>2, <3>3 DEF Holds
    <2>2. ASSUME NEW w \in S, NEW row \in Row, Holds(w, row)
          PROVE  \E next \in Row, x \in S : Holds(x, next) /\ Rank(row) < Rank(next)
      <3>1. PICK next \in Wants(w), x \in S : next \in Row /\ Holds(x, next)
        BY <2>1
      <3>2. Rank(row) < Rank(next)
        BY <1>1, <2>2, Rising
      <3> QED BY <3>1, <3>2
    <2>3. PICK row0 \in Row, x0 \in S : Holds(x0, row0)
      BY <1>1, <2>1
    <2>4. PICK row1 \in Row, x1 \in S : Holds(x1, row1) /\ Rank(row0) < Rank(row1)
      BY <2>2, <2>3
    <2>5. PICK row2 \in Row, x2 \in S : Holds(x2, row2) /\ Rank(row1) < Rank(row2)
      BY <2>2, <2>4
    <2>6. PICK row3 \in Row, x3 \in S : Holds(x3, row3) /\ Rank(row2) < Rank(row3)
      BY <2>2, <2>5
    <2>7. /\ Rank(row0) \in 0..2 /\ Rank(row1) \in 0..2
          /\ Rank(row2) \in 0..2 /\ Rank(row3) \in 0..2
      BY Ranks
    <2> QED BY <2>4, <2>5, <2>6, <2>7
  <1>2. ASSUME IInv, LocksExplained, NEW S \in SUBSET Worker, Deadlocked(S),
               NEW w \in S, NEW x \in S, WaitsFor(w, x)
        PROVE  BudgetOf(work[w].call) = BudgetOf(work[x].call)
    <2> DEFINE c == work[w].call
               d == work[x].call
    <2>1. PICK row \in Wants(w) : lock[row] = x
      BY <1>2 DEF WaitsFor
    <2>2. /\ c \in Call /\ row \in Row /\ ~Holds(w, row)
          /\ work[w].step \in Nat /\ Asks(c, work[w].step, row)
      BY <1>2, WantIsAsked
    <2>3. Busy(x) /\ d \in Call
      BY <1>2, <2>1, <2>2, CallsWellFormed DEF LocksExplained, Holds, IInv
    <2>4. PICK j \in Nat : j <= work[x].step /\ Asks(d, j, row)
      BY <1>2, <2>1, <2>2 DEF LocksExplained, Asked, Holds
    <2>5. ASSUME BudgetStep(c) = 2, row = OwnRow(c), work[w].step = 1 PROVE FALSE
      <3>1. PICK y \in S : \E held \in Wants(y) : lock[held] = w
        BY <1>2 DEF Deadlocked, WaitsFor
      <3>2. PICK held \in Wants(y) : lock[held] = w
        BY <3>1
      <3>3. held \in Row
        BY <1>2, WantIsAsked
      <3>4. PICK i \in Nat : i <= 1 /\ Asks(c, i, held)
        BY <1>2, <2>5, <3>2, <3>3 DEF LocksExplained, Asked, Holds
      <3>5. i # BudgetStep(c) /\ ~(i > BudgetStep(c))
        BY <2>5, <3>4
      <3>6. held = OwnRow(c)
        BY <3>4, <3>5 DEF Asks
      <3> QED BY <2>2, <2>5, <3>2, <3>6 DEF Holds
    <2>6. row[1] # "document"
      <3>1. \/ row = BudgetRow(BudgetOf(c))
            \/ row = ReservationRow(c.expense)
            \/ PartOf(row, BudgetOf(c))
        BY <2>2, <2>5 DEF Asks
      <3>2. row[1] \in {"budget", "reservation", "expense", "request"}
        BY <3>1 DEF PartOf, BudgetRow, ReservationRow, ExpenseRow, RequestRow
      <3> QED BY <3>2
    <2> QED BY <1>2, <2>2, <2>3, <2>4, <2>6, OwnerIs
  <1>3. IInv /\ LocksExplained => DeadlocksAgainstOrder
    BY <1>1, <1>2 DEF DeadlocksAgainstOrder
  <1> QED BY <1>3, Invariance, LocksAsked, PTL
=============================================================================
