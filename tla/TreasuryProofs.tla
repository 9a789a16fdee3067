--------------------------- MODULE TreasuryProofs ---------------------------
(***************************************************************************)
(* What Treasury guarantees for every number of workers, accounts,         *)
(* expenses and reservations, and every set of calls.                      *)
(*                                                                         *)
(* The inductive invariant IInv adds to the types what a transaction in    *)
(* progress relies on: it holds the rows of the statements behind it       *)
(* (PlanFollowed), so nobody changes the sums it has seen (FreshView,      *)
(* FreshPaid), and the rows it may meet have their shape (LedgerShape,     *)
(* ReservationShape).  A step of one worker is shown to keep what it did   *)
(* itself (Sound) and what the others rely on (Frame).                     *)
(*                                                                         *)
(* A second invariant, Tied, rests on the first: the balances, the         *)
(* reservations and the payments are the sums of the rows that stand, and  *)
(* the refunds of a payment fit in it (SumTheorems).                       *)
(*                                                                         *)
(* A third one, LocksExplained, says which rows a transaction can hold or  *)
(* share, and so which calls can deadlock.                                 *)
(***************************************************************************)
EXTENDS Treasury, SumTheorems, TLAPS

-----------------------------------------------------------------------------
(* Amounts, calls and records.                                             *)

LEMMA AmountsAreNat == \A n \in Amounts : n \in Nat /\ n \in Int /\ n >= 0
  <1> SUFFICES ASSUME NEW n \in Amounts PROVE n \in Nat /\ n \in Int /\ n >= 0
    OBVIOUS
  <1>1. PICK c \in Call :
           /\ c.op \in {"manual", "collect", "refund", "disburse", "transfer", "reserve"}
           /\ n \in 0..c.amount
    BY DEF Amounts
  <1>2. c.amount \in Nat
    BY <1>1, TreasuryAssumption DEF WellFormed
  <1> QED BY <1>1, <1>2

LEMMA PartOfAmount ==
  ASSUME NEW n \in Amounts, NEW m \in 0..n
  PROVE  m \in Amounts
  <1>1. PICK c \in Call :
           /\ c.op \in {"manual", "collect", "refund", "disburse", "transfer", "reserve"}
           /\ n \in 0..c.amount
    BY DEF Amounts
  <1>2. c.amount \in Nat
    BY <1>1, TreasuryAssumption DEF WellFormed
  <1>3. m \in 0..c.amount
    BY <1>1, <1>2
  <1> QED BY <1>1, <1>3 DEF Amounts

LEMMA AmountOfCall ==
  ASSUME NEW c \in Call,
         c.op \in {"manual", "collect", "refund", "disburse", "transfer", "reserve"}
  PROVE  c.amount \in Amounts \ {0}
  <1>1. c.amount \in Nat \ {0}
    BY TreasuryAssumption DEF WellFormed
  <1> QED BY <1>1 DEF Amounts

LEMMA IdleType == Idle \in WorkRecord
  BY DEF Idle, NoView, WorkRecord, ViewRecord

LEMMA InitTypeOK == Init => TypeOK
  <1> SUFFICES ASSUME Init PROVE TypeOK
    OBVIOUS
  <1>1. work \in [Worker -> WorkRecord]
    BY IdleType DEF Init
  <1> QED BY <1>1, TreasuryAssumption DEF Init, TypeOK

(* A worker that is busy runs a well-formed call.                          *)
LEMMA CallOfWorker ==
  ASSUME TypeOK, NEW w \in Worker, Busy(w)
  PROVE  /\ work[w].call \in Call
         /\ WellFormed(work[w].call)
         /\ work[w].step \in Nat
         /\ work[w].viewed \in BOOLEAN
         /\ work[w].view \in ViewRecord
  <1>1. work[w] \in WorkRecord
    BY DEF TypeOK
  <1>2. work[w].call \in Call
    BY <1>1 DEF Busy, WorkRecord
  <1> QED BY <1>1, <1>2, TreasuryAssumption DEF WorkRecord

LEMMA EndTypeOK ==
  ASSUME TypeOK, NEW w \in Worker, End(w)
  PROVE  /\ lock' \in [Row -> Worker \cup {None}]
         /\ sharing' \subseteq Worker
         /\ work' \in [Worker -> WorkRecord]
  BY IdleType DEF TypeOK, End

LEMMA RefusalTypeOK ==
  ASSUME TypeOK, NEW w \in Worker, End(w), UNCHANGED tables
  PROVE  TypeOK'
  <1>1. /\ lock' \in [Row -> Worker \cup {None}] /\ sharing' \subseteq Worker
        /\ work' \in [Worker -> WorkRecord]
    BY EndTypeOK
  <1> QED BY <1>1 DEF TypeOK, tables, MovementRecord

LEMMA BeginTypeOK ==
  ASSUME TypeOK, NEW w \in Worker, NEW c \in Call, Begin(w, c)
  PROVE  TypeOK'
  <1>1. [Idle EXCEPT !.call = c, !.step = 1] \in WorkRecord
    BY IdleType DEF WorkRecord
  <1> QED BY <1>1 DEF TypeOK, Begin, tables, MovementRecord

LEMMA LockRowTypeOK ==
  ASSUME TypeOK, NEW w \in Worker, LockRow(w)
  PROVE  TypeOK'
  <1>1. lock' \in [Row -> Worker \cup {None}]
    <2>1. PICK r : lock' = [lock EXCEPT ![r] = w]
      BY DEF LockRow
    <2> QED BY <2>1 DEF TypeOK
  <1>2. [work[w] EXCEPT !.step = @ + 1] \in WorkRecord
    BY DEF TypeOK, WorkRecord
  <1>3. work' \in [Worker -> WorkRecord]
    BY <1>2 DEF TypeOK, LockRow
  <1> QED BY <1>1, <1>3 DEF TypeOK, LockRow, tables, MovementRecord

LEMMA OpenViewTypeOK ==
  ASSUME TypeOK, NEW w \in Worker, OpenView(w)
  PROVE  TypeOK'
  <1>1. Snapshot \in ViewRecord
    BY DEF TypeOK, Snapshot, ViewRecord
  <1>2. [call |-> work[w].call, step |-> work[w].step + 1,
         viewed |-> TRUE, view |-> Snapshot] \in WorkRecord
    BY <1>1 DEF TypeOK, WorkRecord
  <1>3. work' = [work EXCEPT ![w] = [call |-> work[w].call, step |-> work[w].step + 1,
                                     viewed |-> TRUE, view |-> Snapshot]]
    BY DEF OpenView
  <1>4. work' \in [Worker -> WorkRecord]
    BY <1>2, <1>3 DEF TypeOK
  <1> QED BY <1>4 DEF TypeOK, OpenView, tables, MovementRecord

LEMMA PostTypeOK ==
  ASSUME TypeOK, NEW id, NEW m, MovementRecord(m), Post(id, m)
  PROVE  /\ \A x \in DOMAIN ledger' : MovementRecord(ledger[x])'
         /\ balance' \in [Account -> Int]
  <1>1. \A x \in DOMAIN ledger' :
           ledger'[x] = m \/ (x \in DOMAIN ledger /\ ledger'[x] = ledger[x])
    BY DEF Post, Insert
  <1>2. Signed(m) \in Int
    <2>1. m.amount \in Int
      BY AmountsAreNat DEF MovementRecord
    <2> QED BY <2>1 DEF Signed
  <1>3. balance' \in [Account -> Int]
    BY <1>2 DEF Post, TypeOK, MovementRecord
  <1>4. \A x \in DOMAIN ledger' : MovementRecord(ledger'[x])
    BY <1>1 DEF TypeOK
  <1> QED BY <1>3, <1>4 DEF MovementRecord

LEMMA PostTwoTypeOK ==
  ASSUME TypeOK, NEW i, NEW m, NEW j, NEW n,
         MovementRecord(m), MovementRecord(n), PostTwo(i, m, j, n)
  PROVE  /\ \A x \in DOMAIN ledger' : MovementRecord(ledger[x])'
         /\ balance' \in [Account -> Int]
  <1>1. \A x \in DOMAIN ledger' :
           \/ ledger'[x] = m \/ ledger'[x] = n
           \/ x \in DOMAIN ledger /\ ledger'[x] = ledger[x]
    BY DEF PostTwo, Insert
  <1>2. Signed(m) \in Int /\ Signed(n) \in Int
    <2>1. m.amount \in Int /\ n.amount \in Int
      BY AmountsAreNat DEF MovementRecord
    <2> QED BY <2>1 DEF Signed
  <1>3. balance' \in [Account -> Int]
    BY <1>2 DEF PostTwo, TypeOK, MovementRecord
  <1>4. \A x \in DOMAIN ledger' : MovementRecord(ledger'[x])
    BY <1>1 DEF TypeOK
  <1> QED BY <1>3, <1>4 DEF MovementRecord

LEMMA UpdateTypeOK ==
  ASSUME TypeOK, NEW id \in DOMAIN reservation, NEW new \in ReservationRecord,
         UpdateReservation(id, new)
  PROVE  /\ DOMAIN reservation' = DOMAIN reservation
         /\ \A r \in DOMAIN reservation' : reservation'[r] \in ReservationRecord
         /\ reserved' \in [Account -> Int]
         /\ engaged' \in [Expense -> Int]
  <1>1. ActiveAmount(new) \in Int /\ ActiveAmount(reservation[id]) \in Int
    BY DEF TypeOK, ReservationRecord, ActiveAmount
  <1>2. reservation[id].account \in Account /\ reservation[id].expense \in Expense
    BY DEF TypeOK, ReservationRecord
  <1>3. reserved' \in [Account -> Int] /\ engaged' \in [Expense -> Int]
    BY <1>1, <1>2 DEF TypeOK, UpdateReservation
  <1>4. /\ DOMAIN reservation' = DOMAIN reservation
        /\ \A r \in DOMAIN reservation' : reservation'[r] = new \/ reservation'[r] = reservation[r]
    BY DEF UpdateReservation
  <1>5. \A r \in DOMAIN reservation' : reservation'[r] \in ReservationRecord
    BY <1>4 DEF TypeOK
  <1> QED BY <1>3, <1>4, <1>5

LEMMA DraftType ==
  ASSUME NEW c \in Call, c.op \in {"manual", "collect", "disburse", "refund"}
  PROVE  MovementRecord(Draft(c))
  <1>1. c.amount \in Amounts
    BY AmountOfCall
  <1> QED BY <1>1, TreasuryAssumption DEF WellFormed, MovementRecord, Draft, Movement

-----------------------------------------------------------------------------
(* What a worker holds and has seen when its plan is done.                 *)

LEMMA RowsDiffer ==
  /\ \A a : AccountRow(a) # View
  /\ \A e : ExpenseRow(e) # View
  /\ \A r : ReservationRow(r) # View
  /\ \A p : InvoiceRow(p) # View
  /\ ConcessionRow # View
  /\ \A a, b : AccountRow(a) = AccountRow(b) => a = b
  /\ \A a, b : ExpenseRow(a) = ExpenseRow(b) => a = b
  BY DEF AccountRow, ExpenseRow, ReservationRow, InvoiceRow, ConcessionRow, View

LEMMA PlanLength == \A c \in Call : Len(Plan(c)) \in Nat
  BY DEF Plan, ExpensePlan, ReverseTransferPlan

LEMMA PlanDone ==
  ASSUME TypeOK, PlanFollowed, NEW w \in Worker, Planned(w),
         NEW c, c = work[w].call
  PROVE  /\ \A j \in 1..Len(Plan(c)) : Plan(c)[j] # View => Holds(w, Plan(c)[j])
         /\ (\E j \in 1..Len(Plan(c)) : Plan(c)[j] = View) => Viewed(w)
  <1>1. Busy(w) /\ c \in Call /\ work[w].step \in Nat
    BY CallOfWorker DEF Planned
  <1>2. \A j \in 1..Len(Plan(c)) : j < work[w].step
    BY <1>1, PlanLength DEF Planned
  <1> QED BY <1>1, <1>2 DEF PlanFollowed, FollowsPlan

(* The rows each operation has locked by then, and whether it has its      *)
(* snapshot.                                                               *)
LEMMA HeldByManual ==
  ASSUME TypeOK, PlanFollowed, NEW w \in Worker, Planned(w),
         NEW c, c = work[w].call, c.op = "manual"
  PROVE  /\ Holds(w, AccountRow(c.account))
         /\ c.direction = "OUT" => Viewed(w)
  <1>0. /\ \A j \in 1..Len(Plan(c)) : Plan(c)[j] # View => Holds(w, Plan(c)[j])
        /\ (\E j \in 1..Len(Plan(c)) : Plan(c)[j] = View) => Viewed(w)
    BY PlanDone
  <1>1. CASE c.direction = "IN"
    <2>1. Plan(c) = <<AccountRow(c.account)>>
      BY <1>1 DEF Plan
    <2> QED BY <1>1, <2>1, <1>0, RowsDiffer
  <1>2. CASE c.direction # "IN"
    <2>1. Plan(c) = <<AccountRow(c.account), View>>
      BY <1>2 DEF Plan
    <2> QED BY <2>1, <1>0, RowsDiffer
  <1> QED BY <1>1, <1>2

LEMMA HeldByCollect ==
  ASSUME TypeOK, PlanFollowed, NEW w \in Worker, Planned(w),
         NEW c, c = work[w].call, c.op = "collect"
  PROVE  Holds(w, InvoiceRow(c.payment)) /\ Holds(w, AccountRow(c.account))
  <1>0. /\ \A j \in 1..Len(Plan(c)) : Plan(c)[j] # View => Holds(w, Plan(c)[j])
        /\ (\E j \in 1..Len(Plan(c)) : Plan(c)[j] = View) => Viewed(w)
    BY PlanDone
  <1>1. Plan(c) = <<InvoiceRow(c.payment), ConcessionRow, AccountRow(c.account)>>
    BY DEF Plan
  <1> QED BY <1>1, <1>0, RowsDiffer

LEMMA HeldByRefund ==
  ASSUME TypeOK, PlanFollowed, NEW w \in Worker, Planned(w),
         NEW c, c = work[w].call, c.op = "refund"
  PROVE  /\ Holds(w, InvoiceRow(c.payment)) /\ Holds(w, AccountRow(c.account))
         /\ Viewed(w)
  <1>0. /\ \A j \in 1..Len(Plan(c)) : Plan(c)[j] # View => Holds(w, Plan(c)[j])
        /\ (\E j \in 1..Len(Plan(c)) : Plan(c)[j] = View) => Viewed(w)
    BY PlanDone
  <1>1. Plan(c) = <<InvoiceRow(c.payment), View, AccountRow(c.account)>>
    BY DEF Plan
  <1> QED BY <1>1, <1>0, RowsDiffer

LEMMA HeldForExpense ==
  ASSUME TypeOK, PlanFollowed, NEW w \in Worker, Planned(w),
         NEW c, c = work[w].call, c.op \in {"disburse", "reserve"}
  PROVE  /\ Holds(w, ExpenseRow(c.expense)) /\ Holds(w, AccountRow(c.account))
         /\ Viewed(w)
  <1>0. /\ \A j \in 1..Len(Plan(c)) : Plan(c)[j] # View => Holds(w, Plan(c)[j])
        /\ (\E j \in 1..Len(Plan(c)) : Plan(c)[j] = View) => Viewed(w)
    BY PlanDone
  <1>1. Plan(c) = ExpensePlan(c)
    BY DEF Plan
  <1>2. CASE ReadsScopeFirst(c)
    <2>1. Plan(c) = <<ExpenseRow(c.expense), View, ConcessionRow, AccountRow(c.account)>>
      BY <1>1, <1>2 DEF ExpensePlan
    <2> QED BY <2>1, <1>0, RowsDiffer
  <1>3. CASE ~ReadsScopeFirst(c)
    <2>1. Plan(c) = <<ExpenseRow(c.expense), ConcessionRow, AccountRow(c.account), View>>
      BY <1>1, <1>3 DEF ExpensePlan
    <2> QED BY <2>1, <1>0, RowsDiffer
  <1> QED BY <1>2, <1>3

LEMMA HeldByTransfer ==
  ASSUME TypeOK, PlanFollowed, NEW w \in Worker, Planned(w),
         NEW c, c = work[w].call, c.op = "transfer"
  PROVE  /\ Holds(w, AccountRow(c.account)) /\ Holds(w, AccountRow(c.to))
         /\ Viewed(w)
  <1>0. /\ \A j \in 1..Len(Plan(c)) : Plan(c)[j] # View => Holds(w, Plan(c)[j])
        /\ (\E j \in 1..Len(Plan(c)) : Plan(c)[j] = View) => Viewed(w)
    BY PlanDone
  <1>1. Plan(c) = <<AccountRow(Lower(c.account, c.to)), AccountRow(Higher(c.account, c.to)), View>>
    BY DEF Plan
  <1>2. /\ Holds(w, AccountRow(Lower(c.account, c.to)))
        /\ Holds(w, AccountRow(Higher(c.account, c.to)))
        /\ Viewed(w)
    BY <1>1, <1>0, RowsDiffer
  <1> QED BY <1>2 DEF Lower, Higher

LEMMA HeldByReversal ==
  ASSUME TypeOK, PlanFollowed, NEW w \in Worker, Planned(w),
         NEW c, c = work[w].call, c.op = "reverse", ~IsLeg(c.movement)
  PROVE  /\ Holds(w, AccountRow(ledger[c.movement].account))
         /\ ledger[c.movement].direction = "IN" => Viewed(w)
  <1>0. /\ \A j \in 1..Len(Plan(c)) : Plan(c)[j] # View => Holds(w, Plan(c)[j])
        /\ (\E j \in 1..Len(Plan(c)) : Plan(c)[j] = View) => Viewed(w)
    BY PlanDone
  <1>1. CASE ledger[c.movement].direction = "IN"
    <2>1. Plan(c) = <<AccountRow(ledger[c.movement].account), View>>
      BY <1>1 DEF Plan
    <2> QED BY <2>1, <1>0, RowsDiffer
  <1>2. CASE ledger[c.movement].direction # "IN"
    <2>1. Plan(c) = <<AccountRow(ledger[c.movement].account)>>
      BY <1>2 DEF Plan
    <2> QED BY <1>2, <2>1, <1>0, RowsDiffer
  <1> QED BY <1>1, <1>2

LEMMA HeldByTransferReversal ==
  ASSUME TypeOK, PlanFollowed, NEW w \in Worker, Planned(w),
         NEW c, c = work[w].call, c.op = "reverse", IsLeg(c.movement)
  PROVE  /\ Holds(w, AccountRow(ledger[Debit(c.movement[2])].account))
         /\ Holds(w, AccountRow(ledger[Credit(c.movement[2])].account))
         /\ Viewed(w)
  <1> DEFINE from == ledger[Debit(c.movement[2])].account
             to   == ledger[Credit(c.movement[2])].account
  <1>0. /\ \A j \in 1..Len(Plan(c)) : Plan(c)[j] # View => Holds(w, Plan(c)[j])
        /\ (\E j \in 1..Len(Plan(c)) : Plan(c)[j] = View) => Viewed(w)
    BY PlanDone
  <1>1. Plan(c) = ReverseTransferPlan(ledger[c.movement].account, from, to)
    BY DEF Plan
  <1> HIDE DEF from, to
  <1>2. /\ Holds(w, AccountRow(Lower(from, to)))
        /\ Holds(w, AccountRow(Higher(from, to)))
        /\ Viewed(w)
    BY <1>1, <1>0, RowsDiffer DEF ReverseTransferPlan
  <1>3. Holds(w, AccountRow(from)) /\ Holds(w, AccountRow(to))
    BY <1>2 DEF Lower, Higher
  <1> QED BY <1>2, <1>3 DEF from, to

LEMMA HeldByStatus ==
  ASSUME TypeOK, PlanFollowed, NEW w \in Worker, Planned(w),
         NEW c, c = work[w].call, c.op = "status"
  PROVE  Holds(w, AccountRow(c.account))
  <1>0. /\ \A j \in 1..Len(Plan(c)) : Plan(c)[j] # View => Holds(w, Plan(c)[j])
        /\ (\E j \in 1..Len(Plan(c)) : Plan(c)[j] = View) => Viewed(w)
    BY PlanDone
  <1>1. Plan(c) = <<AccountRow(c.account)>>
    BY DEF Plan
  <1> QED BY <1>1, <1>0, RowsDiffer

LEMMA HeldByReservationOp ==
  ASSUME TypeOK, PlanFollowed, NEW w \in Worker, Planned(w),
         NEW c, c = work[w].call, c.op \in ReservationOps
  PROVE  /\ Holds(w, AccountRow(reservation[c.reservation].account))
         /\ c.op \in {"approve", "adjust"} => Viewed(w)
  <1>0. /\ \A j \in 1..Len(Plan(c)) : Plan(c)[j] # View => Holds(w, Plan(c)[j])
        /\ (\E j \in 1..Len(Plan(c)) : Plan(c)[j] = View) => Viewed(w)
    BY PlanDone
  <1>1. CASE c.op \in {"approve", "adjust"}
    <2>1. Plan(c) = <<ReservationRow(c.reservation),
                      AccountRow(reservation[c.reservation].account), View>>
      BY <1>1 DEF Plan
    <2> QED BY <2>1, <1>0, RowsDiffer
  <1>2. CASE c.op \notin {"approve", "adjust"}
    <2>1. Plan(c) = <<ReservationRow(c.reservation),
                      AccountRow(reservation[c.reservation].account)>>
      BY <1>2 DEF Plan, ReservationOps
    <2> QED BY <1>2, <2>1, <1>0, RowsDiffer
  <1> QED BY <1>1, <1>2

-----------------------------------------------------------------------------
(* The inductive invariant.                                                *)
IInv == /\ TypeOK
        /\ PlanFollowed
        /\ LedgerShape
        /\ ReservationShape
        /\ FreshView
        /\ FreshPaid

(* The rows and columns that plans are made of stay.                       *)
Extends ==
    /\ \A id \in DOMAIN ledger : id \in DOMAIN ledger' /\ ledger'[id] = ledger[id]
    /\ \A r \in DOMAIN reservation :
          /\ r \in DOMAIN reservation'
          /\ reservation'[r].account = reservation[r].account

(* What a step of another worker may do to x: it adds rows, but changes no *)
(* sum of an account x holds, nor raises what is paid of an expense x      *)
(* holds.                                                                  *)
Untouched(x) ==
    /\ work'[x] = work[x]
    /\ \A row \in Row : Holds(x, row) => lock'[row] = x
    /\ Extends
    /\ \A a \in Account : Holds(x, AccountRow(a)) =>
          balance'[a] = balance[a] /\ reserved'[a] = reserved[a]
    /\ \A e \in Expense : Holds(x, ExpenseRow(e)) => paid'[e] <= paid[e]

(* What a transaction that ends may do.                                    *)
Frame(w) ==
    /\ End(w)
    /\ Extends
    /\ \A a \in Account : ~Holds(w, AccountRow(a)) =>
          balance'[a] = balance[a] /\ reserved'[a] = reserved[a]
    /\ \A e \in Expense : ~Holds(w, ExpenseRow(e)) => paid'[e] <= paid[e]

(* A call whose rows exist.                                                *)
Grounded(c) ==
    /\ c.op = "reverse" => Posted(c.movement)
    /\ c.op \in ReservationOps => c.reservation \in DOMAIN reservation

LEMMA GroundedStable ==
  ASSUME NEW c \in Call, Extends, Grounded(c)
  PROVE  Grounded(c)'
  BY DEF Extends, Grounded, Posted

LEMMA LegsPosted ==
  ASSUME LedgerShape, NEW id, Posted(id), IsLeg(id)
  PROVE  Posted(Debit(id[2])) /\ Posted(Credit(id[2]))
  BY DEF LedgerShape, Posted

LEMMA PlanStable ==
  ASSUME NEW c \in Call, LedgerShape, Extends, Grounded(c)
  PROVE  Plan(c)' = Plan(c)
  <1>1. CASE c.op = "reverse" /\ IsLeg(c.movement)
    <2>1. /\ ledger'[c.movement] = ledger[c.movement]
          /\ ledger'[Debit(c.movement[2])] = ledger[Debit(c.movement[2])]
          /\ ledger'[Credit(c.movement[2])] = ledger[Credit(c.movement[2])]
      BY <1>1, LegsPosted DEF Extends, Grounded, Posted
    <2> QED BY <1>1, <2>1 DEF Plan
  <1>2. CASE c.op = "reverse" /\ ~IsLeg(c.movement)
    <2>1. ledger'[c.movement] = ledger[c.movement]
      BY <1>2 DEF Extends, Grounded, Posted
    <2> QED BY <1>2, <2>1 DEF Plan
  <1>3. CASE c.op \in ReservationOps
    <2>1. reservation'[c.reservation].account = reservation[c.reservation].account
      BY <1>3 DEF Extends, Grounded
    <2> QED BY <1>3, <2>1 DEF Plan, ReservationOps
  <1>4. CASE c.op \notin ReservationOps /\ c.op # "reverse"
    <2>1. c.op \in Op
      BY TreasuryAssumption DEF WellFormed
    <2> QED BY <1>4, <2>1 DEF Plan, Op, ReservationOps
  <1> QED BY <1>1, <1>2, <1>3, <1>4

(* Every statement of a plan names a row.                                  *)
LEMMA RowsOfAccounts ==
  /\ \A a \in Account : AccountRow(a) \in Row
  /\ \A e \in Expense : ExpenseRow(e) \in Row
  /\ \A r \in Reservation : ReservationRow(r) \in Row
  /\ ConcessionRow \in Row
  BY DEF Row

LEMMA PlanRows ==
  ASSUME NEW c \in Call, TypeOK, LedgerShape, Grounded(c)
  PROVE  \A j \in 1..Len(Plan(c)) : Plan(c)[j] # View => Plan(c)[j] \in Row
  <1>0. WellFormed(c)
    BY TreasuryAssumption
  <1>1. CASE c.op = "manual"
    <2>1. Plan(c) \in {<<AccountRow(c.account)>>, <<AccountRow(c.account), View>>}
      BY <1>1 DEF Plan
    <2>2. AccountRow(c.account) \in Row
      BY <1>0, <1>1, RowsOfAccounts DEF WellFormed
    <2> QED BY <2>1, <2>2
  <1>2. CASE c.op \in {"collect", "refund"}
    <2>1. Plan(c) \in {<<InvoiceRow(c.payment), ConcessionRow, AccountRow(c.account)>>,
                       <<InvoiceRow(c.payment), View, AccountRow(c.account)>>}
      BY <1>2 DEF Plan
    <2>2. AccountRow(c.account) \in Row /\ ConcessionRow \in Row
      BY <1>0, <1>2, RowsOfAccounts DEF WellFormed
    <2>3. InvoiceRow(c.payment) \in Row
      BY <1>2 DEF Row, Payment
    <2> QED BY <2>1, <2>2, <2>3
  <1>3. CASE c.op \in {"disburse", "reserve"}
    <2>1. Plan(c) \in {<<ExpenseRow(c.expense), View, ConcessionRow, AccountRow(c.account)>>,
                       <<ExpenseRow(c.expense), ConcessionRow, AccountRow(c.account), View>>}
      BY <1>3 DEF Plan, ExpensePlan
    <2>2. AccountRow(c.account) \in Row /\ ConcessionRow \in Row /\ ExpenseRow(c.expense) \in Row
      BY <1>0, <1>3, RowsOfAccounts DEF WellFormed
    <2> QED BY <2>1, <2>2
  <1>4. CASE c.op = "transfer"
    <2>1. Plan(c) = <<AccountRow(Lower(c.account, c.to)), AccountRow(Higher(c.account, c.to)), View>>
      BY <1>4 DEF Plan
    <2>2. AccountRow(Lower(c.account, c.to)) \in Row /\ AccountRow(Higher(c.account, c.to)) \in Row
      BY <1>0, <1>4, RowsOfAccounts DEF WellFormed, Lower, Higher
    <2> QED BY <2>1, <2>2
  <1>5. CASE c.op = "reverse" /\ IsLeg(c.movement)
    <2> DEFINE from == ledger[Debit(c.movement[2])].account
               to   == ledger[Credit(c.movement[2])].account
               clicked == ledger[c.movement].account
    <2>1. Plan(c) = <<AccountRow(clicked), View, AccountRow(Lower(from, to)), AccountRow(Higher(from, to))>>
      BY <1>5 DEF Plan, ReverseTransferPlan
    <2>2. from \in Account /\ to \in Account /\ clicked \in Account
      BY <1>5, LegsPosted DEF TypeOK, MovementRecord, Grounded, Posted
    <2> HIDE DEF from, to, clicked
    <2>3. /\ AccountRow(clicked) \in Row
          /\ AccountRow(Lower(from, to)) \in Row
          /\ AccountRow(Higher(from, to)) \in Row
      BY <2>2, RowsOfAccounts DEF Lower, Higher
    <2> QED BY <2>1, <2>3
  <1>6. CASE c.op = "reverse" /\ ~IsLeg(c.movement)
    <2>1. Plan(c) \in {<<AccountRow(ledger[c.movement].account), View>>,
                       <<AccountRow(ledger[c.movement].account)>>}
      BY <1>6 DEF Plan
    <2>2. AccountRow(ledger[c.movement].account) \in Row
      BY <1>6, RowsOfAccounts DEF TypeOK, MovementRecord, Grounded, Posted
    <2> QED BY <2>1, <2>2
  <1>7. CASE c.op = "status"
    <2>1. Plan(c) = <<AccountRow(c.account)>>
      BY <1>7 DEF Plan
    <2>2. AccountRow(c.account) \in Row
      BY <1>0, <1>7, RowsOfAccounts DEF WellFormed
    <2> QED BY <2>1, <2>2
  <1>8. CASE c.op = "cancel expense"
    <2>1. Plan(c) = <<ExpenseRow(c.expense), View>>
      BY <1>8 DEF Plan
    <2>2. ExpenseRow(c.expense) \in Row
      BY <1>0, <1>8, RowsOfAccounts DEF WellFormed
    <2> QED BY <2>1, <2>2
  <1>9. CASE c.op \in ReservationOps
    <2> DEFINE row == ReservationRow(c.reservation)
               acc == AccountRow(reservation[c.reservation].account)
    <2>1. Plan(c) \in {<<row, acc, View>>, <<row, acc>>}
      BY <1>9 DEF Plan, ReservationOps
    <2>2. c.reservation \in Reservation /\ reservation[c.reservation].account \in Account
      BY <1>9 DEF TypeOK, Grounded, ReservationRecord
    <2>3. row \in Row /\ acc \in Row
      BY <2>2, RowsOfAccounts
    <2> HIDE DEF row, acc
    <2> QED BY <2>1, <2>3
  <1> QED BY <1>0, <1>1, <1>2, <1>3, <1>4, <1>5, <1>6, <1>7, <1>8, <1>9 DEF WellFormed, Op

LEMMA UntouchedFollowsPlan ==
  ASSUME IInv, NEW x \in Worker, Untouched(x)
  PROVE  FollowsPlan(x)'
  <1> USE DEF IInv
  <1> SUFFICES ASSUME Busy(x)'
               PROVE  /\ work'[x].step >= 1
                      /\ Grounded(work[x].call)'
                      /\ \A j \in 1..Len(Plan(work[x].call)') :
                            j < work'[x].step /\ Plan(work[x].call)'[j] # View
                               => Holds(x, Plan(work[x].call)[j])'
                      /\ Viewed(x)' <=> \E j \in 1..Len(Plan(work[x].call)') :
                            j < work'[x].step /\ Plan(work[x].call)'[j] = View
    BY DEF FollowsPlan, Grounded
  <1>1. /\ work'[x] = work[x]
        /\ \A row \in Row : Holds(x, row) => lock'[row] = x
        /\ Extends
    BY DEF Untouched
  <1>2. Busy(x) /\ work[x].call \in Call
    BY <1>1, CallOfWorker DEF Busy
  <1>3. FollowsPlan(x)
    BY DEF PlanFollowed
  <1>4. PICK c \in Call : c = work[x].call
    BY <1>2
  <1>5. Grounded(c)
    BY <1>2, <1>3, <1>4 DEF FollowsPlan, Grounded
  <1>6. Plan(c)' = Plan(c) /\ Grounded(c)'
    BY <1>1, <1>5, PlanStable, GroundedStable
  <1>7. Plan(work[x].call)' = Plan(c)
    BY <1>1, <1>4, <1>6
  <1>8. \A j \in 1..Len(Plan(c)) :
           j < work[x].step /\ Plan(c)[j] # View => Holds(x, Plan(c)[j])'
    <2> SUFFICES ASSUME NEW j \in 1..Len(Plan(c)), j < work[x].step, Plan(c)[j] # View
                 PROVE  Holds(x, Plan(c)[j])'
      OBVIOUS
    <2>1. Holds(x, Plan(c)[j])
      BY <1>2, <1>3, <1>4 DEF FollowsPlan
    <2>2. Plan(c)[j] \in Row
      BY <1>5, PlanRows
    <2> QED BY <2>1, <2>2, <1>1, <1>6 DEF Holds
  <1>9. Viewed(x) <=> \E j \in 1..Len(Plan(c)) : j < work[x].step /\ Plan(c)[j] = View
    BY <1>2, <1>3, <1>4 DEF FollowsPlan
  <1>10. work[x].step >= 1
    BY <1>2, <1>3, <1>4 DEF FollowsPlan
  <1>11. Viewed(x)' <=> Viewed(x)
    BY <1>1 DEF Viewed
  <1> QED BY <1>1, <1>4, <1>6, <1>7, <1>8, <1>9, <1>10, <1>11

(* The account a call decides on does not change under it.                 *)
LEMMA DebitedStable ==
  ASSUME NEW c \in Call, LedgerShape, Extends, Grounded(c)
  PROVE  Debited(c)' = Debited(c)
  <1>1. CASE c.op = "reverse"
    <2>1. ledger'[c.movement] = ledger[c.movement]
      BY <1>1 DEF Extends, Grounded, Posted
    <2>2. IsLeg(c.movement) => ledger'[Credit(c.movement[2])] = ledger[Credit(c.movement[2])]
      BY <1>1, LegsPosted DEF Extends, Grounded, Posted
    <2> QED BY <1>1, <2>1, <2>2 DEF Debited
  <1>2. CASE c.op # "reverse"
    BY <1>2 DEF Debited
  <1> QED BY <1>1, <1>2

LEMMA FocusStable ==
  ASSUME NEW c \in Call, LedgerShape, Extends, Grounded(c)
  PROVE  Focus(c)' = Focus(c)
  <1>1. Debited(c)' = Debited(c)
    BY DebitedStable
  <1>2. c.op \in {"approve", "adjust"} =>
           reservation'[c.reservation].account = reservation[c.reservation].account
    BY DEF Extends, Grounded, ReservationOps
  <1> QED BY <1>1, <1>2 DEF Focus

LEMMA DebitedType ==
  ASSUME NEW c \in Call, TypeOK, LedgerShape, Grounded(c)
  PROVE  Debited(c) \in Account \cup {None}
  <1>0. WellFormed(c)
    BY TreasuryAssumption
  <1>1. CASE c.op = "reverse"
    <2>1. ledger[c.movement].account \in Account
      BY <1>1 DEF TypeOK, Grounded, Posted, MovementRecord
    <2>2. IsLeg(c.movement) => ledger[Credit(c.movement[2])].account \in Account
      BY <1>1, LegsPosted DEF TypeOK, Grounded, Posted, MovementRecord
    <2> QED BY <1>1, <2>1, <2>2 DEF Debited
  <1>2. CASE c.op # "reverse"
    BY <1>0, <1>2 DEF Debited, WellFormed
  <1> QED BY <1>1, <1>2

LEMMA FocusType ==
  ASSUME NEW c \in Call, TypeOK, LedgerShape, Grounded(c)
  PROVE  Focus(c) \in Account \cup {None}
  <1>1. Debited(c) \in Account \cup {None}
    BY DebitedType
  <1>2. c.op = "reserve" => c.account \in Account
    BY TreasuryAssumption DEF WellFormed
  <1>3. c.op \in {"approve", "adjust"} => reservation[c.reservation].account \in Account
    BY DEF TypeOK, Grounded, ReservationOps, ReservationRecord
  <1> QED BY <1>1, <1>2, <1>3 DEF Focus

LEMMA UntouchedSeesFresh ==
  ASSUME IInv, NEW x \in Worker, Untouched(x)
  PROVE  SeesFresh(x)'
  <1> USE DEF IInv
  <1> SUFFICES ASSUME Busy(x)', Viewed(x)', ~StaleReader(work'[x].call),
                      NEW f, f = Focus(work[x].call)', f # None
               PROVE  /\ lock'[AccountRow(f)] = x
                      /\ work'[x].view.balance[f] = balance'[f]
                      /\ work'[x].view.reserved[f] = reserved'[f]
    BY DEF SeesFresh, Holds
  <1>1. /\ work'[x] = work[x]
        /\ \A row \in Row : Holds(x, row) => lock'[row] = x
        /\ Extends
    BY DEF Untouched
  <1>2. Busy(x) /\ Viewed(x) /\ work[x].call \in Call
    BY <1>1, CallOfWorker DEF Busy, Viewed
  <1>3. PICK c \in Call : c = work[x].call
    BY <1>2
  <1>4. Grounded(c)
    BY <1>2, <1>3 DEF PlanFollowed, FollowsPlan, Grounded
  <1>5. Focus(c)' = Focus(c) /\ Focus(c) \in Account \cup {None}
    BY <1>1, <1>4, FocusStable, FocusType
  <1>6. f = Focus(c) /\ f \in Account
    BY <1>1, <1>3, <1>5
  <1>7. /\ Holds(x, AccountRow(f))
        /\ work[x].view.balance[f] = balance[f]
        /\ work[x].view.reserved[f] = reserved[f]
    BY <1>1, <1>2, <1>3, <1>6 DEF FreshView, SeesFresh
  <1>8. lock'[AccountRow(f)] = x
    BY <1>1, <1>6, <1>7, RowsOfAccounts
  <1>9. balance'[f] = balance[f] /\ reserved'[f] = reserved[f]
    BY <1>6, <1>7 DEF Untouched
  <1> QED BY <1>1, <1>7, <1>8, <1>9

LEMMA UntouchedSeesPaid ==
  ASSUME IInv, TypeOK', NEW x \in Worker, Untouched(x)
  PROVE  SeesPaid(x)'
  <1> USE DEF IInv
  <1> SUFFICES ASSUME Busy(x)', Viewed(x)', work'[x].call.op = "disburse"
               PROVE  /\ lock'[ExpenseRow(work'[x].call.expense)] = x
                      /\ paid'[work'[x].call.expense] <=
                            work'[x].view.paid[work'[x].call.expense]
    BY DEF SeesPaid, Holds
  <1>1. /\ work'[x] = work[x]
        /\ \A row \in Row : Holds(x, row) => lock'[row] = x
    BY DEF Untouched
  <1>2. Busy(x) /\ Viewed(x)
    BY <1>1 DEF Busy, Viewed
  <1>3. work[x].call.expense \in Expense
    BY <1>1, <1>2, CallOfWorker DEF WellFormed
  <1>4. PICK e \in Expense : e = work[x].call.expense
    BY <1>3
  <1>5. Holds(x, ExpenseRow(e)) /\ paid[e] <= work[x].view.paid[e]
    BY <1>1, <1>2, <1>4 DEF FreshPaid, SeesPaid
  <1>6. lock'[ExpenseRow(e)] = x
    BY <1>1, <1>5, RowsOfAccounts
  <1>7. paid'[e] <= paid[e]
    BY <1>5 DEF Untouched
  <1>8. paid'[e] \in Int /\ paid[e] \in Int /\ work[x].view.paid[e] \in Int
    BY CallOfWorker, <1>2 DEF TypeOK, ViewRecord
  <1> QED BY <1>1, <1>4, <1>5, <1>6, <1>7, <1>8

LEMMA FrameInv ==
  ASSUME IInv, TypeOK', NEW w \in Worker, Frame(w)
  PROVE  PlanFollowed' /\ FreshView' /\ FreshPaid'
  <1> SUFFICES ASSUME NEW x \in Worker
               PROVE  FollowsPlan(x)' /\ SeesFresh(x)' /\ SeesPaid(x)'
    BY DEF PlanFollowed, FreshView, FreshPaid
  <1>1. CASE x = w
    <2>1. ~Busy(x)'
      BY <1>1 DEF IInv, TypeOK, Frame, End, Busy, Idle
    <2> QED BY <2>1 DEF FollowsPlan, SeesFresh, SeesPaid
  <1>2. CASE x # w
    <2>1. Untouched(x)
      BY <1>2 DEF IInv, TypeOK, Untouched, Frame, End, Holds
    <2> QED BY <2>1, UntouchedFollowsPlan, UntouchedSeesFresh, UntouchedSeesPaid
  <1> QED BY <1>1, <1>2

-----------------------------------------------------------------------------
(* The steps that change no table.                                         *)

LEMMA SameTables ==
  ASSUME IInv, UNCHANGED tables
  PROVE  Extends /\ LedgerShape' /\ ReservationShape'
  BY DEF IInv, tables, Extends, LedgerShape, ReservationShape, Posted

LEMMA BystandersUntouched ==
  ASSUME IInv, UNCHANGED tables, NEW w \in Worker, NEW x \in Worker, x # w,
         NEW step, work' = [work EXCEPT ![w] = step],
         \A row \in Row : lock[row] = x => lock'[row] = x
  PROVE  Untouched(x)
  BY SameTables DEF IInv, TypeOK, tables, Untouched, Holds

LEMMA BeginInv ==
  ASSUME IInv, NEW w \in Worker, NEW c \in Call, Begin(w, c)
  PROVE  IInv'
  <1>1. TypeOK'
    BY BeginTypeOK DEF IInv
  <1>2. UNCHANGED tables /\ UNCHANGED lock
    BY DEF Begin
  <1>3. Extends /\ LedgerShape' /\ ReservationShape'
    BY <1>2, SameTables
  <1> SUFFICES ASSUME NEW x \in Worker
               PROVE  FollowsPlan(x)' /\ SeesFresh(x)' /\ SeesPaid(x)'
    BY <1>1, <1>3 DEF IInv, PlanFollowed, FreshView, FreshPaid
  <1>4. CASE x = w
    <2>1. /\ work'[x].call = c
          /\ work'[x].step = 1
          /\ work'[x].viewed = FALSE
      BY <1>4 DEF Begin, IInv, TypeOK, Idle
    <2>2. ~Viewed(x)'
      BY <2>1 DEF Viewed
    <2>3. Grounded(c)'
      BY <1>3, GroundedStable DEF Begin, Found, Grounded
    <2>4. FollowsPlan(x)'
      BY <2>1, <2>2, <2>3 DEF FollowsPlan, Grounded
    <2> QED BY <2>2, <2>4 DEF SeesFresh, SeesPaid
  <1>5. CASE x # w
    <2>1. Untouched(x)
      BY <1>2, <1>5, BystandersUntouched DEF Begin
    <2> QED BY <1>1, <2>1, UntouchedFollowsPlan, UntouchedSeesFresh, UntouchedSeesPaid
  <1> QED BY <1>4, <1>5
(* A lock more leaves everything a worker already holds or has seen.       *)
LEMMA LockKeepsView ==
  ASSUME IInv, NEW w \in Worker, LockRow(w), Busy(w)
  PROVE  SeesFresh(w)' /\ SeesPaid(w)'
  <1>1. PICK r \in Wants(w) : lock[r] \in {None, w} /\ lock' = [lock EXCEPT ![r] = w]
    BY DEF LockRow
  <1>2. /\ work'[w].call = work[w].call
        /\ work'[w].viewed = work[w].viewed
        /\ work'[w].view = work[w].view
    BY DEF LockRow, IInv, TypeOK, WorkRecord
  <1>3. PICK c \in Call : c = work[w].call
    BY CallOfWorker DEF IInv
  <1>4. UNCHANGED tables /\ Extends
    BY SameTables DEF LockRow
  <1>5. Grounded(c)
    BY <1>3 DEF IInv, PlanFollowed, FollowsPlan, Grounded
  <1>6. Focus(c)' = Focus(c) /\ Focus(c) \in Account \cup {None}
    BY <1>4, <1>5, FocusStable, FocusType DEF IInv
  <1>7. \A row \in Row : Holds(w, row) => lock'[row] = w
    BY <1>1 DEF IInv, TypeOK, Holds
  <1>8. SeesFresh(w)'
    <2> SUFFICES ASSUME Viewed(w)', ~StaleReader(c), Focus(c) # None
                 PROVE  /\ lock'[AccountRow(Focus(c))] = w
                        /\ work'[w].view.balance[Focus(c)] = balance'[Focus(c)]
                        /\ work'[w].view.reserved[Focus(c)] = reserved'[Focus(c)]
      BY <1>2, <1>3, <1>6 DEF SeesFresh, Holds
    <2>1. Viewed(w) /\ Focus(c) \in Account
      BY <1>2, <1>6 DEF Viewed
    <2>2. /\ Holds(w, AccountRow(Focus(c)))
          /\ work[w].view.balance[Focus(c)] = balance[Focus(c)]
          /\ work[w].view.reserved[Focus(c)] = reserved[Focus(c)]
      BY <1>3, <2>1 DEF IInv, FreshView, SeesFresh
    <2> QED BY <1>2, <1>4, <1>7, <2>1, <2>2, RowsOfAccounts DEF tables
  <1>9. SeesPaid(w)'
    <2> SUFFICES ASSUME Viewed(w)', c.op = "disburse"
                 PROVE  /\ lock'[ExpenseRow(c.expense)] = w
                        /\ paid'[c.expense] <= work'[w].view.paid[c.expense]
      BY <1>2, <1>3 DEF SeesPaid, Holds
    <2>1. Viewed(w) /\ c.expense \in Expense
      BY <1>2, TreasuryAssumption DEF Viewed, WellFormed
    <2>2. Holds(w, ExpenseRow(c.expense)) /\ paid[c.expense] <= work[w].view.paid[c.expense]
      BY <1>3, <2>1 DEF IInv, FreshPaid, SeesPaid
    <2> QED BY <1>2, <1>4, <1>7, <2>1, <2>2, RowsOfAccounts DEF tables
  <1> QED BY <1>8, <1>9

LEMMA LockFollowsPlan ==
  ASSUME IInv, NEW w \in Worker, LockRow(w), Busy(w)
  PROVE  FollowsPlan(w)'
  <1>1. PICK r \in Wants(w) : lock[r] \in {None, w} /\ lock' = [lock EXCEPT ![r] = w]
    BY DEF LockRow
  <1>2. /\ work'[w].call = work[w].call
        /\ work'[w].viewed = work[w].viewed
        /\ work'[w].step = IF InPlan(w) THEN work[w].step + 1 ELSE work[w].step
    BY DEF LockRow, IInv, TypeOK, WorkRecord
  <1>3. PICK c \in Call : c = work[w].call
    BY CallOfWorker DEF IInv
  <1>4. Extends
    BY SameTables DEF LockRow
  <1>5. Grounded(c)
    BY <1>3 DEF IInv, PlanFollowed, FollowsPlan, Grounded
  <1>6. Plan(c)' = Plan(c) /\ Grounded(c)'
    BY <1>4, <1>5, PlanStable, GroundedStable DEF IInv
  <1>7. work[w].step \in Nat /\ work[w].step >= 1
    BY <1>3, CallOfWorker DEF IInv, PlanFollowed, FollowsPlan
  <1>8. InPlan(w) => Plan(c)[work[w].step] = r /\ r # View
    BY <1>1, <1>3 DEF Wants, Current
  <1>9. \A j \in 1..Len(Plan(c)) : j < work[w].step /\ Plan(c)[j] # View => Holds(w, Plan(c)[j])
    BY <1>3 DEF IInv, PlanFollowed, FollowsPlan
  <1>10. Viewed(w) <=> \E j \in 1..Len(Plan(c)) : j < work[w].step /\ Plan(c)[j] = View
    BY <1>3 DEF IInv, PlanFollowed, FollowsPlan
  <1>11. \A j \in 1..Len(Plan(c)) : Plan(c)[j] # View => Plan(c)[j] \in Row
    BY <1>5, PlanRows DEF IInv
  <1>12. \A j \in 1..Len(Plan(c)) :
            j < work'[w].step /\ Plan(c)[j] # View => lock'[Plan(c)[j]] = w
    <2> SUFFICES ASSUME NEW j \in 1..Len(Plan(c)), j < work'[w].step, Plan(c)[j] # View
                 PROVE  lock'[Plan(c)[j]] = w
      OBVIOUS
    <2>1. Plan(c)[j] \in Row
      BY <1>11
    <2>2. CASE j < work[w].step
      BY <1>1, <1>9, <2>1, <2>2 DEF Holds, IInv, TypeOK
    <2>3. CASE ~(j < work[w].step)
      <3>1. InPlan(w) /\ j = work[w].step
        BY <1>2, <1>7, <2>3
      <3> QED BY <1>1, <1>8, <2>1, <3>1 DEF IInv, TypeOK
    <2> QED BY <2>2, <2>3
  <1>13. Viewed(w)' <=> \E j \in 1..Len(Plan(c)) : j < work'[w].step /\ Plan(c)[j] = View
    <2>1. Viewed(w)' <=> Viewed(w)
      BY <1>2 DEF Viewed
    <2>2. \A j \in 1..Len(Plan(c)) :
             j < work'[w].step /\ Plan(c)[j] = View => j < work[w].step
      BY <1>2, <1>7, <1>8
    <2>3. \A j \in 1..Len(Plan(c)) : j < work[w].step => j < work'[w].step
      BY <1>2, <1>7
    <2> QED BY <1>10, <2>1, <2>2, <2>3
  <1>14. work'[w].step >= 1
    BY <1>2, <1>7
  <1> QED BY <1>2, <1>3, <1>6, <1>12, <1>13, <1>14 DEF FollowsPlan, Grounded, Holds

LEMMA LockRowInv ==
  ASSUME IInv, NEW w \in Worker, LockRow(w)
  PROVE  IInv'
  <1>1. TypeOK'
    BY LockRowTypeOK DEF IInv
  <1>2. UNCHANGED tables /\ Busy(w)
    BY DEF LockRow, Proceeds
  <1>3. LedgerShape' /\ ReservationShape'
    BY <1>2, SameTables
  <1> SUFFICES ASSUME NEW x \in Worker
               PROVE  FollowsPlan(x)' /\ SeesFresh(x)' /\ SeesPaid(x)'
    BY <1>1, <1>3 DEF IInv, PlanFollowed, FreshView, FreshPaid
  <1>4. CASE x = w
    BY <1>2, <1>4, LockKeepsView, LockFollowsPlan
  <1>5. CASE x # w
    <2>1. \A row \in Row : lock[row] = x => lock'[row] = x
      BY <1>5, TreasuryAssumption DEF LockRow, IInv, TypeOK
    <2>2. work' = [work EXCEPT ![w] = IF InPlan(w) THEN [work[w] EXCEPT !.step = @ + 1] ELSE work[w]]
      BY DEF LockRow, IInv, TypeOK
    <2>3. Untouched(x)
      BY <1>2, <1>5, <2>1, <2>2, BystandersUntouched
    <2> QED BY <1>1, <2>3, UntouchedFollowsPlan, UntouchedSeesFresh, UntouchedSeesPaid
  <1> QED BY <1>4, <1>5

(* The discipline that keeps a snapshot fresh: the account a call decides  *)
(* on is locked by a statement before the first plain SELECT.              *)
LEMMA LockThenRead ==
  ASSUME NEW c \in Call, LedgerShape, Grounded(c), ~StaleReader(c), Focus(c) # None
  PROVE  \A j \in 1..Len(Plan(c)) : Plan(c)[j] = View =>
            \E i \in 1..Len(Plan(c)) : i < j /\ Plan(c)[i] = AccountRow(Focus(c))
  <1>0. WellFormed(c)
    BY TreasuryAssumption
  <1>1. CASE c.op = "manual"
    <2>1. c.direction = "OUT" /\ Focus(c) = c.account
      BY <1>1 DEF Focus, Debited
    <2>2. Plan(c) = <<AccountRow(c.account), View>>
      BY <1>1, <2>1 DEF Plan
    <2> QED BY <2>1, <2>2, RowsDiffer
  <1>2. CASE c.op \in {"disburse", "reserve"}
    <2>1. Focus(c) = c.account
      BY <1>2 DEF Focus, Debited
    <2>2. Plan(c) = <<ExpenseRow(c.expense), ConcessionRow, AccountRow(c.account), View>>
      BY <1>2 DEF Plan, ExpensePlan, StaleReader
    <2> QED BY <2>1, <2>2, RowsDiffer
  <1>3. CASE c.op = "transfer"
    <2>1. Focus(c) = c.account
      BY <1>3 DEF Focus, Debited
    <2>2. Plan(c) = <<AccountRow(Lower(c.account, c.to)), AccountRow(Higher(c.account, c.to)), View>>
      BY <1>3 DEF Plan
    <2>3. c.account = Lower(c.account, c.to) \/ c.account = Higher(c.account, c.to)
      BY DEF Lower, Higher
    <2> QED BY <2>1, <2>2, <2>3, RowsDiffer
  <1>4. CASE c.op = "reverse" /\ IsLeg(c.movement)
    <2> DEFINE from == ledger[Debit(c.movement[2])].account
               to   == ledger[Credit(c.movement[2])].account
    <2>1. c.movement = Credit(c.movement[2])
      <3>1. c.movement[1] # "debit"
        BY <1>4 DEF StaleReader
      <3>2. Debit(c.movement[2])[1] = "debit"
        BY DEF Debit
      <3>3. c.movement \in {Debit(c.movement[2]), Credit(c.movement[2])}
        BY <1>4 DEF LedgerShape, Grounded, Posted
      <3> QED BY <3>1, <3>2, <3>3
    <2>2. Focus(c) = to /\ ledger[c.movement].account = to
      BY <1>4, <2>1 DEF Focus, Debited
    <2>3. Plan(c) = <<AccountRow(to), View, AccountRow(Lower(from, to)), AccountRow(Higher(from, to))>>
      BY <1>4, <2>2 DEF Plan, ReverseTransferPlan
    <2> HIDE DEF from, to
    <2> QED BY <2>2, <2>3, RowsDiffer
  <1>5. CASE c.op = "reverse" /\ ~IsLeg(c.movement)
    <2>1. ledger[c.movement].direction = "IN" /\ Focus(c) = ledger[c.movement].account
      BY <1>5 DEF Focus, Debited
    <2>2. Plan(c) = <<AccountRow(ledger[c.movement].account), View>>
      BY <1>5, <2>1 DEF Plan
    <2> QED BY <2>1, <2>2, RowsDiffer
  <1>6. CASE c.op \in {"approve", "adjust"}
    <2>1. Focus(c) = reservation[c.reservation].account
      BY <1>6 DEF Focus
    <2>2. Plan(c) = <<ReservationRow(c.reservation),
                      AccountRow(reservation[c.reservation].account), View>>
      BY <1>6 DEF Plan
    <2> QED BY <2>1, <2>2, RowsDiffer
  <1>7. c.op # "refund"
    BY DEF StaleReader
  <1>8. CASE c.op \notin {"manual", "disburse", "reserve", "transfer", "reverse", "approve", "adjust"}
    BY <1>7, <1>8 DEF Focus, Debited
  <1> QED BY <1>1, <1>2, <1>3, <1>4, <1>5, <1>6, <1>8

LEMMA ExpenseLockedBeforeRead ==
  ASSUME NEW c \in Call, c.op = "disburse"
  PROVE  \A j \in 1..Len(Plan(c)) : Plan(c)[j] = View =>
            \E i \in 1..Len(Plan(c)) : i < j /\ Plan(c)[i] = ExpenseRow(c.expense)
  <1>1. Plan(c) \in {<<ExpenseRow(c.expense), ConcessionRow, AccountRow(c.account), View>>,
                     <<ExpenseRow(c.expense), View, ConcessionRow, AccountRow(c.account)>>}
    BY DEF Plan, ExpensePlan
  <1> QED BY <1>1, RowsDiffer

LEMMA OpenViewInv ==
  ASSUME IInv, NEW w \in Worker, OpenView(w)
  PROVE  IInv'
  <1>1. TypeOK'
    BY OpenViewTypeOK DEF IInv
  <1>2. UNCHANGED tables /\ UNCHANGED lock /\ Busy(w) /\ InPlan(w)
    BY DEF OpenView, Proceeds
  <1>3. Extends /\ LedgerShape' /\ ReservationShape'
    BY <1>2, SameTables
  <1>4. /\ work'[w].call = work[w].call
        /\ work'[w].step = work[w].step + 1
        /\ work'[w].viewed = TRUE
        /\ work'[w].view = Snapshot
    BY DEF OpenView, IInv, TypeOK
  <1>5. PICK c \in Call : c = work[w].call
    BY <1>2, CallOfWorker DEF IInv
  <1>6. Grounded(c)
    BY <1>2, <1>5 DEF IInv, PlanFollowed, FollowsPlan, Grounded
  <1>7. Plan(c)' = Plan(c) /\ Grounded(c)' /\ Focus(c)' = Focus(c)
    BY <1>3, <1>6, PlanStable, GroundedStable, FocusStable DEF IInv
  <1>8. work[w].step \in Nat /\ work[w].step >= 1
    BY <1>2, CallOfWorker DEF IInv, PlanFollowed, FollowsPlan
  <1>9. work[w].step \in 1..Len(Plan(c)) /\ Plan(c)[work[w].step] = View
    BY <1>2, <1>5, <1>8, PlanLength DEF OpenView, Current, InPlan
  <1>10. \A j \in 1..Len(Plan(c)) : j < work[w].step /\ Plan(c)[j] # View => Holds(w, Plan(c)[j])
    BY <1>2, <1>5 DEF IInv, PlanFollowed, FollowsPlan
  <1>11. FollowsPlan(w)'
    <2>1. \A j \in 1..Len(Plan(c)) : j < work'[w].step /\ Plan(c)[j] # View => lock'[Plan(c)[j]] = w
      <3> SUFFICES ASSUME NEW j \in 1..Len(Plan(c)), j < work'[w].step, Plan(c)[j] # View
                   PROVE  lock'[Plan(c)[j]] = w
        OBVIOUS
      <3>1. j < work[w].step
        BY <1>4, <1>8, <1>9
      <3> QED BY <1>2, <1>10, <3>1 DEF Holds
    <2>2. Viewed(w)' /\ \E j \in 1..Len(Plan(c)) : j < work'[w].step /\ Plan(c)[j] = View
      BY <1>4, <1>8, <1>9 DEF Viewed
    <2>3. work'[w].step >= 1
      BY <1>4, <1>8
    <2> QED BY <1>4, <1>5, <1>7, <2>1, <2>2, <2>3 DEF FollowsPlan, Grounded, Holds
  <1>12. SeesFresh(w)'
    <2> SUFFICES ASSUME ~StaleReader(c), Focus(c) # None
                 PROVE  /\ lock'[AccountRow(Focus(c))] = w
                        /\ Snapshot.balance[Focus(c)] = balance'[Focus(c)]
                        /\ Snapshot.reserved[Focus(c)] = reserved'[Focus(c)]
      BY <1>4, <1>5, <1>7 DEF SeesFresh, Holds
    <2>1. Holds(w, AccountRow(Focus(c)))
      BY <1>6, <1>9, <1>10, LockThenRead, RowsDiffer DEF IInv
    <2> QED BY <1>2, <2>1 DEF Holds, Snapshot, tables
  <1>13. SeesPaid(w)'
    <2> SUFFICES ASSUME c.op = "disburse"
                 PROVE  /\ lock'[ExpenseRow(c.expense)] = w
                        /\ paid'[c.expense] <= Snapshot.paid[c.expense]
      BY <1>4, <1>5 DEF SeesPaid, Holds
    <2>1. Holds(w, ExpenseRow(c.expense))
      BY <1>9, <1>10, ExpenseLockedBeforeRead, RowsDiffer
    <2>2. paid[c.expense] \in Int
      BY TreasuryAssumption DEF WellFormed, IInv, TypeOK
    <2> QED BY <1>2, <2>1, <2>2 DEF Holds, Snapshot, tables
  <1> SUFFICES ASSUME NEW x \in Worker
               PROVE  FollowsPlan(x)' /\ SeesFresh(x)' /\ SeesPaid(x)'
    BY <1>1, <1>3 DEF IInv, PlanFollowed, FreshView, FreshPaid
  <1>14. CASE x = w
    BY <1>11, <1>12, <1>13, <1>14
  <1>15. CASE x # w
    <2>1. Untouched(x)
      BY <1>2, <1>15, BystandersUntouched DEF OpenView
    <2> QED BY <1>1, <2>1, UntouchedFollowsPlan, UntouchedSeesFresh, UntouchedSeesPaid
  <1> QED BY <1>14, <1>15

-----------------------------------------------------------------------------
(* New rows of the ledger.                                                 *)

LEMMA PostExtends ==
  ASSUME NEW id, NEW m, ~Posted(id), Post(id, m)
  PROVE  \A x \in DOMAIN ledger : x \in DOMAIN ledger' /\ ledger'[x] = ledger[x]
  BY DEF Post, Insert, Posted

LEMMA PostTwoExtends ==
  ASSUME NEW i, NEW m, NEW j, NEW n, ~Posted(i), ~Posted(j), PostTwo(i, m, j, n)
  PROVE  \A x \in DOMAIN ledger : x \in DOMAIN ledger' /\ ledger'[x] = ledger[x]
  BY DEF PostTwo, Insert, Posted

LEMMA PostedByPost ==
  ASSUME NEW id, NEW m, Post(id, m)
  PROVE  \A x : Posted(x)' <=> Posted(x) \/ x = id
  BY DEF Post, Insert, Posted

LEMMA PostedByPostTwo ==
  ASSUME NEW i, NEW m, NEW j, NEW n, i # j, PostTwo(i, m, j, n)
  PROVE  /\ \A x : Posted(x)' <=> Posted(x) \/ x = i \/ x = j
         /\ ledger'[i] = m
         /\ ledger'[j] = n
  BY DEF PostTwo, Insert, Posted

(* The ids of the two legs of a transfer and of their reversals.           *)
LEMMA Ids ==
  /\ \A t : /\ IsLeg(Debit(t)) /\ IsLeg(Credit(t)) /\ Debit(t) # Credit(t)
            /\ Debit(t)[2] = t /\ Credit(t)[2] = t
            /\ Debit(t)[1] # "reversal" /\ Credit(t)[1] # "reversal"
  /\ \A s, t : /\ Debit(s) = Debit(t) => s = t
               /\ Credit(s) = Credit(t) => s = t
               /\ Debit(s) # Credit(t)
  /\ \A x : ~IsLeg(Reversal(x)) /\ Reversal(x)[1] = "reversal" /\ Reversal(x)[2] = x
  /\ \A x, y : Reversal(x) = Reversal(y) => x = y
  BY DEF IsLeg, Debit, Credit, Reversal

LegShape(id) ==
    /\ id \in {Debit(id[2]), Credit(id[2])}
    /\ Posted(Debit(id[2])) /\ Posted(Credit(id[2]))
    /\ ledger[Debit(id[2])].direction = "OUT"
    /\ ledger[Credit(id[2])].direction = "IN"
    /\ ledger[Debit(id[2])].amount = ledger[Credit(id[2])].amount
    /\ ledger[Debit(id[2])].account # ledger[Credit(id[2])].account
    /\ Posted(Reversal(Debit(id[2]))) <=> Posted(Reversal(Credit(id[2])))

LEMMA LedgerShapeByLegs ==
  LedgerShape <=>
    \A id \in DOMAIN ledger : /\ IsLeg(id) => LegShape(id)
                              /\ id[1] = "reversal" => Posted(id[2])
  BY DEF LedgerShape, LegShape

LEMMA PostShape ==
  ASSUME LedgerShape, NEW id, NEW m, ~Posted(id), ~IsLeg(id), Post(id, m),
         id[1] = "reversal" => Posted(id[2]) /\ ~IsLeg(id[2])
  PROVE  LedgerShape'
  <1>1. \A x : Posted(x)' <=> Posted(x) \/ x = id
    BY PostedByPost
  <1>2. \A x : Posted(x) => ledger'[x] = ledger[x]
    BY PostExtends DEF Posted
  <1>3. ASSUME NEW x \in DOMAIN ledger', IsLeg(x)
        PROVE  LegShape(x)'
    <2>1. Posted(x) /\ LegShape(x)
      BY <1>1, <1>3, LedgerShapeByLegs DEF Posted
    <2>2. Reversal(Debit(x[2])) # id /\ Reversal(Credit(x[2])) # id
      BY Ids
    <2> QED BY <1>1, <1>2, <2>1, <2>2 DEF LegShape
  <1>4. ASSUME NEW x \in DOMAIN ledger', x[1] = "reversal"
        PROVE  Posted(x[2])'
    BY <1>1, <1>4 DEF LedgerShape, Posted
  <1> QED BY <1>3, <1>4 DEF LedgerShape, LegShape

LEMMA TransferShape ==
  ASSUME LedgerShape, NEW t, NEW a, NEW b, NEW n, a # b, ~Posted(Debit(t)),
         PostTwo(Debit(t), Movement(a, "OUT", n, None), Credit(t), Movement(b, "IN", n, None))
  PROVE  ~Posted(Credit(t)) /\ LedgerShape'
  <1>0. ~Posted(Credit(t))
    BY Ids DEF LedgerShape, Posted
  <1>1. /\ \A x : Posted(x)' <=> Posted(x) \/ x = Debit(t) \/ x = Credit(t)
        /\ ledger'[Debit(t)] = Movement(a, "OUT", n, None)
        /\ ledger'[Credit(t)] = Movement(b, "IN", n, None)
    BY Ids, PostedByPostTwo
  <1>2. \A x : Posted(x) => ledger'[x] = ledger[x]
    BY <1>0, PostTwoExtends DEF Posted
  <1>3. ~Posted(Reversal(Debit(t))) /\ ~Posted(Reversal(Credit(t)))
    BY <1>0, Ids DEF LedgerShape, Posted
  <1>4. ASSUME NEW x \in DOMAIN ledger', IsLeg(x)
        PROVE  LegShape(x)'
    <2>1. CASE Posted(x)
      <3>1. LegShape(x)
        BY <1>4, <2>1, LedgerShapeByLegs DEF Posted
      <3> QED BY <1>1, <1>2, <3>1, Ids DEF LegShape
    <2>2. CASE x = Debit(t) \/ x = Credit(t)
      <3>1. x[2] = t
        BY <2>2, Ids
      <3>2. ~Posted(Reversal(Debit(t)))' /\ ~Posted(Reversal(Credit(t)))'
        BY <1>1, <1>3, Ids
      <3> QED BY <1>1, <2>2, <3>1, <3>2 DEF LegShape, Movement
    <2> QED BY <1>1, <2>1, <2>2 DEF Posted
  <1>5. ASSUME NEW x \in DOMAIN ledger', x[1] = "reversal"
        PROVE  Posted(x[2])'
    BY <1>1, <1>5, Ids DEF LedgerShape, Posted
  <1> QED BY <1>0, <1>4, <1>5 DEF LedgerShape, LegShape

LEMMA TransferReversalShape ==
  ASSUME LedgerShape, NEW t, NEW m, NEW n,
         Posted(Debit(t)), Posted(Credit(t)),
         ~Posted(Reversal(Debit(t))), ~Posted(Reversal(Credit(t))),
         PostTwo(Reversal(Debit(t)), m, Reversal(Credit(t)), n)
  PROVE  LedgerShape'
  <1>0. Reversal(Debit(t)) # Reversal(Credit(t))
    BY Ids
  <1>1. \A x : Posted(x)' <=> \/ Posted(x)
                              \/ x = Reversal(Debit(t)) \/ x = Reversal(Credit(t))
    BY <1>0, PostedByPostTwo
  <1>2. \A x : Posted(x) => ledger'[x] = ledger[x]
    BY PostTwoExtends DEF Posted
  <1>3. ASSUME NEW x \in DOMAIN ledger', IsLeg(x)
        PROVE  LegShape(x)'
    <2>1. Posted(x) /\ LegShape(x)
      BY <1>1, <1>3, Ids, LedgerShapeByLegs DEF Posted
    <2>2. Posted(Reversal(Debit(x[2])))' <=> Posted(Reversal(Credit(x[2])))'
      BY <1>1, <2>1, Ids DEF LegShape
    <2> QED BY <1>1, <1>2, <2>1, <2>2 DEF LegShape
  <1>4. ASSUME NEW x \in DOMAIN ledger', x[1] = "reversal"
        PROVE  Posted(x[2])'
    <2>1. CASE Posted(x)
      BY <1>1, <1>4, <2>1 DEF LedgerShape, Posted
    <2>2. CASE x = Reversal(Debit(t)) \/ x = Reversal(Credit(t))
      BY <1>1, <2>2, Ids
    <2> QED BY <1>1, <2>1, <2>2 DEF Posted
  <1> QED BY <1>3, <1>4 DEF LedgerShape, LegShape

-----------------------------------------------------------------------------
(* The decisions.                                                          *)

LEMMA Deciding ==
  ASSUME IInv, NEW w \in Worker, NEW op, Decides(w, op), NEW c, c = work[w].call
  PROVE  /\ Ready(w) /\ Planned(w) /\ Busy(w) /\ Allowed(w) /\ ~Replayed(w)
         /\ c \in Call /\ WellFormed(c) /\ Grounded(c) /\ c.op = op
  <1>1. Ready(w) /\ Planned(w) /\ Busy(w) /\ Allowed(w) /\ ~Replayed(w) /\ c.op = op
    BY DEF Decides, Proceeds, Ready, Planned
  <1>2. c \in Call /\ WellFormed(c)
    BY <1>1, CallOfWorker DEF IInv
  <1>3. Grounded(c)
    BY <1>1 DEF IInv, PlanFollowed, FollowsPlan, Grounded
  <1> QED BY <1>1, <1>2, <1>3

(* A movement inserted by the holder of its account.                       *)
LEMMA PostingKeeps ==
  ASSUME IInv, NEW w \in Worker, End(w),
         NEW id, NEW m, MovementRecord(m), Post(id, m), ~Posted(id), ~IsLeg(id),
         id[1] = "reversal" => Posted(id[2]) /\ ~IsLeg(id[2]),
         Holds(w, AccountRow(m.account)),
         UNCHANGED <<isActive, approval, reservation, reserved, engaged>>,
         paid' \in [Expense -> Int],
         \A e \in Expense : ~Holds(w, ExpenseRow(e)) => paid'[e] <= paid[e]
  PROVE  TypeOK' /\ LedgerShape' /\ ReservationShape' /\ Frame(w)
  <1>1. /\ \A x \in DOMAIN ledger' : MovementRecord(ledger[x])'
        /\ balance' \in [Account -> Int]
    BY PostTypeOK DEF IInv
  <1>2. /\ lock' \in [Row -> Worker \cup {None}]
        /\ sharing' \subseteq Worker
        /\ work' \in [Worker -> WorkRecord]
    BY EndTypeOK DEF IInv
  <1>3. TypeOK'
    BY <1>1, <1>2 DEF IInv, TypeOK
  <1>4. LedgerShape'
    BY PostShape DEF IInv
  <1>5. ReservationShape'
    BY DEF IInv, ReservationShape
  <1>6. Extends
    BY PostExtends DEF Extends
  <1>7. \A a \in Account : ~Holds(w, AccountRow(a)) => balance'[a] = balance[a]
    BY DEF IInv, TypeOK, Post
  <1> QED BY <1>3, <1>4, <1>5, <1>6, <1>7 DEF Frame

(* What a fresh view lets a debit conclude.                                *)
LEMMA EnoughCash ==
  ASSUME IInv, NEW w \in Worker, Ready(w), Viewed(w),
         NEW c \in Call, c = work[w].call, ~StaleReader(c),
         NEW a \in Account, a = Debited(c), a = Focus(c),
         NEW own \in Int, Liquid(w, c, own), Amount(c) \in Int
  PROVE  Amount(c) <= balance[a] - (reserved[a] - own)
  <1>1. Busy(w)
    BY DEF Ready, Planned
  <1>2. a # None
    BY TreasuryAssumption
  <1>3. work[w].view.balance[a] = balance[a]
    BY <1>1, <1>2 DEF IInv, FreshView, SeesFresh
  <1>4. balance[a] \in Int /\ reserved[a] \in Int
    BY DEF IInv, TypeOK
  <1> QED BY <1>3, <1>4 DEF Liquid

LEMMA DepositStep ==
  ASSUME IInv, NEW id, NEW m, MovementRecord(m), m.direction = "IN",
         Post(id, m), UNCHANGED <<reserved, SeenEarly>>
  PROVE  Cash!Prompt
  <1>1. m.account \in Account /\ m.amount \in Amounts
    BY DEF MovementRecord
  <1>2. Cash!Deposit(m.account, m.amount)
    BY DEF Post, Signed, Cash!Deposit
  <1> QED BY <1>1, <1>2 DEF Cash!Prompt

LEMMA WithdrawStep ==
  ASSUME IInv, NEW id, NEW m, MovementRecord(m), m.direction = "OUT",
         Post(id, m), UNCHANGED <<reserved, SeenEarly>>,
         m.amount <= balance[m.account] - reserved[m.account]
  PROVE  Cash!Prompt
  <1>1. m.account \in Account /\ m.amount \in Amounts
    BY DEF MovementRecord
  <1>2. balance' = [balance EXCEPT ![m.account] = @ - m.amount]
    <2>1. m.amount \in Int /\ balance[m.account] \in Int
      BY <1>1, AmountsAreNat DEF IInv, TypeOK
    <2>2. balance[m.account] + Signed(m) = balance[m.account] - m.amount
      BY <2>1 DEF Signed
    <2>3. balance' = [balance EXCEPT ![m.account] = balance[m.account] + Signed(m)]
      BY DEF Post
    <2> QED BY <2>2, <2>3
  <1>3. Cash!Withdraw(m.account, m.amount)
    BY <1>2 DEF Cash!Withdraw, Cash!Free
  <1> QED BY <1>1, <1>3 DEF Cash!Prompt

(* What a stale reader may take: what the balances it saw left free.       *)
LateTaken(w) ==
    \E n \in Amounts : /\ Debited(work[w].call) \in Account
                       /\ Cash!Late(w, Debited(work[w].call), n)

LEMMA LateLiquid ==
  ASSUME IInv, NEW w \in Worker, Busy(w), Ready(w),
         NEW c \in Call, c = work[w].call,
         NEW a \in Account, a = Debited(c), NEW own \in Int,
         Liquid(w, c, own), Amount(c) \in Int
  PROVE  work[w].view.balance[a] >= Amount(c) + (reserved[a] - own)
  <1>1. work[w].view.balance[a] \in Int /\ reserved[a] \in Int
    BY CallOfWorker DEF IInv, TypeOK, WorkRecord, ViewRecord
  <1>2. work[w].view.balance[a] - (reserved[a] - own) >= Amount(c)
    BY DEF Liquid
  <1> QED BY <1>1, <1>2

(* What every decision is shown to do.                                     *)
Sound(w) ==
    /\ TypeOK' /\ LedgerShape' /\ ReservationShape'
    /\ Frame(w)
    /\ IF StaleReader(work[w].call) THEN LateTaken(w)
       ELSE [Cash!Prompt]_<<balance, reserved, SeenEarly>>

(* What the others have seen is theirs; a request that ends forgets it.    *)
LEMMA SeenSame ==
  ASSUME NEW x \in Worker, work'[x] = work[x]
  PROVE  Seen(x)' = Seen(x)
  BY DEF Seen, Busy, Viewed, StaleReader, ReadsScopeFirst

LEMMA EndSeen ==
  ASSUME IInv, NEW w \in Worker, End(w)
  PROVE  SeenEarly' = [SeenEarly EXCEPT ![w] = None]
  <1>1. ~Busy(w)' /\ \A x \in Worker : x # w => work'[x] = work[x]
    BY DEF IInv, TypeOK, End, Busy, Idle
  <1>2. Seen(w)' = None /\ \A x \in Worker : x # w => Seen(x)' = Seen(x)
    BY <1>1, SeenSame DEF Seen
  <1> QED BY <1>2 DEF SeenEarly

LEMMA PromptEnd ==
  ASSUME IInv, NEW w \in Worker, End(w), ~StaleReader(work[w].call)
  PROVE  SeenEarly' = SeenEarly
  <1>1. Seen(w) = None
    BY DEF Seen
  <1> QED BY <1>1, EndSeen DEF SeenEarly

(* What a stale reader saw when it decides.                                *)
LEMMA LateSeen ==
  ASSUME IInv, NEW w \in Worker, Busy(w), Viewed(w), StaleReader(work[w].call)
  PROVE  SeenEarly[w] = work[w].view.balance /\ SeenEarly[w] # None
  <1>1. SeenEarly[w] = work[w].view.balance
    BY DEF SeenEarly, Seen
  <1>2. work[w].view.balance \in [Account -> Int]
    BY CallOfWorker DEF IInv, TypeOK, WorkRecord, ViewRecord
  <1> QED BY <1>1, <1>2, TreasuryAssumption

LEMMA LateWithdrawStep ==
  ASSUME IInv, NEW w \in Worker, Busy(w), Ready(w), Viewed(w), End(w),
         NEW c \in Call, c = work[w].call, StaleReader(c),
         NEW a \in Account, a = Debited(c),
         Liquid(w, c, 0), Amount(c) \in Amounts,
         NEW id, NEW m, m.account = a, m.direction = "OUT", m.amount = Amount(c),
         Post(id, m), reserved' = reserved
  PROVE  Cash!WithdrawLate(w, a, Amount(c))
  <1>1. /\ Amount(c) \in Int /\ balance[a] \in Int /\ reserved[a] \in Int
    BY AmountsAreNat DEF IInv, TypeOK
  <1>2. SeenEarly[w] = work[w].view.balance /\ SeenEarly[w] # None
    BY LateSeen
  <1>3. SeenEarly[w][a] >= Amount(c) + (reserved[a] - 0)
    BY <1>1, <1>2, LateLiquid
  <1>4. SeenEarly[w][a] \in Int
    BY <1>2, CallOfWorker DEF IInv, TypeOK, WorkRecord, ViewRecord
  <1>5. Amount(c) <= SeenEarly[w][a] - reserved[a]
    BY <1>1, <1>3, <1>4
  <1>6. balance[a] + Signed(m) = balance[a] - Amount(c)
    BY <1>1 DEF Signed
  <1>7. balance' = [balance EXCEPT ![a] = balance[a] - Amount(c)]
    BY <1>6 DEF Post
  <1>8. SeenEarly' = [SeenEarly EXCEPT ![w] = None]
    BY EndSeen
  <1> QED BY <1>2, <1>5, <1>7, <1>8 DEF Cash!WithdrawLate

LEMMA ManualOperationSound ==
  ASSUME IInv, NEW w \in Worker, ManualOperation(w)
  PROVE  Sound(w)
  <1> DEFINE c == work[w].call
             id == DraftId(c)
             m == Draft(c)
  <1>1. /\ Ready(w) /\ Planned(w) /\ Busy(w) /\ Allowed(w) /\ ~Replayed(w)
        /\ c \in Call /\ WellFormed(c) /\ Grounded(c) /\ c.op = "manual"
    BY Deciding DEF ManualOperation
  <1>2. m = Movement(c.account, c.direction, c.amount, None) /\ id[1] = "manual"
    BY <1>1 DEF Draft, DraftId
  <1>3. MovementRecord(m)
    BY <1>1, DraftType
  <1>4. ManualGuard(w, c)
    BY <1>1 DEF Allowed
  <1>5. Holds(w, AccountRow(c.account)) /\ (c.direction = "OUT" => Viewed(w))
    BY <1>1, HeldByManual DEF IInv
  <1>6. ~Posted(id)
    <2>1. SameOrNew(c)
      BY <1>4, <1>5 DEF ManualGuard
    <2>2. ~(Holds(w, AccountRow(c.account)) /\ Served(c))
      BY <1>1 DEF Replayed
    <2> QED BY <1>5, <2>1, <2>2 DEF SameOrNew
  <1>7. ~IsLeg(id)
    BY <1>2 DEF IsLeg
  <1>8. TypeOK' /\ LedgerShape' /\ ReservationShape' /\ Frame(w)
    <2>1. m.account = c.account
      BY <1>2 DEF Movement
    <2> QED BY <1>2, <1>3, <1>5, <1>6, <1>7, <2>1, PostingKeeps
            DEF ManualOperation, IInv, TypeOK
  <1>81. ~StaleReader(c) /\ SeenEarly' = SeenEarly
    <2>1. ~StaleReader(c)
      BY <1>1 DEF StaleReader, ReadsScopeFirst
    <2> QED BY <2>1, PromptEnd DEF ManualOperation
  <1>9. CASE c.direction = "IN"
    <2>1. m.direction = "IN"
      BY <1>2, <1>9 DEF Movement
    <2>2. Cash!Prompt
      BY <1>3, <1>81, <2>1, DepositStep DEF ManualOperation
    <2> QED BY <1>8, <1>81, <2>2 DEF Sound
  <1>10. CASE c.direction = "OUT"
    <2>1. m.direction = "OUT" /\ m.account = c.account /\ m.amount = c.amount
      BY <1>2, <1>10 DEF Movement
    <2>2. /\ Debited(c) = c.account /\ Focus(c) = c.account /\ c.account \in Account
          /\ Amount(c) = c.amount /\ c.amount \in Int /\ ~StaleReader(c)
      BY <1>1, <1>10, <1>81 DEF Debited, Focus, Amount, WellFormed
    <2>3. c.amount <= balance[c.account] - (reserved[c.account] - 0)
      BY <1>1, <1>4, <1>5, <1>10, <2>2, EnoughCash DEF ManualGuard
    <2>4. c.amount <= balance[c.account] - reserved[c.account]
      BY <2>2, <2>3 DEF IInv, TypeOK
    <2>5. Cash!Prompt
      BY <1>3, <1>81, <2>1, <2>4, WithdrawStep DEF ManualOperation
    <2> QED BY <1>8, <1>81, <2>5 DEF Sound
  <1> QED BY <1>1, <1>9, <1>10 DEF WellFormed

LEMMA PostAutomaticMovementSound ==
  ASSUME IInv, NEW w \in Worker, PostAutomaticMovement(w)
  PROVE  Sound(w)
  <1> DEFINE c == work[w].call
             id == DraftId(c)
             m == Draft(c)
  <1>1. /\ Ready(w) /\ Planned(w) /\ Busy(w) /\ Allowed(w) /\ ~Replayed(w)
        /\ c \in Call /\ WellFormed(c) /\ Grounded(c) /\ c.op = "collect"
    BY Deciding DEF PostAutomaticMovement
  <1>2. m = Movement(c.account, "IN", c.amount, None) /\ id[1] = "collect"
    BY <1>1 DEF Draft, DraftId
  <1>3. MovementRecord(m)
    BY <1>1, DraftType
  <1>4. Holds(w, InvoiceRow(c.payment)) /\ Holds(w, AccountRow(c.account))
    BY <1>1, HeldByCollect DEF IInv
  <1>5. ~Posted(id)
    BY <1>1, <1>4 DEF Replayed
  <1>6. ~IsLeg(id)
    BY <1>2 DEF IsLeg
  <1>7. TypeOK' /\ LedgerShape' /\ ReservationShape' /\ Frame(w)
    <2>1. m.account = c.account
      BY <1>2 DEF Movement
    <2> QED BY <1>2, <1>3, <1>4, <1>5, <1>6, <2>1, PostingKeeps
            DEF PostAutomaticMovement, IInv, TypeOK
  <1>8. m.direction = "IN"
    BY <1>2 DEF Movement
  <1>9. ~StaleReader(c)
    BY <1>1 DEF StaleReader, ReadsScopeFirst
  <1>10. SeenEarly' = SeenEarly
    BY <1>9, PromptEnd DEF PostAutomaticMovement
  <1>11. Cash!Prompt
    BY <1>3, <1>8, <1>10, DepositStep DEF PostAutomaticMovement
  <1> QED BY <1>7, <1>9, <1>11 DEF Sound

LEMMA PostPaymentRefundMovementSound ==
  ASSUME IInv, NEW w \in Worker, PostPaymentRefundMovement(w)
  PROVE  Sound(w)
  <1> DEFINE c == work[w].call
             id == DraftId(c)
             m == Draft(c)
  <1>1. /\ Ready(w) /\ Planned(w) /\ Busy(w) /\ Allowed(w) /\ ~Replayed(w)
        /\ c \in Call /\ WellFormed(c) /\ Grounded(c) /\ c.op = "refund"
    BY Deciding DEF PostPaymentRefundMovement
  <1>2. m = Movement(c.account, "OUT", c.amount, c.payment) /\ id[1] = "refund"
    BY <1>1 DEF Draft, DraftId
  <1>3. MovementRecord(m)
    BY <1>1, DraftType
  <1>4. Holds(w, InvoiceRow(c.payment)) /\ Holds(w, AccountRow(c.account))
    BY <1>1, HeldByRefund DEF IInv
  <1>5. ~Posted(id)
    <2>1. SameOrNew(c)
      BY <1>1, <1>4 DEF Allowed, RefundGuard
    <2>2. ~(Holds(w, InvoiceRow(c.payment)) /\ Served(c))
      BY <1>1 DEF Replayed
    <2> QED BY <1>4, <2>1, <2>2 DEF SameOrNew
  <1>6. ~IsLeg(id)
    BY <1>2 DEF IsLeg
  <1>7. TypeOK' /\ LedgerShape' /\ ReservationShape' /\ Frame(w)
    <2>1. m.account = c.account
      BY <1>2 DEF Movement
    <2> QED BY <1>2, <1>3, <1>4, <1>5, <1>6, <2>1, PostingKeeps
            DEF PostPaymentRefundMovement, IInv, TypeOK
  <1>8. /\ StaleReader(c) /\ Debited(c) = c.account /\ Amount(c) = c.amount
        /\ c.account \in Account /\ c.amount \in Amounts /\ Viewed(w)
    BY <1>1, HeldByRefund, AmountOfCall DEF StaleReader, Debited, Amount, WellFormed, IInv
  <1>9. Liquid(w, c, 0)
    BY <1>1 DEF Allowed, RefundGuard
  <1>10. Cash!WithdrawLate(w, c.account, c.amount)
    <2>1. m.account = c.account /\ m.direction = "OUT" /\ m.amount = c.amount
      BY <1>2 DEF Movement
    <2> HIDE DEF m
    <2>2. Post(id, m) /\ End(w) /\ reserved' = reserved
      BY DEF PostPaymentRefundMovement, m
    <2> QED BY <1>1, <1>8, <1>9, <2>1, <2>2, LateWithdrawStep
  <1> QED BY <1>7, <1>8, <1>10 DEF Sound, LateTaken, Cash!Late

(* A reversal never raises what is paid.                                   *)
LEMMA ReversalLowersPaid ==
  ASSUME IInv, NEW w \in Worker, Reverse(w)
  PROVE  /\ paid' \in [Expense -> Int]
         /\ \A e \in Expense : paid'[e] <= paid[e]
  <1> DEFINE c == work[w].call
             o == ledger[c.movement]
  <1>1. Posted(c.movement)
    <2>1. c.op = "reverse" /\ Grounded(c)
      BY Deciding DEF Reverse
    <2> QED BY <2>1 DEF Grounded
  <1>2. o.amount \in Int /\ o.amount >= 0
    BY <1>1, AmountsAreNat DEF IInv, TypeOK, MovementRecord, Posted
  <1>3. \/ paid' = paid
        \/ \E e : paid' = [paid EXCEPT ![e] = @ - o.amount]
    BY DEF Reverse
  <1>4. CASE paid' = paid
    BY <1>4 DEF IInv, TypeOK
  <1>5. CASE \E e : paid' = [paid EXCEPT ![e] = @ - o.amount]
    <2>1. PICK e : paid' = [paid EXCEPT ![e] = @ - o.amount]
      BY <1>5
    <2>2. CASE e \in Expense
      BY <1>2, <2>1, <2>2 DEF IInv, TypeOK
    <2>3. CASE e \notin Expense
      <3>1. paid' = paid
        BY <2>1, <2>3 DEF IInv, TypeOK
      <3> QED BY <3>1 DEF IInv, TypeOK
    <2> QED BY <2>2, <2>3
  <1> QED BY <1>3, <1>4, <1>5

LEMMA ReverseSound ==
  ASSUME IInv, NEW w \in Worker, Reverse(w)
  PROVE  Sound(w)
  <1> DEFINE c == work[w].call
             o == ledger[c.movement]
             id == Reversal(c.movement)
             m == Reversed(o)
  <1>1. /\ Ready(w) /\ Planned(w) /\ Busy(w) /\ Allowed(w) /\ ~Replayed(w)
        /\ c \in Call /\ WellFormed(c) /\ Grounded(c) /\ c.op = "reverse"
    BY Deciding DEF Reverse
  <1>2. Posted(c.movement) /\ ~IsLeg(c.movement)
    BY <1>1 DEF Grounded, Reverse
  <1>3. o.account \in Account /\ o.direction \in {"IN", "OUT"} /\ o.amount \in Amounts
    BY <1>2 DEF IInv, TypeOK, MovementRecord, Posted
  <1>4. m.account = o.account /\ m.direction = Opposite(o.direction) /\ m.amount = o.amount
    BY DEF Reversed, Movement
  <1>5. MovementRecord(m)
    BY <1>3, <1>4 DEF MovementRecord, Opposite
  <1>6. Holds(w, AccountRow(o.account)) /\ (o.direction = "IN" => Viewed(w))
    BY <1>1, <1>2, HeldByReversal DEF IInv
  <1>7. ~Posted(id)
    BY <1>1 DEF Allowed, ReverseGuard
  <1>8. ~IsLeg(id) /\ id[2] = c.movement
    BY Ids
  <1>9. /\ paid' \in [Expense -> Int]
        /\ \A e \in Expense : paid'[e] <= paid[e]
    BY ReversalLowersPaid
  <1>10. TypeOK' /\ LedgerShape' /\ ReservationShape' /\ Frame(w)
    BY <1>2, <1>4, <1>5, <1>6, <1>7, <1>8, <1>9, PostingKeeps DEF Reverse
  <1>101. ~StaleReader(c)
    BY <1>1, <1>2 DEF StaleReader, ReadsScopeFirst, IsLeg
  <1>102. SeenEarly' = SeenEarly
    BY <1>101, PromptEnd DEF Reverse
  <1>11. CASE o.direction = "OUT"
    <2>1. m.direction = "IN"
      BY <1>4, <1>11 DEF Opposite
    <2>2. Cash!Prompt
      BY <1>5, <1>102, <2>1, DepositStep DEF Reverse
    <2> QED BY <1>10, <1>101, <2>2 DEF Sound
  <1>12. CASE o.direction = "IN"
    <2>1. m.direction = "OUT"
      BY <1>4, <1>12 DEF Opposite
    <2>2. /\ Debited(c) = o.account /\ Focus(c) = o.account
          /\ Amount(c) = o.amount /\ o.amount \in Int
      BY <1>1, <1>2, <1>3, <1>12, AmountsAreNat DEF Debited, Focus, Amount
    <2>3. ~StaleReader(c)
      BY <1>101
    <2>4. Liquid(w, c, 0)
      BY <1>1, <1>3, <2>2, TreasuryAssumption DEF Allowed, ReverseGuard
    <2>5. o.amount <= balance[o.account] - (reserved[o.account] - 0)
      BY <1>1, <1>3, <1>6, <1>12, <2>2, <2>3, <2>4, EnoughCash
    <2>6. o.amount <= balance[o.account] - reserved[o.account]
      BY <1>3, <2>5 DEF IInv, TypeOK
    <2>7. Cash!Prompt
      BY <1>4, <1>5, <1>102, <2>1, <2>6, WithdrawStep DEF Reverse
    <2> QED BY <1>10, <1>101, <2>7 DEF Sound
  <1> QED BY <1>3, <1>11, <1>12

(* Both legs of a transfer, or of its reversal, posted by the holder of    *)
(* both accounts.                                                          *)
LEMMA TwoPostingsKeep ==
  ASSUME IInv, NEW w \in Worker, End(w), LedgerShape',
         NEW i, NEW m, NEW j, NEW n, PostTwo(i, m, j, n),
         MovementRecord(m), MovementRecord(n), ~Posted(i), ~Posted(j),
         Holds(w, AccountRow(m.account)), Holds(w, AccountRow(n.account)),
         UNCHANGED <<isActive, approval, reservation, reserved, engaged, paid>>
  PROVE  TypeOK' /\ LedgerShape' /\ ReservationShape' /\ Frame(w)
  <1>1. /\ \A x \in DOMAIN ledger' : MovementRecord(ledger[x])'
        /\ balance' \in [Account -> Int]
    BY PostTwoTypeOK DEF IInv
  <1>2. /\ lock' \in [Row -> Worker \cup {None}]
        /\ sharing' \subseteq Worker
        /\ work' \in [Worker -> WorkRecord]
    BY EndTypeOK DEF IInv
  <1>3. TypeOK'
    BY <1>1, <1>2 DEF IInv, TypeOK
  <1>4. ReservationShape'
    BY DEF IInv, ReservationShape
  <1>5. Extends
    BY PostTwoExtends DEF Extends
  <1>6. \A a \in Account : ~Holds(w, AccountRow(a)) => balance'[a] = balance[a]
    BY DEF IInv, TypeOK, PostTwo
  <1>7. \A e \in Expense : paid'[e] <= paid[e]
    BY DEF IInv, TypeOK
  <1> QED BY <1>3, <1>4, <1>5, <1>6, <1>7 DEF Frame

LEMMA MoveStep ==
  ASSUME IInv, NEW i, NEW m, NEW j, NEW n, PostTwo(i, m, j, n), UNCHANGED <<reserved, SeenEarly>>,
         NEW from \in Account, NEW to \in Account, from # to, NEW sum \in Amounts,
         sum <= balance[from] - reserved[from],
         \/ /\ m.account = from /\ m.direction = "OUT" /\ m.amount = sum
            /\ n.account = to /\ n.direction = "IN" /\ n.amount = sum
         \/ /\ m.account = to /\ m.direction = "IN" /\ m.amount = sum
            /\ n.account = from /\ n.direction = "OUT" /\ n.amount = sum
  PROVE  Cash!Prompt
  <1>1. sum \in Int /\ balance \in [Account -> Int]
    BY AmountsAreNat DEF IInv, TypeOK
  <1>2. balance' = [balance EXCEPT ![from] = @ - sum, ![to] = @ + sum]
    <2>1. CASE m.account = from /\ m.direction = "OUT" /\ m.amount = sum
               /\ n.account = to /\ n.direction = "IN" /\ n.amount = sum
      <3>1. Signed(m) = -sum /\ Signed(n) = sum
        BY <2>1 DEF Signed
      <3> QED BY <1>1, <2>1, <3>1 DEF PostTwo
    <2>2. CASE m.account = to /\ m.direction = "IN" /\ m.amount = sum
               /\ n.account = from /\ n.direction = "OUT" /\ n.amount = sum
      <3>1. Signed(m) = sum /\ Signed(n) = -sum
        BY <2>2 DEF Signed
      <3> QED BY <1>1, <2>2, <3>1 DEF PostTwo
    <2> QED BY <2>1, <2>2
  <1>3. Cash!Move(from, to, sum)
    BY <1>2 DEF Cash!Move, Cash!Free
  <1> QED BY <1>3 DEF Cash!Prompt

LEMMA LateMoveStep ==
  ASSUME IInv, NEW w \in Worker, Busy(w), Ready(w), Viewed(w), End(w),
         NEW c \in Call, c = work[w].call, StaleReader(c),
         NEW from \in Account, from = Debited(c), NEW to \in Account, from # to,
         Liquid(w, c, 0), Amount(c) \in Amounts,
         NEW i, NEW m, NEW j, NEW n, PostTwo(i, m, j, n), reserved' = reserved,
         m.account = to, m.direction = "IN", m.amount = Amount(c),
         n.account = from, n.direction = "OUT", n.amount = Amount(c)
  PROVE  Cash!MoveLate(w, from, to, Amount(c))
  <1>1. /\ Amount(c) \in Int /\ balance \in [Account -> Int] /\ reserved[from] \in Int
    BY AmountsAreNat DEF IInv, TypeOK
  <1>2. SeenEarly[w] = work[w].view.balance /\ SeenEarly[w] # None
    BY LateSeen
  <1>3. SeenEarly[w][from] >= Amount(c) + (reserved[from] - 0)
    BY <1>1, <1>2, LateLiquid
  <1>4. SeenEarly[w][from] \in Int
    BY <1>2, CallOfWorker DEF IInv, TypeOK, WorkRecord, ViewRecord
  <1>5. Amount(c) <= SeenEarly[w][from] - reserved[from]
    BY <1>1, <1>3, <1>4
  <1>6. Signed(m) = Amount(c) /\ Signed(n) = -Amount(c)
    BY DEF Signed
  <1>7. balance' = [balance EXCEPT ![from] = @ - Amount(c), ![to] = @ + Amount(c)]
    BY <1>1, <1>6 DEF PostTwo
  <1>8. SeenEarly' = [SeenEarly EXCEPT ![w] = None]
    BY EndSeen
  <1> QED BY <1>2, <1>5, <1>7, <1>8 DEF Cash!MoveLate

LEMMA MakeTransferSound ==
  ASSUME IInv, NEW w \in Worker, MakeTransfer(w)
  PROVE  Sound(w)
  <1> DEFINE c == work[w].call
  <1>1. /\ Ready(w) /\ Planned(w) /\ Busy(w) /\ Allowed(w) /\ ~Replayed(w)
        /\ c \in Call /\ WellFormed(c) /\ Grounded(c) /\ c.op = "transfer"
    BY Deciding DEF MakeTransfer
  <1>2. PICK t \in TransferId :
          /\ ~Posted(Debit(t))
          /\ PostTwo(Debit(t), Movement(c.account, "OUT", c.amount, None),
                     Credit(t), Movement(c.to, "IN", c.amount, None))
    BY DEF MakeTransfer
  <1> DEFINE m == Movement(c.account, "OUT", c.amount, None)
             n == Movement(c.to, "IN", c.amount, None)
  <1>3. /\ m.account = c.account /\ m.direction = "OUT" /\ m.amount = c.amount
        /\ n.account = c.to /\ n.direction = "IN" /\ n.amount = c.amount
    BY DEF Movement
  <1>4. c.account \in Account /\ c.to \in Account /\ c.amount \in Amounts
    BY <1>1, AmountOfCall DEF WellFormed
  <1>5. MovementRecord(m) /\ MovementRecord(n)
    BY <1>3, <1>4 DEF MovementRecord
  <1>6. TransferGuard(w, c)
    BY <1>1 DEF Allowed
  <1>7. c.account # c.to
    BY <1>6 DEF TransferGuard
  <1>8. Holds(w, AccountRow(c.account)) /\ Holds(w, AccountRow(c.to)) /\ Viewed(w)
    BY <1>1, HeldByTransfer DEF IInv
  <1>9. ~Posted(Credit(t)) /\ LedgerShape'
    BY <1>2, <1>7, TransferShape DEF IInv
  <1>10. TypeOK' /\ LedgerShape' /\ ReservationShape' /\ Frame(w)
    BY <1>2, <1>3, <1>5, <1>8, <1>9, TwoPostingsKeep DEF MakeTransfer
  <1>11. /\ Debited(c) = c.account /\ Focus(c) = c.account /\ ~StaleReader(c)
         /\ Amount(c) = c.amount /\ c.amount \in Int
    BY <1>1, <1>4, AmountsAreNat DEF Debited, Focus, StaleReader, ReadsScopeFirst, Amount
  <1>12. c.amount <= balance[c.account] - (reserved[c.account] - 0)
    BY <1>1, <1>4, <1>6, <1>8, <1>11, EnoughCash DEF TransferGuard
  <1>13. c.amount <= balance[c.account] - reserved[c.account]
    BY <1>4, <1>12 DEF IInv, TypeOK
  <1>14. SeenEarly' = SeenEarly
    BY <1>11, PromptEnd DEF MakeTransfer
  <1>15. Cash!Prompt
    BY <1>2, <1>3, <1>4, <1>7, <1>13, <1>14, MoveStep DEF MakeTransfer
  <1> QED BY <1>10, <1>11, <1>15 DEF Sound

LEMMA ReverseTransferSound ==
  ASSUME IInv, NEW w \in Worker, ReverseTransfer(w)
  PROVE  Sound(w)
  <1> DEFINE c == work[w].call
             t == c.movement[2]
             d == ledger[Debit(t)]
             e == ledger[Credit(t)]
             m == Reversed(d)
             n == Reversed(e)
  <1>1. /\ Ready(w) /\ Planned(w) /\ Busy(w) /\ Allowed(w) /\ ~Replayed(w)
        /\ c \in Call /\ WellFormed(c) /\ Grounded(c) /\ c.op = "reverse"
    BY Deciding DEF ReverseTransfer
  <1>2. Posted(c.movement) /\ IsLeg(c.movement)
    BY <1>1 DEF Grounded, ReverseTransfer
  <1>3. /\ c.movement \in {Debit(t), Credit(t)}
        /\ Posted(Debit(t)) /\ Posted(Credit(t))
        /\ d.direction = "OUT" /\ e.direction = "IN"
        /\ d.amount = e.amount /\ d.account # e.account
        /\ Posted(Reversal(Debit(t))) <=> Posted(Reversal(Credit(t)))
    BY <1>2, LedgerShapeByLegs DEF IInv, LegShape, Posted
  <1>4. d.account \in Account /\ e.account \in Account /\ d.amount \in Amounts
    BY <1>3 DEF IInv, TypeOK, MovementRecord, Posted
  <1>5. /\ m.account = d.account /\ m.direction = "IN" /\ m.amount = d.amount
        /\ n.account = e.account /\ n.direction = "OUT" /\ n.amount = d.amount
    BY <1>3 DEF Reversed, Movement, Opposite
  <1>6. MovementRecord(m) /\ MovementRecord(n)
    BY <1>4, <1>5 DEF MovementRecord
  <1>7. ~Posted(Reversal(Debit(t))) /\ ~Posted(Reversal(Credit(t)))
    BY <1>1, <1>3 DEF Allowed, ReverseGuard
  <1>8. PostTwo(Reversal(Debit(t)), m, Reversal(Credit(t)), n)
    BY DEF ReverseTransfer
  <1>9. LedgerShape'
    BY <1>3, <1>7, <1>8, TransferReversalShape DEF IInv
  <1>10. Holds(w, AccountRow(d.account)) /\ Holds(w, AccountRow(e.account)) /\ Viewed(w)
    BY <1>1, <1>2, HeldByTransferReversal DEF IInv
  <1>11. TypeOK' /\ LedgerShape' /\ ReservationShape' /\ Frame(w)
    BY <1>5, <1>6, <1>7, <1>8, <1>9, <1>10, TwoPostingsKeep DEF ReverseTransfer
  <1>12. ASSUME ~StaleReader(c) PROVE Cash!Prompt
    <2>1. /\ Debited(c) = e.account /\ Focus(c) = e.account
          /\ Amount(c) = d.amount /\ d.amount \in Int
      BY <1>1, <1>2, <1>3, <1>4, AmountsAreNat DEF Debited, Focus, Amount
    <2>2. Liquid(w, c, 0)
      BY <1>1, <1>4, <2>1, TreasuryAssumption DEF Allowed, ReverseGuard
    <2>3. d.amount <= balance[e.account] - (reserved[e.account] - 0)
      <3>1. PICK a \in Account : a = e.account
        BY <1>4
      <3>2. Amount(c) <= balance[a] - (reserved[a] - 0)
        <4>1. a = Debited(c) /\ a = Focus(c) /\ Amount(c) \in Int
          BY <2>1, <3>1
        <4>2. Ready(w) /\ Viewed(w) /\ c \in Call
          BY <1>1, <1>10
        <4>3. ~StaleReader(c) /\ Liquid(w, c, 0) /\ 0 \in Int
          BY <1>12, <2>2
        <4> QED BY <4>1, <4>2, <4>3, EnoughCash
      <3> QED BY <2>1, <3>1, <3>2
    <2>4. d.amount <= balance[e.account] - reserved[e.account]
      BY <1>4, <2>3 DEF IInv, TypeOK
    <2>5. UNCHANGED <<reserved, SeenEarly>>
      BY <1>12, PromptEnd DEF ReverseTransfer
    <2>6. d.account # e.account
      BY <1>3
    <2>7. \A i, x, j, y : PostTwo(i, x, j, y) /\ x = m /\ y = n => Cash!Prompt
      <3> SUFFICES ASSUME NEW i, NEW x, NEW j, NEW y, PostTwo(i, x, j, y), x = m, y = n
                   PROVE  Cash!Prompt
        OBVIOUS
      <3> HIDE DEF m, n, d, e
      <3> QED BY <1>4, <1>5, <2>4, <2>5, <2>6, MoveStep
    <2> QED BY <1>8, <2>7
  <1>13. ASSUME StaleReader(c) PROVE LateTaken(w)
    <2>1. /\ Debited(c) = e.account /\ Amount(c) = d.amount
      BY <1>1, <1>2, <1>3, <1>4 DEF Debited, Amount
    <2>2. Liquid(w, c, 0)
      BY <1>1, <1>4, <2>1, TreasuryAssumption DEF Allowed, ReverseGuard
    <2>3. End(w) /\ reserved' = reserved /\ d.account # e.account
      BY <1>3 DEF ReverseTransfer
    <2>4. \A i, x, j, y : PostTwo(i, x, j, y) /\ x = m /\ y = n =>
             Cash!MoveLate(w, e.account, d.account, d.amount)
      <3> SUFFICES ASSUME NEW i, NEW x, NEW j, NEW y, PostTwo(i, x, j, y), x = m, y = n
                   PROVE  Cash!MoveLate(w, e.account, d.account, d.amount)
        OBVIOUS
      <3>1. /\ x.account = d.account /\ x.direction = "IN" /\ x.amount = d.amount
            /\ y.account = e.account /\ y.direction = "OUT" /\ y.amount = d.amount
        BY <1>5
      <3>2. PICK k \in Call : k = c
        BY <1>1
      <3>3. PICK from \in Account : from = e.account
        BY <1>4
      <3>4. PICK to \in Account : to = d.account
        BY <1>4
      <3>5. PICK sum \in Amounts : sum = d.amount
        BY <1>4
      <3>6. /\ Busy(w) /\ Ready(w) /\ Viewed(w) /\ End(w) /\ reserved' = reserved
            /\ k = work[w].call /\ StaleReader(k) /\ Liquid(w, k, 0)
            /\ from = Debited(k) /\ Amount(k) = sum /\ from # to
        BY <1>1, <1>10, <1>13, <2>1, <2>2, <2>3, <3>2, <3>3, <3>4, <3>5
      <3> HIDE DEF m, n, d, e, c, t
      <3>7. Cash!MoveLate(w, from, to, Amount(k))
        BY <3>1, <3>3, <3>4, <3>5, <3>6, LateMoveStep
      <3> QED BY <3>3, <3>4, <3>5, <3>6, <3>7
    <2>5. Cash!MoveLate(w, e.account, d.account, d.amount)
      BY <1>8, <2>4
    <2> QED BY <1>4, <2>1, <2>5 DEF LateTaken, Cash!Late
  <1> QED BY <1>11, <1>12, <1>13 DEF Sound

(* Updates of one reservation.                                             *)
LEMMA UpdateKeeps ==
  ASSUME IInv, NEW id \in DOMAIN reservation, NEW new \in ReservationRecord,
         new.account = reservation[id].account, new.active <= new.initial,
         new.active > 0 <=> new.status = "ACTIVE", UpdateReservation(id, new)
  PROVE  /\ DOMAIN reservation' = DOMAIN reservation
         /\ \A r \in DOMAIN reservation' :
               /\ reservation'[r] \in ReservationRecord
               /\ reservation'[r].account = reservation[r].account
         /\ reserved' \in [Account -> Int]
         /\ engaged' \in [Expense -> Int]
         /\ ReservationShape'
         /\ reservation[id].account \in Account
         /\ \A a \in Account : a # reservation[id].account => reserved'[a] = reserved[a]
  <1>1. /\ DOMAIN reservation' = DOMAIN reservation
        /\ \A r \in DOMAIN reservation' : reservation'[r] \in ReservationRecord
        /\ reserved' \in [Account -> Int]
        /\ engaged' \in [Expense -> Int]
    BY UpdateTypeOK DEF IInv
  <1>2. \A r \in DOMAIN reservation :
           (reservation'[r] = new /\ r = id) \/ reservation'[r] = reservation[r]
    BY DEF UpdateReservation
  <1>3. ReservationShape'
    BY <1>1, <1>2 DEF IInv, ReservationShape
  <1>4. reservation[id].account \in Account
    BY DEF IInv, TypeOK, ReservationRecord
  <1>5. \A a \in Account : a # reservation[id].account => reserved'[a] = reserved[a]
    BY DEF IInv, TypeOK, UpdateReservation
  <1> QED BY <1>1, <1>2, <1>3, <1>4, <1>5

LEMMA ReservedByUpdate ==
  ASSUME IInv, NEW id \in DOMAIN reservation, NEW new \in ReservationRecord,
         UpdateReservation(id, new), NEW n \in Int,
         n = ActiveAmount(new) - ActiveAmount(reservation[id])
  PROVE  reserved' = [reserved EXCEPT ![reservation[id].account] = @ + n]
  BY DEF UpdateReservation

LEMMA GiveBackStep ==
  ASSUME IInv, NEW id \in DOMAIN reservation, NEW new \in ReservationRecord,
         UpdateReservation(id, new), UNCHANGED <<balance, SeenEarly>>,
         ActiveAmount(new) <= ActiveAmount(reservation[id])
  PROVE  Cash!Prompt
  <1> DEFINE old == reservation[id]
  <1>1. old \in ReservationRecord /\ old.active <= old.initial
    BY DEF IInv, TypeOK, ReservationShape
  <1>2. /\ ActiveAmount(old) \in Nat /\ ActiveAmount(new) \in Nat
        /\ old.initial \in Amounts /\ old.initial \in Nat /\ old.account \in Account
        /\ ActiveAmount(old) <= old.initial
    BY <1>1, AmountsAreNat DEF ReservationRecord, ActiveAmount
  <1> HIDE DEF old
  <1>3. PICK n : n = ActiveAmount(old) - ActiveAmount(new)
    OBVIOUS
  <1>4. n \in 0..old.initial
    BY <1>2, <1>3 DEF old
  <1>5. n \in Amounts
    BY <1>2, <1>4, PartOfAmount
  <1>6. reserved[old.account] \in Int
    BY <1>2 DEF IInv, TypeOK
  <1>7. reserved[old.account] + (ActiveAmount(new) - ActiveAmount(old)) = reserved[old.account] - n
    BY <1>2, <1>3, <1>6
  <1>8. reserved' = [reserved EXCEPT ![old.account] =
                        reserved[old.account] + (ActiveAmount(new) - ActiveAmount(old))]
    BY DEF UpdateReservation, old
  <1>9. Cash!GiveBack(old.account, n)
    BY <1>7, <1>8 DEF Cash!GiveBack
  <1> QED BY <1>2, <1>5, <1>9 DEF Cash!Prompt

LEMMA SetAsideStep ==
  ASSUME IInv, NEW id \in DOMAIN reservation, NEW new \in ReservationRecord,
         UpdateReservation(id, new), UNCHANGED <<balance, SeenEarly>>,
         ActiveAmount(reservation[id]) = 0, ActiveAmount(new) = new.initial,
         new.initial <= balance[reservation[id].account] - reserved[reservation[id].account]
  PROVE  Cash!Prompt
  <1> DEFINE a == reservation[id].account
  <1>1. a \in Account /\ new.initial \in Amounts /\ new.initial \in Int
    BY AmountsAreNat DEF IInv, TypeOK, ReservationRecord
  <1>2. reserved[a] + (new.initial - 0) = reserved[a] + new.initial
    BY <1>1 DEF IInv, TypeOK
  <1>3. reserved' = [reserved EXCEPT ![a] = reserved[a] + (new.initial - 0)]
    BY DEF UpdateReservation
  <1>4. Cash!SetAside(a, new.initial)
    BY <1>2, <1>3 DEF Cash!SetAside, Cash!Free
  <1> QED BY <1>1, <1>4 DEF Cash!Prompt

LEMMA ChangeKeeps ==
  ASSUME IInv, NEW w \in Worker, NEW op \in ReservationOps, NEW status \in Status,
         NEW active \in Nat, ChangeReservation(w, op, status, active),
         NEW id, id = work[w].call.reservation,
         active <= reservation[id].initial, active > 0 <=> status = "ACTIVE"
  PROVE  /\ TypeOK' /\ LedgerShape' /\ ReservationShape' /\ Frame(w)
         /\ id \in DOMAIN reservation
         /\ \E new \in ReservationRecord :
               /\ new.status = status /\ new.active = active
               /\ new.initial = reservation[id].initial
               /\ UpdateReservation(id, new)
  <1> DEFINE c == work[w].call
             new == [reservation[id] EXCEPT !.status = status, !.active = active]
  <1>1. /\ Planned(w) /\ c \in Call /\ WellFormed(c) /\ Grounded(c) /\ c.op = op
    BY Deciding DEF ChangeReservation
  <1>2. id \in DOMAIN reservation
    BY <1>1 DEF Grounded
  <1>3. reservation[id] \in ReservationRecord
    BY <1>2 DEF IInv, TypeOK
  <1>4. /\ new \in ReservationRecord
        /\ new.account = reservation[id].account
        /\ new.initial = reservation[id].initial
        /\ new.status = status
        /\ new.active = active
    BY <1>3 DEF ReservationRecord
  <1>5. UpdateReservation(id, new)
    BY DEF ChangeReservation
  <1> HIDE DEF new
  <1>6. /\ DOMAIN reservation' = DOMAIN reservation
        /\ \A r \in DOMAIN reservation' :
              /\ reservation'[r] \in ReservationRecord
              /\ reservation'[r].account = reservation[r].account
        /\ reserved' \in [Account -> Int]
        /\ engaged' \in [Expense -> Int]
        /\ ReservationShape'
        /\ reservation[id].account \in Account
        /\ \A a \in Account : a # reservation[id].account => reserved'[a] = reserved[a]
    BY <1>2, <1>4, <1>5, UpdateKeeps
  <1>7. Holds(w, AccountRow(reservation[id].account))
    BY <1>1, HeldByReservationOp DEF IInv
  <1>8. UNCHANGED <<isActive, approval, ledger, balance, paid>> /\ End(w)
    BY DEF ChangeReservation
  <1>9. /\ lock' \in [Row -> Worker \cup {None}]
        /\ sharing' \subseteq Worker
        /\ work' \in [Worker -> WorkRecord]
    BY <1>8, EndTypeOK DEF IInv
  <1>10. TypeOK'
    BY <1>6, <1>8, <1>9 DEF IInv, TypeOK, MovementRecord
  <1>11. LedgerShape'
    BY <1>8 DEF IInv, LedgerShape, Posted
  <1>12. Frame(w)
    <2>1. Extends
      BY <1>6, <1>8 DEF Extends
    <2>2. \A a \in Account : ~Holds(w, AccountRow(a)) => reserved'[a] = reserved[a]
      BY <1>6, <1>7
    <2>3. \A e \in Expense : paid'[e] <= paid[e]
      BY <1>8 DEF IInv, TypeOK
    <2> QED BY <1>8, <2>1, <2>2, <2>3 DEF Frame
  <1> QED BY <1>2, <1>4, <1>5, <1>6, <1>10, <1>11, <1>12

(* What a change of state other than an approval has to respect.           *)
LEMMA ChangeSound ==
  ASSUME IInv, NEW w \in Worker, NEW op \in ReservationOps, NEW status \in Status,
         NEW active \in Nat, ChangeReservation(w, op, status, active),
         NEW id, id = work[w].call.reservation,
         active > 0 <=> status = "ACTIVE",
         active <= reservation[id].active
  PROVE  Sound(w)
  <1>1. id \in DOMAIN reservation
    <2>1. Grounded(work[w].call) /\ work[w].call.op = op
      BY Deciding DEF ChangeReservation
    <2> QED BY <2>1 DEF Grounded
  <1>2. /\ reservation[id].active \in Nat
        /\ reservation[id].initial \in Nat
        /\ reservation[id].active <= reservation[id].initial
        /\ reservation[id].active > 0 <=> reservation[id].status = "ACTIVE"
    BY <1>1, AmountsAreNat DEF IInv, TypeOK, ReservationRecord, ReservationShape
  <1>3. active <= reservation[id].initial
    BY <1>2
  <1>4. TypeOK' /\ LedgerShape' /\ ReservationShape' /\ Frame(w)
    BY <1>3, ChangeKeeps
  <1>5. PICK new \in ReservationRecord :
          new.status = status /\ new.active = active /\ UpdateReservation(id, new)
    BY <1>3, ChangeKeeps
  <1>6. ActiveAmount(new) <= ActiveAmount(reservation[id])
    BY <1>2, <1>5 DEF ActiveAmount
  <1>7. ~StaleReader(work[w].call)
    <2>1. work[w].call.op = op
      BY Deciding DEF ChangeReservation
    <2> QED BY <2>1 DEF StaleReader, ReadsScopeFirst, ReservationOps
  <1>8. SeenEarly' = SeenEarly
    BY <1>7, PromptEnd DEF ChangeReservation
  <1>9. Cash!Prompt
    BY <1>1, <1>5, <1>6, <1>8, GiveBackStep DEF ChangeReservation
  <1> QED BY <1>4, <1>7, <1>9 DEF Sound

LEMMA Statuses ==
  /\ Status = {"DRAFT", "SUBMITTED", "REJECTED", "ACTIVE",
               "CANCELLED", "EXPIRED", "RELEASED", "CONSUMED"}
  /\ ReservationOps = {"submit", "approve", "reject", "withdraw", "expire", "adjust", "release"}
  BY DEF Status, ReservationOps

(* What the guard of an operation on a reservation has checked.            *)
LEMMA ReservationChecked ==
  ASSUME IInv, NEW w \in Worker, NEW op \in ReservationOps, Decides(w, op),
         NEW c, c = work[w].call, NEW r, r = reservation[c.reservation]
  PROVE  /\ r.active \in Nat /\ r.initial \in Nat /\ r.active <= r.initial
         /\ r.active > 0 <=> r.status = "ACTIVE"
         /\ r.account \in Account
         /\ op = "submit" => r.status \in {"DRAFT", "REJECTED"}
         /\ op \in {"approve", "reject"} => r.status = "SUBMITTED"
         /\ op = "approve" => /\ c \in Call /\ c.op = "approve" /\ Grounded(c)
                              /\ Viewed(w) /\ Busy(w)
                              /\ Covered(w, r.account, r.expense, r.initial, 0)
         /\ op = "adjust" => /\ r.status = "ACTIVE" /\ c.amount <= r.active
                             /\ c.amount \in Nat \ {0}
  <1>1. /\ Planned(w) /\ Busy(w) /\ Allowed(w)
        /\ c \in Call /\ WellFormed(c) /\ Grounded(c) /\ c.op = op
    BY Deciding
  <1>2. c.reservation \in DOMAIN reservation
    BY <1>1 DEF Grounded
  <1>3. /\ r.active \in Nat /\ r.initial \in Nat /\ r.active <= r.initial
        /\ r.active > 0 <=> r.status = "ACTIVE"
        /\ r.account \in Account
    BY <1>2, AmountsAreNat DEF IInv, TypeOK, ReservationRecord, ReservationShape
  <1>4. Holds(w, AccountRow(r.account)) /\ (op = "approve" => Viewed(w))
    BY <1>1, HeldByReservationOp DEF IInv
  <1>5. ReservationGuard(w, c)
    BY <1>1 DEF Allowed
  <1>6. op = "adjust" => c.amount \in Nat \ {0}
    BY <1>1 DEF WellFormed
  <1> QED BY <1>1, <1>3, <1>4, <1>5, <1>6 DEF ReservationGuard

LEMMA ReservationOpsSound ==
  ASSUME IInv, NEW w \in Worker,
         \/ SubmitReservation(w) \/ RejectReservation(w) \/ CancelReservation(w)
         \/ ExpireReservation(w) \/ AdjustReservation(w) \/ ReleaseReservation(w)
  PROVE  Sound(w)
  <1> DEFINE c == work[w].call
             r == reservation[c.reservation]
  <1>1. CASE SubmitReservation(w)
    <2>1. ChangeReservation(w, "submit", "SUBMITTED", r.active) /\ Decides(w, "submit")
      BY <1>1 DEF SubmitReservation, Target, ChangeReservation
    <2>2. r.active \in Nat /\ ~(r.active > 0)
      BY <2>1, ReservationChecked, Statuses
    <2> QED BY <2>1, <2>2, ChangeSound, Statuses
  <1>2. CASE RejectReservation(w)
    <2>1. ChangeReservation(w, "reject", "REJECTED", r.active) /\ Decides(w, "reject")
      BY <1>2 DEF RejectReservation, Target, ChangeReservation
    <2>2. r.active \in Nat /\ ~(r.active > 0)
      BY <2>1, ReservationChecked, Statuses
    <2> QED BY <2>1, <2>2, ChangeSound, Statuses
  <1>3. CASE CancelReservation(w)
    <2>1. ChangeReservation(w, "withdraw", "CANCELLED", 0) /\ Decides(w, "withdraw")
      BY <1>3 DEF CancelReservation, ChangeReservation
    <2>2. 0 <= r.active
      BY <2>1, ReservationChecked, Statuses
    <2> QED BY <2>1, <2>2, ChangeSound, Statuses
  <1>4. CASE ExpireReservation(w)
    <2>1. ChangeReservation(w, "expire", "EXPIRED", 0) /\ Decides(w, "expire")
      BY <1>4 DEF ExpireReservation, ChangeReservation
    <2>2. 0 <= r.active
      BY <2>1, ReservationChecked, Statuses
    <2> QED BY <2>1, <2>2, ChangeSound, Statuses
  <1>5. CASE AdjustReservation(w)
    <2>1. ChangeReservation(w, "adjust", "ACTIVE", c.amount) /\ Decides(w, "adjust")
      BY <1>5 DEF AdjustReservation, ChangeReservation
    <2>2. c.amount <= r.active /\ c.amount \in Nat \ {0}
      BY <2>1, ReservationChecked, Statuses
    <2> QED BY <2>1, <2>2, ChangeSound, Statuses
  <1>6. CASE ReleaseReservation(w)
    <2>1. ChangeReservation(w, "release", "RELEASED", 0) /\ Decides(w, "release")
      BY <1>6 DEF ReleaseReservation, ChangeReservation
    <2>2. 0 <= r.active
      BY <2>1, ReservationChecked, Statuses
    <2> QED BY <2>1, <2>2, ChangeSound, Statuses
  <1> QED BY <1>1, <1>2, <1>3, <1>4, <1>5, <1>6

(* An approval sets cash aside that is still free when it commits.         *)
LEMMA ApproveReservationSound ==
  ASSUME IInv, NEW w \in Worker, ApproveReservation(w)
  PROVE  Sound(w)
  <1> DEFINE c == work[w].call
             id == c.reservation
             r == reservation[id]
             a == r.account
             view == work[w].view
  <1>1. ChangeReservation(w, "approve", "ACTIVE", r.initial) /\ Decides(w, "approve")
    BY DEF ApproveReservation, Target, ChangeReservation
  <1>2. /\ r.active \in Nat /\ r.initial \in Nat /\ r.account \in Account
        /\ r.status = "SUBMITTED"
        /\ c \in Call /\ c.op = "approve" /\ Grounded(c) /\ Viewed(w) /\ Busy(w)
        /\ Covered(w, a, r.expense, r.initial, 0)
    BY <1>1, ReservationChecked, Statuses
  <1>3. id \in DOMAIN reservation
    BY <1>2, Statuses DEF Grounded
  <1>4. r.initial > 0
    BY <1>3, AmountsAreNat DEF IInv, TypeOK, ReservationRecord
  <1>5. /\ TypeOK' /\ LedgerShape' /\ ReservationShape' /\ Frame(w)
        /\ \E new \in ReservationRecord :
              /\ new.status = "ACTIVE" /\ new.active = r.initial /\ new.initial = r.initial
              /\ UpdateReservation(id, new)
    <2>1. "approve" \in ReservationOps /\ "ACTIVE" \in Status
      BY Statuses
    <2>2. r.initial \in Nat /\ r.initial <= r.initial /\ (r.initial > 0 <=> "ACTIVE" = "ACTIVE")
      BY <1>2, <1>4
    <2> QED BY <1>1, <2>1, <2>2, ChangeKeeps
  <1>6. PICK new \in ReservationRecord :
          /\ new.status = "ACTIVE" /\ new.active = r.initial /\ new.initial = r.initial
          /\ UpdateReservation(id, new)
    BY <1>5
  <1>7. ActiveAmount(r) = 0 /\ ActiveAmount(new) = new.initial
    BY <1>2, <1>6 DEF ActiveAmount
  <1>8. work[w].view.balance[a] = balance[a] /\ work[w].view.reserved[a] = reserved[a]
    <2>1. Focus(c) = a /\ ~StaleReader(c) /\ a # None
      BY <1>2, TreasuryAssumption DEF Focus, StaleReader, ReadsScopeFirst
    <2> QED BY <1>2, <2>1 DEF IInv, FreshView, SeesFresh
  <1>9. r.initial <= balance[a] - reserved[a]
    <2>1. r.initial <= AccountAvailable(view, a, 0)
      BY <1>2 DEF Covered
    <2>2. AccountAvailable(view, a, 0) = view.balance[a] - (view.reserved[a] - 0)
      BY DEF AccountAvailable
    <2>3. balance[a] \in Int /\ reserved[a] \in Int
      BY <1>2 DEF IInv, TypeOK
    <2>4. view.balance[a] - (view.reserved[a] - 0) = balance[a] - reserved[a]
      BY <1>8, <2>3
    <2> QED BY <2>1, <2>2, <2>4
  <1>10. ~StaleReader(c)
    BY <1>2 DEF StaleReader, ReadsScopeFirst
  <1>11. SeenEarly' = SeenEarly
    BY <1>1, <1>10, PromptEnd DEF ChangeReservation
  <1>12. Cash!Prompt
    BY <1>1, <1>3, <1>6, <1>7, <1>9, <1>11, SetAsideStep DEF ChangeReservation
  <1> QED BY <1>5, <1>10, <1>12 DEF Sound

LEMMA SpendStep ==
  ASSUME IInv, NEW i, NEW m, MovementRecord(m), m.direction = "OUT", Post(i, m),
         NEW id \in DOMAIN reservation, NEW new \in ReservationRecord,
         UpdateReservation(id, new),
         reservation[id].account = m.account,
         ActiveAmount(new) - ActiveAmount(reservation[id]) = 0 - m.amount,
         UNCHANGED SeenEarly, m.amount <= balance[m.account]
  PROVE  Cash!Prompt
  <1>1. m.account \in Account /\ m.amount \in Amounts /\ m.amount \in Int
    BY AmountsAreNat DEF MovementRecord
  <1>2. balance[m.account] \in Int /\ reserved[m.account] \in Int
    BY <1>1 DEF IInv, TypeOK
  <1>3. balance[m.account] + Signed(m) = balance[m.account] - m.amount
    BY <1>1, <1>2 DEF Signed
  <1>4. balance' = [balance EXCEPT ![m.account] = balance[m.account] + Signed(m)]
    BY DEF Post
  <1>5. reserved' = [reserved EXCEPT ![m.account] = reserved[m.account] + (0 - m.amount)]
    BY DEF UpdateReservation
  <1>6. reserved[m.account] + (0 - m.amount) = reserved[m.account] - m.amount
    BY <1>1, <1>2
  <1>7. Cash!Spend(m.account, m.amount)
    BY <1>3, <1>4, <1>5, <1>6 DEF Cash!Spend
  <1> QED BY <1>1, <1>7 DEF Cash!Prompt

LEMMA ConsumedType ==
  ASSUME NEW r \in ReservationRecord, r.status = "ACTIVE",
         NEW n \in Nat, n <= r.active, r.active <= r.initial
  PROVE  /\ Consumed(r, n) \in ReservationRecord
         /\ Consumed(r, n).account = r.account
         /\ Consumed(r, n).initial = r.initial
         /\ Consumed(r, n).active = r.active - n
         /\ Consumed(r, n).active <= Consumed(r, n).initial
         /\ Consumed(r, n).active > 0 <=> Consumed(r, n).status = "ACTIVE"
         /\ ActiveAmount(Consumed(r, n)) - ActiveAmount(r) = 0 - n
  <1>1. /\ r.account \in Account /\ r.expense \in Expense /\ r.creator \in User
        /\ r.initial \in Amounts \ {0} /\ r.active \in Nat /\ r.initial \in Nat
    BY AmountsAreNat DEF ReservationRecord
  <1>2. r.active - n \in Nat /\ r.active - n <= r.initial
    BY <1>1
  <1> DEFINE s == IF r.active = n THEN "CONSUMED" ELSE "ACTIVE"
  <1>3. s \in Status
    BY Statuses
  <1>4. Consumed(r, n) = [r EXCEPT !.active = r.active - n, !.status = s]
    BY DEF Consumed
  <1>5. /\ Consumed(r, n) \in ReservationRecord
        /\ Consumed(r, n).account = r.account
        /\ Consumed(r, n).initial = r.initial
        /\ Consumed(r, n).active = r.active - n
        /\ Consumed(r, n).status = s
    <2> HIDE DEF s
    <2> QED BY <1>2, <1>3, <1>4 DEF ReservationRecord
  <1>6. Consumed(r, n).active > 0 <=> Consumed(r, n).status = "ACTIVE"
    BY <1>1, <1>5
  <1>7. ActiveAmount(Consumed(r, n)) = r.active - n
    BY <1>1, <1>5 DEF ActiveAmount
  <1> QED BY <1>1, <1>2, <1>5, <1>6, <1>7 DEF ActiveAmount

(* What a disbursement has checked.                                        *)
LEMMA DisbursementChecked ==
  ASSUME IInv, NEW w \in Worker, BudgetExpenseDisburse(w), NEW c, c = work[w].call
  PROVE  /\ c \in Call /\ c.op = "disburse" /\ Busy(w) /\ Ready(w) /\ Viewed(w)
         /\ c.expense \in Expense /\ c.account \in Account /\ c.amount \in Amounts
         /\ Draft(c) = Movement(c.account, "OUT", c.amount, c.expense)
         /\ MovementRecord(Draft(c))
         /\ Holds(w, ExpenseRow(c.expense)) /\ Holds(w, AccountRow(c.account))
         /\ ~Posted(DraftId(c)) /\ DraftId(c)[1] = "disburse"
         /\ c.amount <= Cost[c.expense] - work[w].view.paid[c.expense]
         /\ Debited(c) = c.account /\ Focus(c) = c.account /\ Amount(c) = c.amount
         /\ c.amount <= work[w].view.balance[c.account]
         /\ ~StaleReader(c) => c.amount <= balance[c.account]
         /\ Liquid(w, c, Own(c))
         /\ Consumes(c) => Consumable(c)
  <1>1. /\ Ready(w) /\ Planned(w) /\ Busy(w) /\ Allowed(w) /\ ~Replayed(w)
        /\ c \in Call /\ WellFormed(c) /\ Grounded(c) /\ c.op = "disburse"
    BY Deciding DEF BudgetExpenseDisburse
  <1>2. /\ c.expense \in Expense /\ c.account \in Account /\ c.amount \in Amounts
        /\ c.amount \in Int
    BY <1>1, AmountOfCall, AmountsAreNat DEF WellFormed
  <1>3. /\ Draft(c) = Movement(c.account, "OUT", c.amount, c.expense)
        /\ MovementRecord(Draft(c)) /\ DraftId(c)[1] = "disburse"
    BY <1>1, DraftType DEF Draft, DraftId
  <1>4. Holds(w, ExpenseRow(c.expense)) /\ Holds(w, AccountRow(c.account)) /\ Viewed(w)
    BY <1>1, HeldForExpense DEF IInv
  <1>5. DisburseGuard(w, c)
    BY <1>1 DEF Allowed
  <1>6. ~Posted(DraftId(c))
    <2>1. SameOrNew(c)
      BY <1>4, <1>5 DEF DisburseGuard
    <2>2. ~(Holds(w, AccountRow(c.account)) /\ Served(c))
      BY <1>1 DEF Replayed
    <2> QED BY <1>4, <2>1, <2>2 DEF SameOrNew
  <1>7. /\ c.amount <= Cost[c.expense] - work[w].view.paid[c.expense]
        /\ Sufficient(w, c)
        /\ Liquid(w, c, Own(c))
        /\ Consumes(c) => Consumable(c)
    BY <1>1, <1>4, <1>5 DEF DisburseGuard
  <1>8. Debited(c) = c.account /\ Focus(c) = c.account /\ Amount(c) = c.amount
    BY <1>1 DEF Debited, Focus, Amount
  <1>9. ~StaleReader(c) => work[w].view.balance[c.account] = balance[c.account]
    BY <1>1, <1>2, <1>4, <1>8, TreasuryAssumption DEF IInv, FreshView, SeesFresh
  <1>10. work[w].view.balance[c.account] \in Int
    BY <1>1, <1>2, CallOfWorker DEF IInv, TypeOK, WorkRecord, ViewRecord
  <1>11. c.amount <= work[w].view.balance[c.account]
    BY <1>2, <1>4, <1>7, <1>8, <1>10 DEF Sufficient
  <1> QED BY <1>1, <1>2, <1>3, <1>4, <1>6, <1>7, <1>8, <1>9, <1>11

LEMMA PaidByDisbursement ==
  ASSUME IInv, NEW w \in Worker, BudgetExpenseDisburse(w), NEW c, c = work[w].call
  PROVE  /\ paid' = [paid EXCEPT ![c.expense] = @ + c.amount]
         /\ paid' \in [Expense -> Int]
         /\ \A e \in Expense : ~Holds(w, ExpenseRow(e)) => paid'[e] <= paid[e]
  <1>1. paid' = [paid EXCEPT ![c.expense] = @ + c.amount]
    BY DEF BudgetExpenseDisburse
  <1>2. c.expense \in Expense /\ c.amount \in Int /\ Holds(w, ExpenseRow(c.expense))
    BY DisbursementChecked, AmountsAreNat
  <1>3. paid \in [Expense -> Int]
    BY DEF IInv, TypeOK
  <1> QED BY <1>1, <1>2, <1>3

LEMMA PlainDisbursementSound ==
  ASSUME IInv, NEW w \in Worker, BudgetExpenseDisburse(w), ~Consumes(work[w].call)
  PROVE  Sound(w)
  <1> DEFINE c == work[w].call
             m == Draft(c)
  <1>1. /\ c \in Call /\ c.op = "disburse" /\ Busy(w) /\ Ready(w) /\ Viewed(w)
        /\ c.expense \in Expense /\ c.account \in Account /\ c.amount \in Amounts
        /\ m = Movement(c.account, "OUT", c.amount, c.expense) /\ MovementRecord(m)
        /\ Holds(w, AccountRow(c.account))
        /\ ~Posted(DraftId(c)) /\ DraftId(c)[1] = "disburse"
        /\ Liquid(w, c, Own(c))
        /\ Debited(c) = c.account /\ Focus(c) = c.account /\ Amount(c) = c.amount
    BY DisbursementChecked
  <1>2. m.account = c.account /\ m.direction = "OUT" /\ m.amount = c.amount
    BY <1>1 DEF Movement
  <1>3. /\ Post(DraftId(c), m) /\ End(w)
        /\ UNCHANGED <<isActive, approval, reservation, reserved, engaged>>
    BY DEF BudgetExpenseDisburse
  <1>4. ~IsLeg(DraftId(c))
    BY <1>1 DEF IsLeg
  <1>5. TypeOK' /\ LedgerShape' /\ ReservationShape' /\ Frame(w)
    BY <1>1, <1>2, <1>3, <1>4, PaidByDisbursement, PostingKeeps
  <1>6. c.amount \in Int /\ Own(c) = 0
    BY <1>1, AmountsAreNat DEF Own
  <1>7. Liquid(w, c, 0)
    BY <1>1, <1>6
  <1>8. ASSUME ~StaleReader(c) PROVE Cash!Prompt
    <2>1. c.amount <= balance[c.account] - (reserved[c.account] - 0)
      BY <1>1, <1>6, <1>7, <1>8, EnoughCash
    <2>2. m.amount <= balance[m.account] - reserved[m.account]
      BY <1>1, <1>2, <2>1 DEF IInv, TypeOK
    <2>3. SeenEarly' = SeenEarly
      BY <1>3, <1>8, PromptEnd
    <2> QED BY <1>1, <1>2, <1>3, <2>2, <2>3, WithdrawStep
  <1>9. ASSUME StaleReader(c) PROVE Cash!WithdrawLate(w, c.account, c.amount)
    <2> HIDE DEF m
    <2> QED BY <1>1, <1>2, <1>3, <1>7, <1>9, LateWithdrawStep
  <1> QED BY <1>1, <1>5, <1>8, <1>9 DEF Sound, LateTaken, Cash!Late

LEMMA ConsumingDisbursementSound ==
  ASSUME IInv, NEW w \in Worker, BudgetExpenseDisburse(w), Consumes(work[w].call)
  PROVE  Sound(w)
  <1> DEFINE c == work[w].call
             m == Draft(c)
             id == c.reservation
             r == reservation[id]
             new == Consumed(r, c.amount)
  <1>1. /\ c \in Call /\ c.expense \in Expense /\ c.account \in Account
        /\ c.amount \in Amounts /\ c.amount \in Nat
        /\ m = Movement(c.account, "OUT", c.amount, c.expense) /\ MovementRecord(m)
        /\ Holds(w, AccountRow(c.account))
        /\ ~Posted(DraftId(c)) /\ DraftId(c)[1] = "disburse"
        /\ ~StaleReader(c) => c.amount <= balance[c.account]
        /\ c.amount <= work[w].view.balance[c.account]
        /\ Consumable(c) /\ Debited(c) = c.account /\ Busy(w) /\ Viewed(w)
    BY DisbursementChecked, AmountsAreNat
  <1>2. m.account = c.account /\ m.direction = "OUT" /\ m.amount = c.amount
    BY <1>1 DEF Movement
  <1>3. /\ Post(DraftId(c), m) /\ End(w) /\ UpdateReservation(id, new)
        /\ UNCHANGED <<isActive, approval>>
    BY DEF BudgetExpenseDisburse
  <1>4. /\ id \in DOMAIN reservation /\ r.account = c.account
        /\ r.status = "ACTIVE" /\ c.amount <= r.active
    BY <1>1 DEF Consumable
  <1>5. r \in ReservationRecord /\ r.active <= r.initial
    BY <1>4 DEF IInv, TypeOK, ReservationShape
  <1>6. /\ new \in ReservationRecord /\ new.account = r.account
        /\ new.active <= new.initial
        /\ new.active > 0 <=> new.status = "ACTIVE"
        /\ ActiveAmount(new) - ActiveAmount(r) = 0 - c.amount
    BY <1>1, <1>4, <1>5, ConsumedType
  <1> HIDE DEF new
  <1>7. /\ DOMAIN reservation' = DOMAIN reservation
        /\ \A x \in DOMAIN reservation' :
              /\ reservation'[x] \in ReservationRecord
              /\ reservation'[x].account = reservation[x].account
        /\ reserved' \in [Account -> Int]
        /\ engaged' \in [Expense -> Int]
        /\ ReservationShape'
        /\ \A a \in Account : a # c.account => reserved'[a] = reserved[a]
    BY <1>3, <1>4, <1>6, UpdateKeeps
  <1>8. /\ \A x \in DOMAIN ledger' : MovementRecord(ledger[x])'
        /\ balance' \in [Account -> Int]
    BY <1>1, <1>3, PostTypeOK DEF IInv
  <1>9. /\ lock' \in [Row -> Worker \cup {None}]
        /\ sharing' \subseteq Worker
        /\ work' \in [Worker -> WorkRecord]
    BY <1>3, EndTypeOK DEF IInv
  <1>10. TypeOK'
    BY <1>3, <1>7, <1>8, <1>9, PaidByDisbursement DEF IInv, TypeOK
  <1>11. LedgerShape'
    <2>1. ~IsLeg(DraftId(c)) /\ DraftId(c)[1] # "reversal"
      BY <1>1 DEF IsLeg
    <2> QED BY <1>1, <1>3, <2>1, PostShape DEF IInv
  <1>12. Frame(w)
    <2>1. Extends
      BY <1>1, <1>3, <1>7, PostExtends DEF Extends
    <2>2. \A a \in Account : a # c.account => balance'[a] = balance[a]
      BY <1>2, <1>3 DEF Post, IInv, TypeOK
    <2>3. \A a \in Account : ~Holds(w, AccountRow(a)) =>
             balance'[a] = balance[a] /\ reserved'[a] = reserved[a]
      BY <1>1, <1>7, <2>2
    <2> QED BY <1>3, <2>1, <2>3, PaidByDisbursement DEF Frame
  <1>13. ASSUME ~StaleReader(c) PROVE Cash!Prompt
    <2>1. SeenEarly' = SeenEarly
      BY <1>3, <1>13, PromptEnd
    <2> QED BY <1>1, <1>2, <1>3, <1>4, <1>6, <1>13, <2>1, SpendStep
  <1>14. ASSUME StaleReader(c) PROVE Cash!SpendLate(w, c.account, c.amount)
    <2>1. SeenEarly[w] = work[w].view.balance /\ SeenEarly[w] # None
      BY <1>1, <1>14, LateSeen
    <2>2. SeenEarly' = [SeenEarly EXCEPT ![w] = None]
      BY <1>3, EndSeen
    <2>3. balance[c.account] \in Int /\ reserved[c.account] \in Int
      BY <1>1 DEF IInv, TypeOK
    <2>4. balance[c.account] + Signed(m) = balance[c.account] - c.amount
      BY <1>1, <1>2, <2>3 DEF Signed
    <2>5. balance' = [balance EXCEPT ![c.account] = balance[c.account] + Signed(m)]
      BY <1>2, <1>3 DEF Post
    <2>6. reserved' = [reserved EXCEPT ![c.account] = reserved[c.account] + (0 - c.amount)]
      BY <1>3, <1>4, <1>6 DEF UpdateReservation
    <2>7. reserved[c.account] + (0 - c.amount) = reserved[c.account] - c.amount
      BY <1>1, <2>3
    <2> HIDE DEF m
    <2> QED BY <1>1, <2>1, <2>2, <2>4, <2>5, <2>6, <2>7 DEF Cash!SpendLate
  <1> QED BY <1>1, <1>7, <1>10, <1>11, <1>12, <1>13, <1>14 DEF Sound, LateTaken, Cash!Late

LEMMA AccountStatusSound ==
  ASSUME IInv, NEW w \in Worker, AccountStatus(w)
  PROVE  Sound(w)
  <1> DEFINE c == work[w].call
  <1>1. c \in Call /\ WellFormed(c) /\ c.op = "status"
    BY Deciding DEF AccountStatus
  <1>2. isActive' \in [Account -> BOOLEAN]
    <2>1. c.active \in BOOLEAN
      BY <1>1 DEF WellFormed
    <2>2. isActive' = [isActive EXCEPT ![c.account] = c.active]
      BY DEF AccountStatus
    <2> QED BY <2>1, <2>2, Zenon DEF IInv, TypeOK
  <1>3. End(w) /\ UNCHANGED <<approval, ledger, reservation, balance, reserved, engaged, paid>>
    BY DEF AccountStatus, totals
  <1>4. /\ lock' \in [Row -> Worker \cup {None}]
        /\ sharing' \subseteq Worker
        /\ work' \in [Worker -> WorkRecord]
    BY <1>3, EndTypeOK DEF IInv
  <1>5. TypeOK'
    BY <1>2, <1>3, <1>4 DEF IInv, TypeOK, MovementRecord
  <1>6. LedgerShape' /\ ReservationShape'
    BY <1>3 DEF IInv, LedgerShape, ReservationShape, Posted
  <1>7. Frame(w)
    BY <1>3 DEF Frame, Extends, IInv, TypeOK
  <1>8. ~StaleReader(c)
    BY <1>1 DEF StaleReader, ReadsScopeFirst
  <1>9. SeenEarly' = SeenEarly
    BY <1>3, <1>8, PromptEnd
  <1> QED BY <1>3, <1>5, <1>6, <1>7, <1>8, <1>9 DEF Sound

LEMMA CancelExpenseSound ==
  ASSUME IInv, NEW w \in Worker, CancelExpense(w)
  PROVE  Sound(w)
  <1>1. approval' \in [Expense -> {"approved", "cancelled"}]
    BY DEF CancelExpense, IInv, TypeOK
  <1>2. End(w) /\ UNCHANGED <<isActive, ledger, reservation, balance, reserved, engaged, paid>>
    BY DEF CancelExpense, totals
  <1>3. /\ lock' \in [Row -> Worker \cup {None}]
        /\ sharing' \subseteq Worker
        /\ work' \in [Worker -> WorkRecord]
    BY <1>2, EndTypeOK DEF IInv
  <1>4. TypeOK'
    BY <1>1, <1>2, <1>3 DEF IInv, TypeOK, MovementRecord
  <1>5. LedgerShape' /\ ReservationShape'
    BY <1>2 DEF IInv, LedgerShape, ReservationShape, Posted
  <1>6. Frame(w)
    BY <1>2 DEF Frame, Extends, IInv, TypeOK
  <1>7. ~StaleReader(work[w].call)
    <2>1. work[w].call.op = "cancel expense"
      BY DEF CancelExpense, Decides
    <2> QED BY <2>1 DEF StaleReader, ReadsScopeFirst
  <1>8. SeenEarly' = SeenEarly
    BY <1>2, <1>7, PromptEnd
  <1> QED BY <1>2, <1>4, <1>5, <1>6, <1>7, <1>8 DEF Sound

LEMMA CreateReservationSound ==
  ASSUME IInv, NEW w \in Worker, CreateReservation(w)
  PROVE  Sound(w)
  <1> DEFINE c == work[w].call
             new == [account |-> c.account, expense |-> c.expense, creator |-> c.user,
                     initial |-> c.amount, active |-> 0, status |-> "DRAFT"]
  <1>1. /\ Ready(w) /\ Planned(w) /\ ~Replayed(w)
        /\ c \in Call /\ WellFormed(c) /\ c.op = "reserve"
    BY Deciding DEF CreateReservation
  <1>2. /\ c.reservation \in Reservation /\ c.account \in Account /\ c.expense \in Expense
        /\ c.user \in User /\ c.amount \in Amounts \ {0}
    BY <1>1, AmountOfCall DEF WellFormed
  <1>3. new \in ReservationRecord
    BY <1>2, Statuses DEF ReservationRecord
  <1>4. c.reservation \notin DOMAIN reservation
    BY <1>1, HeldForExpense DEF IInv, Replayed
  <1>5. /\ reservation' = Insert(reservation, c.reservation, new)
        /\ End(w)
        /\ UNCHANGED <<isActive, approval, ledger, balance, reserved, engaged, paid>>
    BY DEF CreateReservation, totals
  <1>6. /\ DOMAIN reservation' = DOMAIN reservation \cup {c.reservation}
        /\ reservation'[c.reservation] = new
        /\ \A r \in DOMAIN reservation : reservation'[r] = reservation[r]
    <2> HIDE DEF new
    <2> QED BY <1>4, <1>5 DEF Insert
  <1>7. new.active = 0 /\ new.status = "DRAFT" /\ new.initial \in Nat /\ new.active <= new.initial
    BY <1>2, AmountsAreNat
  <1> HIDE DEF new
  <1>8. /\ lock' \in [Row -> Worker \cup {None}]
        /\ sharing' \subseteq Worker
        /\ work' \in [Worker -> WorkRecord]
    BY <1>5, EndTypeOK DEF IInv
  <1>9. TypeOK'
    BY <1>2, <1>3, <1>5, <1>6, <1>8 DEF IInv, TypeOK, MovementRecord
  <1>10. LedgerShape'
    BY <1>5 DEF IInv, LedgerShape, Posted
  <1>11. ReservationShape'
    BY <1>6, <1>7 DEF IInv, ReservationShape
  <1>12. Frame(w)
    BY <1>5, <1>6 DEF Frame, Extends, IInv, TypeOK
  <1>13. ~StaleReader(c)
    BY <1>1 DEF StaleReader, ReadsScopeFirst
  <1>14. SeenEarly' = SeenEarly
    BY <1>5, <1>13, PromptEnd
  <1> QED BY <1>5, <1>9, <1>10, <1>11, <1>12, <1>13, <1>14 DEF Sound

-----------------------------------------------------------------------------
(* The theorems.                                                           *)

LEMMA DecideSound ==
  ASSUME IInv, NEW w \in Worker, Decide(w)
  PROVE  Sound(w)
  <1>1. CASE ManualOperation(w)
    BY <1>1, ManualOperationSound
  <1>2. CASE PostAutomaticMovement(w)
    BY <1>2, PostAutomaticMovementSound
  <1>3. CASE PostPaymentRefundMovement(w)
    BY <1>3, PostPaymentRefundMovementSound
  <1>4. CASE BudgetExpenseDisburse(w)
    BY <1>4, PlainDisbursementSound, ConsumingDisbursementSound
  <1>5. CASE MakeTransfer(w)
    BY <1>5, MakeTransferSound
  <1>6. CASE Reverse(w)
    BY <1>6, ReverseSound
  <1>7. CASE ReverseTransfer(w)
    BY <1>7, ReverseTransferSound
  <1>8. CASE AccountStatus(w)
    BY <1>8, AccountStatusSound
  <1>9. CASE CreateReservation(w)
    BY <1>9, CreateReservationSound
  <1>10. CASE \/ SubmitReservation(w) \/ RejectReservation(w) \/ CancelReservation(w)
              \/ ExpireReservation(w) \/ AdjustReservation(w) \/ ReleaseReservation(w)
    BY <1>10, ReservationOpsSound
  <1>11. CASE ApproveReservation(w)
    BY <1>11, ApproveReservationSound
  <1>12. CASE CancelExpense(w)
    BY <1>12, CancelExpenseSound
  <1> QED BY <1>1, <1>2, <1>3, <1>4, <1>5, <1>6, <1>7, <1>8, <1>9, <1>10, <1>11, <1>12
          DEF Decide

LEMMA AbortSound ==
  ASSUME IInv, NEW w \in Worker, End(w), UNCHANGED tables
  PROVE  TypeOK' /\ LedgerShape' /\ ReservationShape' /\ Frame(w)
  <1>1. TypeOK'
    BY RefusalTypeOK DEF IInv
  <1>2. Extends /\ LedgerShape' /\ ReservationShape'
    BY SameTables
  <1>3. Frame(w)
    BY <1>2 DEF Frame, tables, IInv, TypeOK
  <1> QED BY <1>1, <1>2, <1>3

LEMMA InitInv == Init => IInv
  <1> SUFFICES ASSUME Init PROVE IInv
    OBVIOUS
  <1>1. TypeOK
    BY InitTypeOK
  <1>2. \A w \in Worker : ~Busy(w)
    BY DEF Init, Busy, Idle
  <1>3. PlanFollowed /\ FreshView /\ FreshPaid
    BY <1>2 DEF PlanFollowed, FollowsPlan, FreshView, SeesFresh, FreshPaid, SeesPaid
  <1>4. LedgerShape /\ ReservationShape
    BY DEF Init, LedgerShape, ReservationShape
  <1> QED BY <1>1, <1>3, <1>4 DEF IInv

(* A step of w: it changes no table, or it is a decision.                  *)
LEMMA Steps ==
  ASSUME [Next]_vars
  PROVE  \/ UNCHANGED vars
         \/ \E w \in Worker : \/ \E c \in Call : Begin(w, c)
                              \/ LockRow(w)
                              \/ ShareConcession(w)
                              \/ OpenView(w)
                              \/ End(w) /\ UNCHANGED tables
                              \/ Decide(w)
  BY DEF Next, Advance, Refuse, Replay, DeadlockVictim, Crash

LEMMA NextInv ==
  ASSUME IInv, [Next]_vars
  PROVE  IInv'
  <1>1. ASSUME UNCHANGED tables, UNCHANGED <<lock, work>>, sharing' \subseteq Worker
        PROVE  IInv'
    <2>1. UNCHANGED tables /\ UNCHANGED lock /\ UNCHANGED work /\ sharing' \subseteq Worker
      BY <1>1
    <2>2. Extends /\ LedgerShape' /\ ReservationShape'
      BY <2>1, SameTables
    <2>3. TypeOK'
      BY <2>1 DEF IInv, TypeOK, tables, MovementRecord
    <2>4. \A x \in Worker : Untouched(x)
      BY <2>1, <2>2 DEF Untouched, tables, Holds, IInv, TypeOK
    <2> QED BY <2>2, <2>3, <2>4, UntouchedFollowsPlan, UntouchedSeesFresh, UntouchedSeesPaid
            DEF IInv, PlanFollowed, FreshView, FreshPaid
  <1>2. ASSUME NEW w \in Worker, NEW c \in Call, Begin(w, c)
        PROVE  IInv'
    BY <1>2, BeginInv
  <1>3. ASSUME NEW w \in Worker, LockRow(w)
        PROVE  IInv'
    BY <1>3, LockRowInv
  <1>4. ASSUME NEW w \in Worker, OpenView(w)
        PROVE  IInv'
    BY <1>4, OpenViewInv
  <1>5. ASSUME NEW w \in Worker, End(w), UNCHANGED tables
        PROVE  IInv'
    BY <1>5, AbortSound, FrameInv DEF IInv
  <1>6. ASSUME NEW w \in Worker, Decide(w)
        PROVE  IInv'
    BY <1>6, DecideSound, FrameInv DEF IInv, Sound
  <1>7. CASE UNCHANGED vars
    <2>1. UNCHANGED tables /\ UNCHANGED <<lock, work>> /\ sharing' \subseteq Worker
      BY <1>7 DEF vars, tables, IInv, TypeOK
    <2> QED BY <1>1, <2>1
  <1>8. ASSUME NEW w \in Worker, ShareConcession(w)
        PROVE  IInv'
    <2>1. UNCHANGED tables /\ UNCHANGED <<lock, work>> /\ sharing' \subseteq Worker
      BY <1>8 DEF ShareConcession, IInv, TypeOK
    <2> QED BY <1>1, <2>1
  <1> QED BY <1>2, <1>3, <1>4, <1>5, <1>6, <1>7, <1>8, Steps

(* Every request finds the tables, the locks and its own snapshot as the   *)
(* invariant says, at each of its statements and whatever runs beside it.  *)
THEOREM Invariance == Spec => []IInv
  BY InitInv, NextInv, PTL DEF Spec

(* The tables, locks and workers keep their types.                         *)
THEOREM TypeCorrect == Spec => []TypeOK
  <1>1. IInv => TypeOK
    BY DEF IInv
  <1> QED BY <1>1, Invariance, PTL

(* The lock-then-read discipline: what an operation has seen is still so.  *)
THEOREM ViewsStayFresh == Spec => []FreshView
  <1>1. IInv => FreshView
    BY DEF IInv
  <1> QED BY <1>1, Invariance, PTL

(* An ACTIVE reservation holds part of what was approved, and one that is  *)
(* not ACTIVE holds nothing (reservationEvent, consumeReservation).        *)
THEOREM ReservationsKeepShape == Spec => []ReservationShape
  <1>1. IInv => ReservationShape
    BY DEF IInv
  <1> QED BY <1>1, Invariance, PTL

(* Refinement.  A step that is no decision changes no cash: at most a      *)
(* stale reader looks at the balances, or forgets them.                    *)
LookOrForget == \E w \in Worker : Cash!Look(w) \/ Cash!Forget(w)

LEMMA QuietStep ==
  ASSUME IInv, UNCHANGED tables, NEW w \in Worker,
         \A x \in Worker : x # w => work'[x] = work[x],
         \/ Seen(w)' = Seen(w)
         \/ Seen(w)' = None
         \/ Seen(w)' = balance
  PROVE  UNCHANGED <<balance, reserved, SeenEarly>> \/ LookOrForget
  <1>1. \A x \in Worker : x # w => Seen(x)' = Seen(x)
    BY SeenSame
  <1>2. UNCHANGED <<balance, reserved>>
    BY DEF tables
  <1>3. CASE Seen(w)' = Seen(w)
    BY <1>1, <1>2, <1>3 DEF SeenEarly
  <1>4. CASE Seen(w)' = None
    <2>1. SeenEarly' = [SeenEarly EXCEPT ![w] = None]
      BY <1>1, <1>4 DEF SeenEarly
    <2> QED BY <1>2, <2>1 DEF LookOrForget, Cash!Forget
  <1>5. CASE Seen(w)' = balance
    <2>1. SeenEarly' = [SeenEarly EXCEPT ![w] = balance]
      BY <1>1, <1>5 DEF SeenEarly
    <2> QED BY <1>2, <2>1 DEF LookOrForget, Cash!Look
  <1> QED BY <1>3, <1>4, <1>5

LEMMA CashStep ==
  ASSUME IInv, [Next]_vars
  PROVE  \/ UNCHANGED <<balance, reserved, SeenEarly>>
         \/ LookOrForget
         \/ Cash!Prompt
         \/ \E w \in Worker : /\ Busy(w) /\ ~Busy(w)' /\ StaleReader(work[w].call)
                              /\ LateTaken(w)
  <1>1. CASE UNCHANGED vars
    <2>1. \A x \in Worker : Seen(x)' = Seen(x)
      BY <1>1, SeenSame DEF vars
    <2> QED BY <1>1, <2>1 DEF vars, SeenEarly
  <1>2. ASSUME NEW w \in Worker, NEW c \in Call, Begin(w, c)
        PROVE  UNCHANGED <<balance, reserved, SeenEarly>> \/ LookOrForget
    <2>1. Seen(w)' = None
      BY <1>2 DEF Begin, IInv, TypeOK, Seen, Viewed, Idle
    <2>2. \A x \in Worker : x # w => work'[x] = work[x]
      BY <1>2 DEF Begin, IInv, TypeOK
    <2> QED BY <1>2, <2>1, <2>2, QuietStep DEF Begin
  <1>3. ASSUME NEW w \in Worker, LockRow(w)
        PROVE  UNCHANGED <<balance, reserved, SeenEarly>> \/ LookOrForget
    <2>1. /\ work'[w].call = work[w].call /\ work'[w].viewed = work[w].viewed
          /\ work'[w].view = work[w].view
          /\ \A x \in Worker : x # w => work'[x] = work[x]
      BY <1>3 DEF LockRow, IInv, TypeOK, WorkRecord
    <2>2. Seen(w)' = Seen(w)
      BY <2>1 DEF Seen, Busy, Viewed, StaleReader, ReadsScopeFirst
    <2> QED BY <1>3, <2>1, <2>2, QuietStep DEF LockRow
  <1>4. ASSUME NEW w \in Worker, OpenView(w)
        PROVE  UNCHANGED <<balance, reserved, SeenEarly>> \/ LookOrForget
    <2>1. /\ work'[w].call = work[w].call /\ work'[w].view = Snapshot
          /\ \A x \in Worker : x # w => work'[x] = work[x]
      BY <1>4 DEF OpenView, IInv, TypeOK
    <2>2. Seen(w)' \in {None, balance}
      BY <2>1 DEF Seen, Snapshot
    <2> QED BY <1>4, <2>1, <2>2, QuietStep DEF OpenView
  <1>5. ASSUME NEW w \in Worker, End(w), UNCHANGED tables
        PROVE  UNCHANGED <<balance, reserved, SeenEarly>> \/ LookOrForget
    <2>1. ~Busy(w)' /\ \A x \in Worker : x # w => work'[x] = work[x]
      BY <1>5 DEF IInv, TypeOK, End, Busy, Idle
    <2>2. Seen(w)' = None
      BY <2>1 DEF Seen
    <2> QED BY <1>5, <2>1, <2>2, QuietStep
  <1>6. ASSUME NEW w \in Worker, ShareConcession(w)
        PROVE  UNCHANGED <<balance, reserved, SeenEarly>> \/ LookOrForget
    <2>1. work' = work
      BY <1>6 DEF ShareConcession
    <2> QED BY <1>6, <2>1, SeenSame, QuietStep DEF ShareConcession
  <1>7. ASSUME NEW w \in Worker, Decide(w)
        PROVE  \/ UNCHANGED <<balance, reserved, SeenEarly>>
               \/ Cash!Prompt
               \/ Busy(w) /\ ~Busy(w)' /\ StaleReader(work[w].call) /\ LateTaken(w)
    <2>1. Busy(w)
      BY <1>7 DEF Decide, ManualOperation, PostAutomaticMovement, PostPaymentRefundMovement,
            BudgetExpenseDisburse, MakeTransfer, Reverse, ReverseTransfer, AccountStatus,
            CreateReservation, SubmitReservation, ApproveReservation, RejectReservation,
            CancelReservation, ExpireReservation, AdjustReservation, ReleaseReservation,
            ChangeReservation, CancelExpense, Decides, Proceeds
    <2>2. Sound(w)
      BY <1>7, DecideSound
    <2>3. ~Busy(w)'
      BY <2>2 DEF Sound, Frame, IInv, TypeOK, End, Busy, Idle
    <2> QED BY <2>1, <2>2, <2>3 DEF Sound
  <1> QED BY <1>1, <1>2, <1>3, <1>4, <1>5, <1>6, <1>7, Steps

(* Concurrent requests change the cash as a ledger that handles them one   *)
(* by one would: every path of postMovement reads the sums under the       *)
(* account's lock, but refunds, reversals of a debit leg and disbursements *)
(* with the scope CONCESSION, which are held to what they saw.             *)
THEOREM CashLedgerImplemented == Spec => ImplementsCashLedger
  <1>1. Init => Cash!Init
    <2> SUFFICES ASSUME Init PROVE Cash!Init
      OBVIOUS
    <2>1. \A w \in Worker : Seen(w) = None
      BY DEF Init, Seen, Busy, Idle
    <2> QED BY <2>1 DEF Init, Cash!Init, SeenEarly
  <1>2. IInv /\ [Next]_vars => [Cash!Next]_Cash!vars
    <2> SUFFICES ASSUME IInv, [Next]_vars PROVE [Cash!Next]_Cash!vars
      OBVIOUS
    <2>1. LookOrForget => Cash!Next
      BY DEF LookOrForget, Cash!Next
    <2>2. ASSUME NEW w \in Worker, LateTaken(w) PROVE Cash!Next
      BY <2>2 DEF LateTaken, Cash!Next
    <2>3. Cash!Prompt => Cash!Next
      BY DEF Cash!Next
    <2> QED BY <2>1, <2>2, <2>3, CashStep DEF Cash!vars
  <1> QED BY <1>1, <1>2, Invariance, PTL DEF Spec, ImplementsCashLedger, Cash!Spec

(* A prompt step takes no more than is free, and a late one only from the  *)
(* account it debits.                                                      *)
LEMMA PromptInFunds ==
  ASSUME TypeOK, Cash!Prompt, NEW b \in Account
  PROVE  Free(b)' >= Free(b) \/ Free(b)' >= 0
  <1>1. PICK a \in Account, n \in Amounts :
          \/ Cash!Deposit(a, n)
          \/ Cash!Withdraw(a, n)
          \/ \E c \in Account : Cash!Move(a, c, n)
          \/ Cash!SetAside(a, n)
          \/ Cash!GiveBack(a, n)
          \/ Cash!Spend(a, n)
    BY DEF Cash!Prompt
  <1>2. n \in Nat /\ balance \in [Account -> Int] /\ reserved \in [Account -> Int]
    BY AmountsAreNat DEF TypeOK
  <1>3. CASE \E c \in Account : Cash!Move(a, c, n)
    BY <1>2, <1>3 DEF Free, Cash!Move, Cash!Free
  <1>4. CASE Cash!Deposit(a, n) \/ Cash!Withdraw(a, n)
    BY <1>2, <1>4 DEF Free, Cash!Deposit, Cash!Withdraw, Cash!Free
  <1>5. CASE Cash!SetAside(a, n) \/ Cash!GiveBack(a, n)
    BY <1>2, <1>5 DEF Free, Cash!SetAside, Cash!GiveBack, Cash!Free
  <1>6. CASE Cash!Spend(a, n)
    BY <1>2, <1>6 DEF Free, Cash!Spend
  <1> QED BY <1>1, <1>3, <1>4, <1>5, <1>6

LEMMA LateElsewhere ==
  ASSUME TypeOK, NEW w \in Worker, LateTaken(w),
         NEW b \in Account, b # Debited(work[w].call)
  PROVE  Free(b)' >= Free(b)
  <1>1. PICK n \in Amounts : Cash!Late(w, Debited(work[w].call), n)
    BY DEF LateTaken
  <1> DEFINE a == Debited(work[w].call)
  <1>2. n \in Nat /\ balance \in [Account -> Int] /\ reserved \in [Account -> Int]
    BY AmountsAreNat DEF TypeOK
  <1> HIDE DEF a
  <1>3. CASE \E c \in Account : Cash!MoveLate(w, a, c, n)
    BY <1>2, <1>3 DEF Free, Cash!MoveLate, a
  <1>4. CASE Cash!WithdrawLate(w, a, n) \/ Cash!SpendLate(w, a, n)
    BY <1>2, <1>4 DEF Free, Cash!WithdrawLate, Cash!SpendLate, a
  <1> QED BY <1>1, <1>3, <1>4 DEF Cash!Late, a

(* Free cash falls below zero only where a refund, the reversal of a debit *)
(* leg or a disbursement with the scope CONCESSION takes it: no other      *)
(* interleaving of outflows and reservations overspends an account.        *)
THEOREM OnlyLateOverspends == Spec => OverspentOnlyLate
  <1>1. IInv /\ [Next]_vars =>
           \A a \in Account :
              Free(a)' < Free(a) /\ Free(a)' < 0 => \E w \in Worker : LateOutflow(w, a)
    <2> SUFFICES ASSUME IInv, [Next]_vars, NEW a \in Account,
                        Free(a)' < Free(a), Free(a)' < 0
                 PROVE  \E w \in Worker : LateOutflow(w, a)
      OBVIOUS
    <2>1. TypeOK /\ TypeOK'
      BY NextInv DEF IInv
    <2>2. Free(a) \in Int /\ Free(a)' \in Int
      BY <2>1 DEF TypeOK, Free
    <2>3. ~UNCHANGED <<balance, reserved, SeenEarly>>
      BY <2>2 DEF Free
    <2>4. ~LookOrForget
      BY <2>2 DEF LookOrForget, Cash!Look, Cash!Forget, Free
    <2>5. ~Cash!Prompt
      BY <2>1, <2>2, PromptInFunds
    <2>6. PICK w \in Worker : /\ Busy(w) /\ ~Busy(w)' /\ StaleReader(work[w].call)
                              /\ LateTaken(w)
      BY <2>3, <2>4, <2>5, CashStep
    <2>7. Debited(work[w].call) = a
      BY <2>1, <2>2, <2>6, LateElsewhere
    <2> QED BY <2>6, <2>7 DEF LateOutflow
  <1> QED BY <1>1, Invariance, PTL DEF Spec, OverspentOnlyLate

(* An expense is never paid more than its amount.                          *)
LEMMA DecidePaid ==
  ASSUME IInv, PaidWithinCost, NEW w \in Worker, Decide(w)
  PROVE  PaidWithinCost'
  <1>1. CASE BudgetExpenseDisburse(w)
    <2> DEFINE c == work[w].call
    <2>1. /\ c \in Call /\ c.op = "disburse" /\ Busy(w) /\ Viewed(w) /\ c.expense \in Expense
          /\ c.amount \in Amounts
          /\ c.amount <= Cost[c.expense] - work[w].view.paid[c.expense]
      BY <1>1, DisbursementChecked
    <2>2. paid[c.expense] <= work[w].view.paid[c.expense]
      BY <2>1 DEF IInv, FreshPaid, SeesPaid
    <2>3. paid' = [paid EXCEPT ![c.expense] = @ + c.amount]
      BY <1>1, PaidByDisbursement
    <2>4. /\ c.amount \in Int /\ paid \in [Expense -> Int]
          /\ Cost[c.expense] \in Int /\ work[w].view.paid[c.expense] \in Int
      BY <2>1, AmountsAreNat, CallOfWorker, TreasuryAssumption DEF IInv, TypeOK, ViewRecord
    <2>5. paid[c.expense] + c.amount <= Cost[c.expense]
      BY <2>1, <2>2, <2>4
    <2> QED BY <2>1, <2>3, <2>4, <2>5 DEF PaidWithinCost
  <1>2. CASE Reverse(w)
    <2>1. \A e \in Expense : paid'[e] <= paid[e] /\ paid'[e] \in Int /\ paid[e] \in Int
                             /\ Cost[e] \in Int
      BY <1>2, ReversalLowersPaid, TreasuryAssumption DEF IInv, TypeOK
    <2> QED BY <2>1 DEF PaidWithinCost
  <1>3. CASE ~BudgetExpenseDisburse(w) /\ ~Reverse(w)
    <2>1. UNCHANGED paid
      BY <1>3 DEF Decide, ManualOperation, PostAutomaticMovement, PostPaymentRefundMovement,
            MakeTransfer, ReverseTransfer, AccountStatus, CreateReservation, SubmitReservation,
            ApproveReservation, RejectReservation, CancelReservation, ExpireReservation,
            AdjustReservation, ReleaseReservation, ChangeReservation, CancelExpense, totals
    <2> QED BY <2>1 DEF PaidWithinCost
  <1> QED BY <1>1, <1>2, <1>3

(* Disbursements that stand never exceed the amount of their expense,      *)
(* through whichever route: budgetExpenseDisburse sums them under the      *)
(* expense's lock.                                                         *)
THEOREM ExpensesNotOverpaid == Spec => []PaidWithinCost
  <1>1. Init => PaidWithinCost
    BY TreasuryAssumption DEF Init, PaidWithinCost
  <1>2. IInv /\ PaidWithinCost /\ [Next]_vars => PaidWithinCost'
    <2> SUFFICES ASSUME IInv, PaidWithinCost, [Next]_vars PROVE PaidWithinCost'
      OBVIOUS
    <2>1. ASSUME NEW w \in Worker, Decide(w) PROVE PaidWithinCost'
      BY <2>1, DecidePaid
    <2>2. ASSUME UNCHANGED paid PROVE PaidWithinCost'
      BY <2>2 DEF PaidWithinCost
    <2> QED BY <2>1, <2>2, Steps DEF Begin, LockRow, ShareConcession, OpenView, tables, vars
  <1> QED BY <1>1, <1>2, Invariance, PTL DEF Spec

-----------------------------------------------------------------------------
(* Reservations that have ended, and what is left of those that have not.  *)

(* What a step does to every reservation (the action NeverRevived boxes).  *)
Kept ==
  \A r \in DOMAIN reservation :
     /\ r \in DOMAIN reservation'
     /\ reservation[r].status \in Terminal => reservation'[r] = reservation[r]
     /\ reservation[r].status = "ACTIVE" => reservation'[r].active <= reservation[r].active

LEMMA UnchangedKept ==
  ASSUME TypeOK, UNCHANGED reservation
  PROVE  Kept
  BY DEF Kept, TypeOK, ReservationRecord

(* A change of one reservation that has not ended.                         *)
LEMMA UpdateKept ==
  ASSUME TypeOK, NEW id \in DOMAIN reservation, NEW new,
         reservation' = [reservation EXCEPT ![id] = new],
         reservation[id].status \notin Terminal,
         reservation[id].status = "ACTIVE" => new.active <= reservation[id].active
  PROVE  Kept
  <1> SUFFICES ASSUME NEW r \in DOMAIN reservation
               PROVE  /\ r \in DOMAIN reservation'
                      /\ reservation[r].status \in Terminal => reservation'[r] = reservation[r]
                      /\ reservation[r].status = "ACTIVE" =>
                            reservation'[r].active <= reservation[r].active
    BY DEF Kept
  <1>1. CASE r = id
    BY <1>1
  <1>2. CASE r # id
    <2>1. reservation'[r] = reservation[r] /\ reservation[r].active \in Nat
      BY <1>2 DEF TypeOK, ReservationRecord
    <2> QED BY <2>1
  <1> QED BY <1>1, <1>2

(* No operation applies to a reservation that has ended.                   *)
LEMMA NotEnded ==
  ASSUME IInv, NEW w \in Worker, NEW op \in ReservationOps, Decides(w, op),
         NEW r, r = reservation[work[w].call.reservation]
  PROVE  /\ r.status \notin Terminal
         /\ op = "approve" => r.status # "ACTIVE"
  <1> DEFINE c == work[w].call
  <1>1. /\ Planned(w) /\ Busy(w) /\ Allowed(w)
        /\ c \in Call /\ WellFormed(c) /\ Grounded(c) /\ c.op = op
    BY Deciding
  <1>2. ReservationGuard(w, c)
    BY <1>1 DEF Allowed
  <1>3. Holds(w, AccountRow(r.account))
    BY <1>1, HeldByReservationOp DEF IInv
  <1> QED BY <1>1, <1>2, <1>3, Statuses DEF ReservationGuard, Terminal

LEMMA ChangeKept ==
  ASSUME IInv, NEW w \in Worker, NEW op \in ReservationOps, NEW status, NEW active,
         ChangeReservation(w, op, status, active), Decides(w, op),
         NEW r, r = reservation[work[w].call.reservation],
         r.status = "ACTIVE" => active <= r.active
  PROVE  Kept
  <1> DEFINE id == work[w].call.reservation
             new == [reservation[id] EXCEPT !.status = status, !.active = active]
  <1>1. Grounded(work[w].call) /\ work[w].call.op = op
    BY Deciding
  <1>2. id \in DOMAIN reservation
    BY <1>1 DEF Grounded
  <1>3. new.active = active
    BY <1>2 DEF IInv, TypeOK, ReservationRecord
  <1>4. reservation' = [reservation EXCEPT ![id] = new]
    BY DEF ChangeReservation, UpdateReservation
  <1> HIDE DEF new
  <1> QED BY <1>2, <1>3, <1>4, NotEnded, UpdateKept DEF IInv

LEMMA ReservationOpsKept ==
  ASSUME IInv, NEW w \in Worker,
         \/ SubmitReservation(w) \/ ApproveReservation(w) \/ RejectReservation(w)
         \/ CancelReservation(w) \/ ExpireReservation(w) \/ AdjustReservation(w)
         \/ ReleaseReservation(w)
  PROVE  Kept
  <1> DEFINE c == work[w].call
             r == reservation[c.reservation]
  <1>1. CASE SubmitReservation(w)
    <2>1. ChangeReservation(w, "submit", "SUBMITTED", r.active) /\ Decides(w, "submit")
      BY <1>1 DEF SubmitReservation, Target, ChangeReservation
    <2>2. r.active <= r.active
      BY <2>1, ReservationChecked, Statuses
    <2> QED BY <2>1, <2>2, ChangeKept, Statuses
  <1>2. CASE ApproveReservation(w)
    <2>1. ChangeReservation(w, "approve", "ACTIVE", r.initial) /\ Decides(w, "approve")
      BY <1>2 DEF ApproveReservation, Target, ChangeReservation
    <2>2. r.status # "ACTIVE"
      BY <2>1, NotEnded, Statuses
    <2> QED BY <2>1, <2>2, ChangeKept, Statuses
  <1>3. CASE RejectReservation(w)
    <2>1. ChangeReservation(w, "reject", "REJECTED", r.active) /\ Decides(w, "reject")
      BY <1>3 DEF RejectReservation, Target, ChangeReservation
    <2>2. r.active <= r.active
      BY <2>1, ReservationChecked, Statuses
    <2> QED BY <2>1, <2>2, ChangeKept, Statuses
  <1>4. CASE CancelReservation(w)
    <2>1. ChangeReservation(w, "withdraw", "CANCELLED", 0) /\ Decides(w, "withdraw")
      BY <1>4 DEF CancelReservation, ChangeReservation
    <2>2. 0 <= r.active
      BY <2>1, ReservationChecked, Statuses
    <2> QED BY <2>1, <2>2, ChangeKept, Statuses
  <1>5. CASE ExpireReservation(w)
    <2>1. ChangeReservation(w, "expire", "EXPIRED", 0) /\ Decides(w, "expire")
      BY <1>5 DEF ExpireReservation, ChangeReservation
    <2>2. 0 <= r.active
      BY <2>1, ReservationChecked, Statuses
    <2> QED BY <2>1, <2>2, ChangeKept, Statuses
  <1>6. CASE AdjustReservation(w)
    <2>1. ChangeReservation(w, "adjust", "ACTIVE", c.amount) /\ Decides(w, "adjust")
      BY <1>6 DEF AdjustReservation, ChangeReservation
    <2>2. c.amount <= r.active
      BY <2>1, ReservationChecked, Statuses
    <2> QED BY <2>1, <2>2, ChangeKept, Statuses
  <1>7. CASE ReleaseReservation(w)
    <2>1. ChangeReservation(w, "release", "RELEASED", 0) /\ Decides(w, "release")
      BY <1>7 DEF ReleaseReservation, ChangeReservation
    <2>2. 0 <= r.active
      BY <2>1, ReservationChecked, Statuses
    <2> QED BY <2>1, <2>2, ChangeKept, Statuses
  <1> QED BY <1>1, <1>2, <1>3, <1>4, <1>5, <1>6, <1>7

LEMMA CreateReservationKept ==
  ASSUME IInv, NEW w \in Worker, CreateReservation(w)
  PROVE  Kept
  <1> DEFINE c == work[w].call
             new == [account |-> c.account, expense |-> c.expense, creator |-> c.user,
                     initial |-> c.amount, active |-> 0, status |-> "DRAFT"]
  <1>1. Ready(w) /\ ~Replayed(w) /\ c.op = "reserve"
    BY Deciding DEF CreateReservation
  <1>2. c.reservation \notin DOMAIN reservation
    BY <1>1 DEF Replayed
  <1>3. reservation' = Insert(reservation, c.reservation, new)
    BY DEF CreateReservation
  <1> HIDE DEF new
  <1>4. \A r \in DOMAIN reservation : r \in DOMAIN reservation' /\ reservation'[r] = reservation[r]
    BY <1>2, <1>3 DEF Insert
  <1>5. \A r \in DOMAIN reservation : reservation[r].active \in Nat
    BY DEF IInv, TypeOK, ReservationRecord
  <1> QED BY <1>4, <1>5 DEF Kept

LEMMA DisbursementKept ==
  ASSUME IInv, NEW w \in Worker, BudgetExpenseDisburse(w)
  PROVE  Kept
  <1> DEFINE c == work[w].call
             r == reservation[c.reservation]
  <1>1. CASE ~Consumes(c)
    <2>1. UNCHANGED reservation
      BY <1>1 DEF BudgetExpenseDisburse
    <2> QED BY <2>1, UnchangedKept DEF IInv
  <1>2. CASE Consumes(c)
    <2>1. Consumable(c) /\ c.amount \in Nat
      BY <1>2, DisbursementChecked, AmountsAreNat
    <2>2. c.reservation \in DOMAIN reservation /\ r.status = "ACTIVE" /\ c.amount <= r.active
      BY <2>1 DEF Consumable
    <2>3. r \in ReservationRecord /\ r.active <= r.initial /\ r.active \in Nat
      BY <2>2 DEF IInv, TypeOK, ReservationShape, ReservationRecord
    <2>4. Consumed(r, c.amount).active <= r.active
      <3>1. Consumed(r, c.amount).active = r.active - c.amount
        BY <2>1, <2>2, <2>3, ConsumedType
      <3> QED BY <2>1, <2>3, <3>1
    <2>5. reservation' = [reservation EXCEPT ![c.reservation] = Consumed(r, c.amount)]
      BY <1>2 DEF BudgetExpenseDisburse, UpdateReservation
    <2> QED BY <2>2, <2>4, <2>5, UpdateKept DEF IInv, Terminal
  <1> QED BY <1>1, <1>2

LEMMA DecideKept ==
  ASSUME IInv, NEW w \in Worker, Decide(w)
  PROVE  Kept
  <1>1. CASE CreateReservation(w)
    BY <1>1, CreateReservationKept
  <1>2. CASE BudgetExpenseDisburse(w)
    BY <1>2, DisbursementKept
  <1>3. CASE \/ SubmitReservation(w) \/ ApproveReservation(w) \/ RejectReservation(w)
             \/ CancelReservation(w) \/ ExpireReservation(w) \/ AdjustReservation(w)
             \/ ReleaseReservation(w)
    BY <1>3, ReservationOpsKept
  <1>4. CASE \/ ManualOperation(w) \/ PostAutomaticMovement(w)
             \/ PostPaymentRefundMovement(w) \/ MakeTransfer(w) \/ Reverse(w)
             \/ ReverseTransfer(w) \/ AccountStatus(w) \/ CancelExpense(w)
    <2>1. UNCHANGED reservation
      BY <1>4 DEF ManualOperation, PostAutomaticMovement, PostPaymentRefundMovement,
                  MakeTransfer, Reverse, ReverseTransfer, AccountStatus, CancelExpense
    <2> QED BY <2>1, UnchangedKept DEF IInv
  <1> QED BY <1>1, <1>2, <1>3, <1>4 DEF Decide

(* A reservation that was cancelled, released, expired or consumed is      *)
(* never brought back, and an ACTIVE one never grows: adjustReservation    *)
(* refuses an increase, and every other operation asks for a state it has  *)
(* left.                                                                   *)
THEOREM ReservationsNotRevived == Spec => NeverRevived
  <1>1. IInv /\ [Next]_vars => [Kept]_vars
    <2> SUFFICES ASSUME IInv, [Next]_vars PROVE Kept \/ UNCHANGED vars
      BY DEF Kept
    <2>1. ASSUME NEW w \in Worker, Decide(w) PROVE Kept
      BY <2>1, DecideKept
    <2>2. ASSUME UNCHANGED reservation PROVE Kept
      BY <2>2, UnchangedKept DEF IInv
    <2> QED BY <2>1, <2>2, Steps DEF Begin, LockRow, ShareConcession, OpenView, tables
  <1> QED BY <1>1, Invariance, PTL DEF Spec, NeverRevived, Kept

-----------------------------------------------------------------------------
(* Sums over the rows of a table L of movements or R of reservations, and  *)
(* what one more row, or one changed, does to them.                        *)

RowsOn(L, a)    == {id \in DOMAIN L : L[id].account = a}
Standing(L, e)  == {id \in DOMAIN L : /\ id[1] = "disburse" /\ L[id].about = e
                                      /\ ~(Reversal(id) \in DOMAIN L)}
RefundsOf(L, p) == {id \in DOMAIN L : id[1] = "refund" /\ L[id].about = p}
FlowIn(L, S)    == SumFunctionOnSet([id \in S |-> Signed(L[id])], S)
AmountIn(L, S)  == SumFunctionOnSet([id \in S |-> L[id].amount], S)
WorthIn(R, S)   == SumFunctionOnSet([r \in S |-> ActiveAmount(R[r])], S)

FlowTied(L, b) == \A a \in Account : b[a] = Opening[a] + FlowIn(L, RowsOn(L, a))
PaidTied(L, p) == \A e \in Expense : p[e] = AmountIn(L, Standing(L, e))
WorthTied(R, v, g) ==
    /\ \A a \in Account : v[a] = WorthIn(R, {r \in DOMAIN R : R[r].account = a})
    /\ \A e \in Expense : g[e] = WorthIn(R, {r \in DOMAIN R : R[r].expense = e})

(* A refund is of a payment that was collected, and all of them fit in it. *)
RefundsTied(L) ==
    \A id \in DOMAIN L :
        /\ id[1] = "collect" => /\ id = <<"collect", id[2]>>
                                /\ AmountIn(L, RefundsOf(L, id[2])) <= L[id].amount
        /\ id[1] = "refund" => <<"collect", L[id].about>> \in DOMAIN L

(* Tables whose rows can be summed.                                        *)
Summable(L) ==
    /\ IsFiniteSet(DOMAIN L)
    /\ \A id \in DOMAIN L : L[id].amount \in Int /\ Signed(L[id]) \in Int

LEMMA OnceOnlyTied ==
  /\ OnceOnly <=> /\ FlowTied(ledger, balance) /\ PaidTied(ledger, paid)
                  /\ WorthTied(reservation, reserved, engaged)
  /\ OnceOnly' <=> /\ FlowTied(ledger', balance') /\ PaidTied(ledger', paid')
                   /\ WorthTied(reservation', reserved', engaged')
  BY DEF OnceOnly, FlowTied, PaidTied, WorthTied, FlowIn, AmountIn, WorthIn, RowsOn, Standing,
         FlowOf, AmountOf, WorthOf, Posted

LEMMA RefundsWithin ==
  ASSUME RefundsTied(ledger)
  PROVE  RefundsWithinPayment
  BY DEF RefundsTied, RefundsWithinPayment, RefundsOf, AmountIn, Refunded, AmountOf

(* K is L with one row more.                                               *)
Grown(L, K, id, m) ==
    /\ Summable(L) /\ id \notin DOMAIN L /\ m.amount \in Int /\ Signed(m) \in Int
    /\ DOMAIN K = DOMAIN L \cup {id} /\ K[id] = m
    /\ \A x \in DOMAIN L : K[x] = L[x]

LEMMA Inserted ==
  ASSUME NEW L, Summable(L), NEW id, id \notin DOMAIN L, NEW m,
         m.amount \in Int, Signed(m) \in Int
  PROVE  Grown(L, Insert(L, id, m), id, m)
  BY DEF Insert, Grown

LEMMA GrownSummable ==
  ASSUME NEW L, NEW K, NEW id, NEW m, Grown(L, K, id, m)
  PROVE  Summable(K)
  <1>1. IsFiniteSet(DOMAIN K)
    BY FS_AddElement DEF Summable, Grown
  <1> QED BY <1>1 DEF Summable, Grown

LEMMA AmountMore ==
  ASSUME NEW L, NEW K, NEW id, NEW m, Grown(L, K, id, m), NEW S, S \subseteq DOMAIN L
  PROVE  /\ AmountIn(K, S) = AmountIn(L, S)
         /\ AmountIn(K, S \cup {id}) = AmountIn(L, S) + m.amount
         /\ AmountIn(L, S) \in Int
  <1> DEFINE f == [x \in S |-> L[x].amount]
             g == [x \in S |-> K[x].amount]
             h == [x \in S \cup {id} |-> K[x].amount]
  <1>1. IsFiniteSet(S) /\ id \notin S
    BY FS_Subset DEF Summable, Grown
  <1>2. \A x \in S : f[x] \in Int /\ g[x] = f[x] /\ h[x] = f[x]
    BY DEF Summable, Grown
  <1>3. h[id] = m.amount /\ m.amount \in Int
    BY DEF Grown
  <1> HIDE DEF f, g, h
  <1>4. SumFunctionOnSet(f, S) = SumFunctionOnSet(g, S) /\ SumFunctionOnSet(f, S) \in Int
    BY <1>1, <1>2, SumSame, SumInt
  <1>5. SumFunctionOnSet(h, S \cup {id}) = SumFunctionOnSet(f, S) + h[id]
    BY <1>1, <1>2, <1>3, SumOneMore
  <1> QED BY <1>3, <1>4, <1>5 DEF AmountIn, f, g, h

LEMMA FlowMore ==
  ASSUME NEW L, NEW K, NEW id, NEW m, Grown(L, K, id, m), NEW S, S \subseteq DOMAIN L
  PROVE  /\ FlowIn(K, S) = FlowIn(L, S)
         /\ FlowIn(K, S \cup {id}) = FlowIn(L, S) + Signed(m)
         /\ FlowIn(L, S) \in Int
  <1> DEFINE f == [x \in S |-> Signed(L[x])]
             g == [x \in S |-> Signed(K[x])]
             h == [x \in S \cup {id} |-> Signed(K[x])]
  <1>1. IsFiniteSet(S) /\ id \notin S
    BY FS_Subset DEF Summable, Grown
  <1>2. \A x \in S : f[x] \in Int /\ g[x] = f[x] /\ h[x] = f[x]
    BY DEF Summable, Grown
  <1>3. h[id] = Signed(m) /\ Signed(m) \in Int
    BY DEF Grown
  <1> HIDE DEF f, g, h
  <1>4. SumFunctionOnSet(f, S) = SumFunctionOnSet(g, S) /\ SumFunctionOnSet(f, S) \in Int
    BY <1>1, <1>2, SumSame, SumInt
  <1>5. SumFunctionOnSet(h, S \cup {id}) = SumFunctionOnSet(f, S) + h[id]
    BY <1>1, <1>2, <1>3, SumOneMore
  <1> QED BY <1>3, <1>4, <1>5 DEF FlowIn, f, g, h

(* One more movement in the table of movements.                            *)
LEMMA FlowPosted ==
  ASSUME NEW L, NEW K, NEW id, NEW m, Grown(L, K, id, m), m.account \in Account,
         NEW b, b \in [Account -> Int], FlowTied(L, b)
  PROVE  FlowTied(K, [b EXCEPT ![m.account] = @ + Signed(m)])
  <1> DEFINE d == [b EXCEPT ![m.account] = @ + Signed(m)]
  <1>1. /\ DOMAIN K = DOMAIN L \cup {id} /\ K[id] = m /\ id \notin DOMAIN L
        /\ \A x \in DOMAIN L : K[x] = L[x]
    BY DEF Grown
  <1>2. \A a \in Account : d[a] = IF a = m.account THEN b[a] + Signed(m) ELSE b[a]
    OBVIOUS
  <1> HIDE DEF d
  <1> SUFFICES ASSUME NEW a \in Account
               PROVE  d[a] = Opening[a] + FlowIn(K, RowsOn(K, a))
    BY DEF FlowTied, d
  <1>3. RowsOn(L, a) \subseteq DOMAIN L
    BY DEF RowsOn
  <1>4. /\ FlowIn(K, RowsOn(L, a)) = FlowIn(L, RowsOn(L, a))
        /\ FlowIn(K, RowsOn(L, a) \cup {id}) = FlowIn(L, RowsOn(L, a)) + Signed(m)
        /\ FlowIn(L, RowsOn(L, a)) \in Int
    BY <1>3, FlowMore
  <1>5. b[a] = Opening[a] + FlowIn(L, RowsOn(L, a)) /\ b[a] \in Int /\ Opening[a] \in Int
    BY TreasuryAssumption DEF FlowTied
  <1>6. CASE a = m.account
    <2>1. RowsOn(K, a) = RowsOn(L, a) \cup {id}
      BY <1>1, <1>6 DEF RowsOn
    <2>2. Signed(m) \in Int
      BY DEF Grown
    <2> QED BY <1>2, <1>4, <1>5, <1>6, <2>1, <2>2
  <1>7. CASE a # m.account
    <2>1. RowsOn(K, a) = RowsOn(L, a)
      BY <1>1, <1>7 DEF RowsOn
    <2> QED BY <1>2, <1>4, <1>5, <1>7, <2>1
  <1> QED BY <1>6, <1>7

(* It is neither a disbursement nor the reversal of one.                   *)
LEMMA PaidSame ==
  ASSUME NEW L, NEW K, NEW id, NEW m, Grown(L, K, id, m), NEW p, PaidTied(L, p),
         id[1] # "disburse", id[1] = "reversal" => id[2][1] # "disburse"
  PROVE  PaidTied(K, p)
  <1>1. /\ DOMAIN K = DOMAIN L \cup {id} /\ K[id] = m /\ id \notin DOMAIN L
        /\ \A x \in DOMAIN L : K[x] = L[x]
    BY DEF Grown
  <1> SUFFICES ASSUME NEW e \in Expense
               PROVE  p[e] = AmountIn(K, Standing(K, e))
    BY DEF PaidTied
  <1>2. \A x : x[1] = "disburse" => Reversal(x) # id
    BY Ids
  <1>3. Standing(K, e) = Standing(L, e)
    BY <1>1, <1>2 DEF Standing
  <1>4. Standing(L, e) \subseteq DOMAIN L
    BY DEF Standing
  <1>5. /\ AmountIn(K, Standing(L, e)) = AmountIn(L, Standing(L, e))
        /\ AmountIn(K, Standing(L, e) \cup {id}) = AmountIn(L, Standing(L, e)) + m.amount
    BY <1>4, AmountMore
  <1> QED BY <1>3, <1>5 DEF PaidTied

LEMMA PaidMore ==
  ASSUME NEW L, NEW K, NEW id, NEW m, Grown(L, K, id, m),
         NEW p, p \in [Expense -> Int], PaidTied(L, p),
         id[1] = "disburse", Reversal(id) \notin DOMAIN L
  PROVE  PaidTied(K, [p EXCEPT ![m.about] = @ + m.amount])
  <1> DEFINE d == [p EXCEPT ![m.about] = @ + m.amount]
  <1>1. /\ DOMAIN K = DOMAIN L \cup {id} /\ K[id] = m /\ id \notin DOMAIN L
        /\ \A x \in DOMAIN L : K[x] = L[x]
    BY DEF Grown
  <1>2. \A e \in Expense : d[e] = IF e = m.about THEN p[e] + m.amount ELSE p[e]
    OBVIOUS
  <1> HIDE DEF d
  <1> SUFFICES ASSUME NEW e \in Expense
               PROVE  d[e] = AmountIn(K, Standing(K, e))
    BY DEF PaidTied, d
  <1>3. \A x : Reversal(x) # id
    BY Ids
  <1>4. Standing(L, e) \subseteq DOMAIN L
    BY DEF Standing
  <1>5. /\ AmountIn(K, Standing(L, e)) = AmountIn(L, Standing(L, e))
        /\ AmountIn(K, Standing(L, e) \cup {id}) = AmountIn(L, Standing(L, e)) + m.amount
    BY <1>4, AmountMore
  <1>6. p[e] = AmountIn(L, Standing(L, e))
    BY DEF PaidTied
  <1>7. CASE e = m.about
    <2>1. Standing(K, e) = Standing(L, e) \cup {id}
      BY <1>1, <1>3, <1>7 DEF Standing
    <2> QED BY <1>2, <1>5, <1>6, <1>7, <2>1
  <1>8. CASE e # m.about
    <2>1. Standing(K, e) = Standing(L, e)
      BY <1>1, <1>3, <1>8 DEF Standing
    <2> QED BY <1>2, <1>5, <1>6, <1>8, <2>1
  <1> QED BY <1>7, <1>8

LEMMA PaidLess ==
  ASSUME NEW L, NEW K, NEW id, NEW m, Grown(L, K, id, m),
         NEW p, p \in [Expense -> Int], PaidTied(L, p),
         NEW x \in DOMAIN L, x[1] = "disburse", id = Reversal(x)
  PROVE  PaidTied(K, [p EXCEPT ![L[x].about] = @ - L[x].amount])
  <1> DEFINE d == [p EXCEPT ![L[x].about] = @ - L[x].amount]
  <1>1. /\ DOMAIN K = DOMAIN L \cup {id} /\ K[id] = m /\ id \notin DOMAIN L
        /\ \A y \in DOMAIN L : K[y] = L[y]
    BY DEF Grown
  <1>2. \A e \in Expense : d[e] = IF e = L[x].about THEN p[e] - L[x].amount ELSE p[e]
    OBVIOUS
  <1> HIDE DEF d
  <1> SUFFICES ASSUME NEW e \in Expense
               PROVE  d[e] = AmountIn(K, Standing(K, e))
    BY DEF PaidTied, d
  <1>3. id[1] = "reversal" /\ \A y : Reversal(y) = id => y = x
    BY Ids
  <1>4. Standing(L, e) \subseteq DOMAIN L
    BY DEF Standing
  <1>5. /\ AmountIn(K, Standing(L, e)) = AmountIn(L, Standing(L, e))
        /\ AmountIn(K, Standing(L, e) \cup {id}) = AmountIn(L, Standing(L, e)) + m.amount
    BY <1>4, AmountMore
  <1>6. p[e] = AmountIn(L, Standing(L, e))
    BY DEF PaidTied
  <1>7. CASE e = L[x].about
    <2>1. Standing(K, e) = Standing(L, e) \ {x} /\ x \in Standing(L, e)
      BY <1>1, <1>3, <1>7 DEF Standing
    <2> DEFINE f == [y \in Standing(L, e) |-> L[y].amount]
               g == [y \in Standing(L, e) \ {x} |-> K[y].amount]
    <2>2. IsFiniteSet(Standing(L, e))
      BY <1>4, FS_Subset DEF Summable, Grown
    <2>3. /\ \A y \in Standing(L, e) : f[y] \in Int
          /\ \A y \in Standing(L, e) \ {x} : g[y] = f[y]
          /\ f[x] = L[x].amount
      BY <1>1, <1>4, <2>1 DEF Summable, Grown
    <2> HIDE DEF f, g
    <2>4. SumFunctionOnSet(g, Standing(L, e) \ {x}) = SumFunctionOnSet(f, Standing(L, e)) - f[x]
      BY <2>1, <2>2, <2>3, SumOneLess
    <2>5. AmountIn(K, Standing(K, e)) = AmountIn(L, Standing(L, e)) - L[x].amount
      BY <2>1, <2>3, <2>4 DEF AmountIn, f, g
    <2> QED BY <1>2, <1>6, <1>7, <2>5
  <1>8. CASE e # L[x].about
    <2>1. Standing(K, e) = Standing(L, e)
      BY <1>1, <1>3, <1>8 DEF Standing
    <2> QED BY <1>2, <1>5, <1>6, <1>8, <2>1
  <1> QED BY <1>7, <1>8

(* Refunds.                                                                *)
LEMMA RefundsSame ==
  ASSUME NEW L, NEW K, NEW id, NEW m, Grown(L, K, id, m), RefundsTied(L),
         id[1] # "refund", id[1] = "collect" => id = <<"collect", id[2]>> /\ m.amount >= 0
  PROVE  RefundsTied(K)
  <1>1. /\ DOMAIN K = DOMAIN L \cup {id} /\ K[id] = m /\ id \notin DOMAIN L
        /\ \A x \in DOMAIN L : K[x] = L[x]
    BY DEF Grown
  <1>2. \A p : RefundsOf(K, p) = RefundsOf(L, p) /\ RefundsOf(L, p) \subseteq DOMAIN L
    BY <1>1 DEF RefundsOf
  <1>3. ASSUME NEW p PROVE AmountIn(K, RefundsOf(K, p)) = AmountIn(L, RefundsOf(L, p))
    <2>1. RefundsOf(L, p) \subseteq DOMAIN L
      BY <1>2
    <2>2. /\ AmountIn(K, RefundsOf(L, p)) = AmountIn(L, RefundsOf(L, p))
          /\ AmountIn(K, RefundsOf(L, p) \cup {id}) = AmountIn(L, RefundsOf(L, p)) + m.amount
          /\ AmountIn(L, RefundsOf(L, p)) \in Int
      BY <2>1, AmountMore
    <2> QED BY <1>2, <2>2
  <1>4. ASSUME NEW x \in DOMAIN K, x[1] = "refund"
        PROVE  <<"collect", K[x].about>> \in DOMAIN K
    BY <1>1, <1>4 DEF RefundsTied
  <1>5. ASSUME NEW x \in DOMAIN L, x[1] = "collect"
        PROVE  /\ x = <<"collect", x[2]>>
               /\ AmountIn(K, RefundsOf(K, x[2])) <= K[x].amount
    BY <1>1, <1>3, <1>5 DEF RefundsTied
  <1>6. ASSUME id[1] = "collect"
        PROVE  /\ id = <<"collect", id[2]>>
               /\ AmountIn(K, RefundsOf(K, id[2])) <= K[id].amount
    <2>1. RefundsOf(L, id[2]) = {}
      BY <1>1, <1>6 DEF RefundsOf, RefundsTied
    <2>2. AmountIn(L, {}) = 0
      BY SumEmpty DEF AmountIn
    <2> QED BY <1>1, <1>3, <1>6, <2>1, <2>2
  <1> QED BY <1>1, <1>4, <1>5, <1>6 DEF RefundsTied

LEMMA RefundsMore ==
  ASSUME NEW L, NEW K, NEW id, NEW m, Grown(L, K, id, m), RefundsTied(L),
         id[1] = "refund", <<"collect", m.about>> \in DOMAIN L,
         m.amount <= L[<<"collect", m.about>>].amount - AmountIn(L, RefundsOf(L, m.about))
  PROVE  RefundsTied(K)
  <1>1. /\ DOMAIN K = DOMAIN L \cup {id} /\ K[id] = m /\ id \notin DOMAIN L
        /\ \A x \in DOMAIN L : K[x] = L[x]
    BY DEF Grown
  <1>2. ASSUME NEW x \in DOMAIN K, x[1] = "refund"
        PROVE  <<"collect", K[x].about>> \in DOMAIN K
    BY <1>1, <1>2 DEF RefundsTied
  <1>3. ASSUME NEW x \in DOMAIN K, x[1] = "collect"
        PROVE  /\ x = <<"collect", x[2]>>
               /\ AmountIn(K, RefundsOf(K, x[2])) <= K[x].amount
    <2>1. x \in DOMAIN L /\ x = <<"collect", x[2]>> /\ K[x] = L[x]
          /\ AmountIn(L, RefundsOf(L, x[2])) <= L[x].amount
      BY <1>1, <1>3 DEF RefundsTied
    <2>2. PICK p : p = x[2]
      OBVIOUS
    <2>3. RefundsOf(L, p) \subseteq DOMAIN L
      BY DEF RefundsOf
    <2>4. /\ AmountIn(K, RefundsOf(L, p)) = AmountIn(L, RefundsOf(L, p))
          /\ AmountIn(K, RefundsOf(L, p) \cup {id}) = AmountIn(L, RefundsOf(L, p)) + m.amount
          /\ AmountIn(L, RefundsOf(L, p)) \in Int
      BY <2>3, AmountMore
    <2>5. CASE p = m.about
      <3>1. RefundsOf(K, p) = RefundsOf(L, p) \cup {id}
        BY <1>1, <2>5 DEF RefundsOf
      <3>2. x = <<"collect", m.about>> /\ L[x].amount \in Int
        BY <2>1, <2>2, <2>5 DEF Summable, Grown
      <3>3. m.amount \in Int
        BY DEF Grown
      <3> QED BY <2>1, <2>2, <2>4, <2>5, <3>1, <3>2, <3>3
    <2>6. CASE p # m.about
      <3>1. RefundsOf(K, p) = RefundsOf(L, p)
        BY <1>1, <2>6 DEF RefundsOf
      <3> QED BY <2>1, <2>2, <2>4, <3>1
    <2> QED BY <2>5, <2>6
  <1> QED BY <1>2, <1>3 DEF RefundsTied

(* Reservations: K is R with the row of r changed.                         *)
Weighable(R) ==
    IsFiniteSet(DOMAIN R) /\ \A r \in DOMAIN R : ActiveAmount(R[r]) \in Int
Changed(R, K, r, new, n) ==
    /\ Weighable(R) /\ r \in DOMAIN R /\ DOMAIN K = DOMAIN R
    /\ K[r] = new /\ \A x \in DOMAIN R : x # r => K[x] = R[x]
    /\ new.account = R[r].account /\ new.expense = R[r].expense
    /\ ActiveAmount(new) \in Int /\ n \in Int /\ n = ActiveAmount(new) - ActiveAmount(R[r])

LEMMA WorthSet ==
  ASSUME NEW R, NEW K, NEW r, NEW new, NEW n, Changed(R, K, r, new, n),
         NEW S, S \subseteq DOMAIN R
  PROVE  /\ WorthIn(K, S) = IF r \in S THEN WorthIn(R, S) + n ELSE WorthIn(R, S)
         /\ WorthIn(R, S) \in Int
  <1> DEFINE f == [x \in S |-> ActiveAmount(R[x])]
             g == [x \in S |-> ActiveAmount(K[x])]
  <1>1. IsFiniteSet(S)
    BY FS_Subset DEF Changed, Weighable
  <1>2. \A x \in S : f[x] \in Int /\ g[x] \in Int /\ (x # r => f[x] = g[x])
    BY DEF Changed, Weighable
  <1>3. r \in S => n = g[r] - f[r]
    BY DEF Changed
  <1> HIDE DEF f, g
  <1>4. SumFunctionOnSet(f, S) \in Int
    BY <1>1, <1>2, SumInt
  <1>5. CASE r \in S
    <2>1. SumFunctionOnSet(g, S) = SumFunctionOnSet(f, S) + (g[r] - f[r])
      BY <1>1, <1>2, <1>5, SumUpdate
    <2> QED BY <1>3, <1>4, <1>5, <2>1 DEF WorthIn, f, g
  <1>6. CASE r \notin S
    <2>1. SumFunctionOnSet(f, S) = SumFunctionOnSet(g, S)
      BY <1>1, <1>2, <1>6, SumSame
    <2> QED BY <1>4, <1>6, <2>1 DEF WorthIn, f, g
  <1> QED BY <1>5, <1>6

LEMMA WorthChanged ==
  ASSUME NEW R, NEW K, NEW r, NEW new, NEW n, Changed(R, K, r, new, n),
         NEW v, v \in [Account -> Int], NEW g, g \in [Expense -> Int], WorthTied(R, v, g)
  PROVE  WorthTied(K, [v EXCEPT ![R[r].account] = @ + n], [g EXCEPT ![R[r].expense] = @ + n])
  <1> DEFINE u == [v EXCEPT ![R[r].account] = @ + n]
             h == [g EXCEPT ![R[r].expense] = @ + n]
             on(T, a) == {x \in DOMAIN T : T[x].account = a}
             for(T, e) == {x \in DOMAIN T : T[x].expense = e}
  <1>1. ASSUME NEW a \in Account PROVE u[a] = WorthIn(K, on(K, a))
    <2>1. on(K, a) = on(R, a) /\ on(R, a) \subseteq DOMAIN R
          /\ (r \in on(R, a) <=> a = R[r].account)
      BY DEF Changed
    <2>2. u[a] = IF a = R[r].account THEN v[a] + n ELSE v[a]
      OBVIOUS
    <2>3. v[a] = WorthIn(R, on(R, a))
      BY DEF WorthTied
    <2> HIDE DEF u, on
    <2>4. WorthIn(K, on(R, a)) = IF r \in on(R, a) THEN WorthIn(R, on(R, a)) + n ELSE WorthIn(R, on(R, a))
      BY <2>1, WorthSet
    <2> QED BY <2>1, <2>2, <2>3, <2>4
  <1>2. ASSUME NEW e \in Expense PROVE h[e] = WorthIn(K, for(K, e))
    <2>1. for(K, e) = for(R, e) /\ for(R, e) \subseteq DOMAIN R
          /\ (r \in for(R, e) <=> e = R[r].expense)
      BY DEF Changed
    <2>2. h[e] = IF e = R[r].expense THEN g[e] + n ELSE g[e]
      OBVIOUS
    <2>3. g[e] = WorthIn(R, for(R, e))
      BY DEF WorthTied
    <2> HIDE DEF h, for
    <2>4. WorthIn(K, for(R, e)) = IF r \in for(R, e) THEN WorthIn(R, for(R, e)) + n ELSE WorthIn(R, for(R, e))
      BY <2>1, WorthSet
    <2> QED BY <2>1, <2>2, <2>3, <2>4
  <1> QED BY <1>1, <1>2 DEF WorthTied

(* A new reservation that sets nothing aside.                              *)
LEMMA WorthOfNew ==
  ASSUME NEW R, Weighable(R), NEW r, r \notin DOMAIN R, NEW new, ActiveAmount(new) = 0,
         NEW v, NEW g, WorthTied(R, v, g)
  PROVE  WorthTied(Insert(R, r, new), v, g)
  <1> DEFINE K == Insert(R, r, new)
  <1>1. DOMAIN K = DOMAIN R \cup {r} /\ K[r] = new /\ \A x \in DOMAIN R : K[x] = R[x]
    BY DEF Insert
  <1> HIDE DEF K
  <1>2. ASSUME NEW S, S \subseteq DOMAIN R, NEW T, T = S \/ T = S \cup {r}
        PROVE  WorthIn(K, T) = WorthIn(R, S)
    <2> DEFINE f == [x \in S |-> ActiveAmount(R[x])]
               k == [x \in T |-> ActiveAmount(K[x])]
    <2>1. IsFiniteSet(S) /\ r \notin S
      BY <1>2, FS_Subset DEF Weighable
    <2>2. /\ \A x \in S : f[x] \in Int /\ k[x] = f[x]
          /\ T = S \cup {r} => k[r] = 0
      BY <1>1, <1>2 DEF Weighable
    <2> HIDE DEF f, k
    <2>3. CASE T = S
      <3>1. SumFunctionOnSet(f, S) = SumFunctionOnSet(k, S)
        BY <2>1, <2>2, SumSame
      <3> QED BY <2>3, <3>1 DEF WorthIn, f, k
    <2>4. CASE T = S \cup {r}
      <3>1. k[r] = 0 /\ k[r] \in Int
        BY <2>2, <2>4
      <3>2. SumFunctionOnSet(k, S \cup {r}) = SumFunctionOnSet(f, S) + k[r]
        BY <2>1, <2>2, <3>1, SumOneMore
      <3>3. SumFunctionOnSet(f, S) \in Int
        BY <2>1, <2>2, SumInt
      <3>4. SumFunctionOnSet(k, T) = SumFunctionOnSet(f, S)
        BY <2>4, <3>1, <3>2, <3>3
      <3> QED BY <3>4 DEF WorthIn, f, k
    <2> QED BY <1>2, <2>3, <2>4
  <1> DEFINE on(T, a) == {x \in DOMAIN T : T[x].account = a}
             for(T, e) == {x \in DOMAIN T : T[x].expense = e}
  <1>3. ASSUME NEW a \in Account PROVE v[a] = WorthIn(K, on(K, a))
    <2>1. (on(K, a) = on(R, a) \/ on(K, a) = on(R, a) \cup {r}) /\ on(R, a) \subseteq DOMAIN R
      BY <1>1
    <2>2. v[a] = WorthIn(R, on(R, a))
      BY DEF WorthTied
    <2> HIDE DEF on
    <2> QED BY <1>2, <2>1, <2>2
  <1>4. ASSUME NEW e \in Expense PROVE g[e] = WorthIn(K, for(K, e))
    <2>1. (for(K, e) = for(R, e) \/ for(K, e) = for(R, e) \cup {r}) /\ for(R, e) \subseteq DOMAIN R
      BY <1>1
    <2>2. g[e] = WorthIn(R, for(R, e))
      BY DEF WorthTied
    <2> HIDE DEF for
    <2> QED BY <1>2, <2>1, <2>2
  <1> QED BY <1>3, <1>4 DEF WorthTied, K

-----------------------------------------------------------------------------
(* Every sum the code keeps reading is the sum of the rows.                *)
Tied ==
    /\ IsFiniteSet(DOMAIN ledger) /\ IsFiniteSet(DOMAIN reservation)
    /\ FlowTied(ledger, balance) /\ PaidTied(ledger, paid) /\ RefundsTied(ledger)
    /\ WorthTied(reservation, reserved, engaged)

LEMMA RecordSummable ==
  ASSUME NEW m, MovementRecord(m)
  PROVE  m.account \in Account /\ m.amount \in Int /\ m.amount >= 0 /\ Signed(m) \in Int
  BY AmountsAreNat DEF MovementRecord, Signed

LEMMA TablesSummable ==
  ASSUME IInv, Tied
  PROVE  Summable(ledger) /\ Weighable(reservation)
  <1>1. \A id \in DOMAIN ledger : MovementRecord(ledger[id])
    BY DEF IInv, TypeOK
  <1>2. \A id \in DOMAIN ledger : ledger[id].amount \in Int /\ Signed(ledger[id]) \in Int
    BY <1>1, RecordSummable
  <1>3. \A r \in DOMAIN reservation : ActiveAmount(reservation[r]) \in Int
    BY DEF IInv, TypeOK, ReservationRecord, ActiveAmount
  <1> QED BY <1>2, <1>3 DEF Tied, Summable, Weighable

LEMMA PostGrown ==
  ASSUME IInv, Tied, NEW id, NEW m, MovementRecord(m), Post(id, m), ~Posted(id)
  PROVE  /\ Grown(ledger, ledger', id, m) /\ IsFiniteSet(DOMAIN ledger')
         /\ FlowTied(ledger', balance')
  <1>1. Grown(ledger, ledger', id, m)
    <2>1. ledger' = Insert(ledger, id, m) /\ id \notin DOMAIN ledger
      BY DEF Post, Posted
    <2>2. Grown(ledger, Insert(ledger, id, m), id, m)
      BY <2>1, TablesSummable, RecordSummable, Inserted
    <2> QED BY <2>1, <2>2
  <1>2. IsFiniteSet(DOMAIN ledger')
    BY <1>1, GrownSummable DEF Summable
  <1>3. FlowTied(ledger', balance')
    <2>1. FlowTied(ledger', [balance EXCEPT ![m.account] = @ + Signed(m)])
      BY <1>1, RecordSummable, FlowPosted DEF IInv, TypeOK, Tied
    <2> QED BY <2>1 DEF Post
  <1> QED BY <1>1, <1>2, <1>3

(* Neither what is paid nor what is refunded hears of the movement.        *)
LEMMA PlainPostTied ==
  ASSUME IInv, Tied, NEW id, NEW m, MovementRecord(m), Post(id, m), ~Posted(id),
         id[1] # "disburse", id[1] # "refund", id[1] = "reversal" => id[2][1] # "disburse",
         id[1] = "collect" => id = <<"collect", id[2]>>,
         UNCHANGED <<reservation, reserved, engaged, paid>>
  PROVE  Tied'
  <1>1. /\ Grown(ledger, ledger', id, m) /\ IsFiniteSet(DOMAIN ledger')
        /\ FlowTied(ledger', balance')
    BY PostGrown
  <1>2. PaidTied(ledger', paid)
    BY <1>1, PaidSame DEF Tied
  <1>3. RefundsTied(ledger')
    BY <1>1, RecordSummable, RefundsSame DEF Tied
  <1> QED BY <1>1, <1>2, <1>3 DEF Tied

(* No row of an expense or of a customer payment.                          *)
Internal(id) == /\ id[1] \notin {"disburse", "refund", "collect"}
                /\ id[1] = "reversal" => id[2][1] # "disburse"

LEMMA PostTwoTied ==
  ASSUME IInv, Tied, NEW i, NEW m, NEW j, NEW n, PostTwo(i, m, j, n), i # j,
         MovementRecord(m), MovementRecord(n), ~Posted(i), ~Posted(j), m.account # n.account,
         Internal(i), Internal(j), UNCHANGED <<reservation, reserved, engaged, paid>>
  PROVE  Tied'
  <1> DEFINE L == Insert(ledger, i, m)
             b == [balance EXCEPT ![m.account] = @ + Signed(m)]
             d == [b EXCEPT ![n.account] = @ + Signed(n)]
  <1>0. /\ m.account \in Account /\ m.amount \in Int /\ m.amount >= 0 /\ Signed(m) \in Int
        /\ n.account \in Account /\ n.amount \in Int /\ n.amount >= 0 /\ Signed(n) \in Int
    BY RecordSummable
  <1>1. Grown(ledger, L, i, m)
    <2>1. Summable(ledger) /\ i \notin DOMAIN ledger
      BY TablesSummable DEF Posted
    <2> QED BY <1>0, <2>1, Inserted
  <1>2. b \in [Account -> Int] /\ FlowTied(L, b)
    <2>1. balance \in [Account -> Int] /\ FlowTied(ledger, balance)
      BY DEF IInv, TypeOK, Tied
    <2>2. b \in [Account -> Int]
      BY <1>0, <2>1
    <2> HIDE DEF L
    <2>3. FlowTied(L, b)
      BY <1>0, <1>1, <2>1, FlowPosted
    <2> QED BY <2>2, <2>3
  <1>3. PaidTied(L, paid) /\ RefundsTied(L)
    <2>1. /\ i[1] # "disburse" /\ i[1] # "refund" /\ i[1] # "collect"
          /\ i[1] = "reversal" => i[2][1] # "disburse"
      BY DEF Internal
    <2>2. PaidTied(ledger, paid) /\ RefundsTied(ledger)
      BY DEF Tied
    <2> HIDE DEF L
    <2>3. PaidTied(L, paid)
      BY <1>1, <2>1, <2>2, PaidSame
    <2>4. RefundsTied(L)
      BY <1>1, <2>1, <2>2, RefundsSame
    <2> QED BY <2>3, <2>4
  <1>4. ledger' = Insert(L, j, n) /\ balance' = d
    <2>1. balance \in [Account -> Int]
      BY DEF IInv, TypeOK
    <2>2. balance' = [balance EXCEPT ![m.account] = @ + Signed(m), ![n.account] = @ + Signed(n)]
      BY DEF PostTwo
    <2> QED BY <1>0, <2>1, <2>2 DEF PostTwo
  <1> HIDE DEF L, b
  <1>5. Grown(L, ledger', j, n)
    <2>1. Summable(L) /\ j \notin DOMAIN L
      BY <1>1, GrownSummable DEF Grown, Posted
    <2>2. Grown(L, Insert(L, j, n), j, n)
      BY <2>1, RecordSummable, Inserted
    <2> QED BY <1>4, <2>2
  <1>6. FlowTied(ledger', d)
    BY <1>2, <1>5, RecordSummable, FlowPosted
  <1>7. PaidTied(ledger', paid) /\ RefundsTied(ledger')
    BY <1>3, <1>5, PaidSame, RefundsSame DEF Internal
  <1>8. IsFiniteSet(DOMAIN ledger')
    BY <1>5, GrownSummable DEF Summable
  <1> QED BY <1>4, <1>6, <1>7, <1>8 DEF Tied

LEMMA UpdateTied ==
  ASSUME IInv, Tied, NEW id \in DOMAIN reservation, NEW new \in ReservationRecord,
         new.account = reservation[id].account, new.expense = reservation[id].expense,
         UpdateReservation(id, new)
  PROVE  WorthTied(reservation', reserved', engaged') /\ IsFiniteSet(DOMAIN reservation')
  <1> DEFINE n == ActiveAmount(new) - ActiveAmount(reservation[id])
  <1>1. ActiveAmount(new) \in Int /\ ActiveAmount(reservation[id]) \in Int
    BY DEF IInv, TypeOK, ReservationRecord, ActiveAmount
  <1>2. /\ reservation' = [reservation EXCEPT ![id] = new]
        /\ reserved' = [reserved EXCEPT ![reservation[id].account] = @ + n]
        /\ engaged' = [engaged EXCEPT ![reservation[id].expense] = @ + n]
    BY DEF UpdateReservation
  <1>3. Changed(reservation, reservation', id, new, n)
    BY <1>1, <1>2, TablesSummable DEF Changed
  <1> HIDE DEF n
  <1>4. WorthTied(reservation', reserved', engaged')
    BY <1>2, <1>3, WorthChanged DEF IInv, TypeOK, Tied
  <1> QED BY <1>2, <1>4 DEF Tied

LEMMA ChangeTied ==
  ASSUME IInv, Tied, NEW w \in Worker, NEW op \in ReservationOps, NEW status \in Status,
         NEW active \in Nat, ChangeReservation(w, op, status, active)
  PROVE  Tied'
  <1> DEFINE id == work[w].call.reservation
             new == [reservation[id] EXCEPT !.status = status, !.active = active]
  <1>1. Grounded(work[w].call) /\ work[w].call.op = op
    BY Deciding DEF ChangeReservation
  <1>2. id \in DOMAIN reservation /\ reservation[id] \in ReservationRecord
    BY <1>1 DEF Grounded, IInv, TypeOK
  <1>3. /\ new \in ReservationRecord
        /\ new.account = reservation[id].account /\ new.expense = reservation[id].expense
    BY <1>2 DEF ReservationRecord
  <1>4. UpdateReservation(id, new) /\ UNCHANGED <<ledger, balance, paid>>
    BY DEF ChangeReservation
  <1> HIDE DEF new, id
  <1>5. WorthTied(reservation', reserved', engaged') /\ IsFiniteSet(DOMAIN reservation')
    BY <1>2, <1>3, <1>4, UpdateTied
  <1> QED BY <1>4, <1>5 DEF Tied

(* The decisions.                                                          *)
LEMMA PlainPostingsTied ==
  ASSUME IInv, Tied, NEW w \in Worker, ManualOperation(w) \/ PostAutomaticMovement(w)
  PROVE  Tied'
  <1> DEFINE c == work[w].call
             id == DraftId(c)
  <1>1. CASE ManualOperation(w)
    <2>1. /\ Planned(w) /\ Allowed(w) /\ ~Replayed(w)
          /\ c \in Call /\ WellFormed(c) /\ c.op = "manual"
      BY <1>1, Deciding DEF ManualOperation
    <2>2. Holds(w, AccountRow(c.account))
      BY <2>1, HeldByManual DEF IInv
    <2>3. SameOrNew(c) /\ ~Served(c)
      BY <2>1, <2>2 DEF Allowed, ManualGuard, Replayed
    <2>4. MovementRecord(Draft(c)) /\ id[1] = "manual" /\ ~Posted(id)
      BY <2>1, <2>3, DraftType DEF DraftId, SameOrNew
    <2>5. Post(id, Draft(c)) /\ UNCHANGED <<reservation, reserved, engaged, paid>>
      BY <1>1 DEF ManualOperation
    <2> HIDE DEF id, c
    <2> QED BY <2>4, <2>5, PlainPostTied
  <1>2. CASE PostAutomaticMovement(w)
    <2>1. /\ Planned(w) /\ Allowed(w) /\ ~Replayed(w)
          /\ c \in Call /\ WellFormed(c) /\ c.op = "collect"
      BY <1>2, Deciding DEF PostAutomaticMovement
    <2>2. Holds(w, InvoiceRow(c.payment))
      BY <2>1, HeldByCollect DEF IInv
    <2>3. MovementRecord(Draft(c)) /\ id = <<"collect", c.payment>> /\ ~Posted(id)
      BY <2>1, <2>2, DraftType DEF DraftId, Replayed
    <2>4. id[1] = "collect" /\ id = <<"collect", id[2]>>
      BY <2>3
    <2>5. Post(id, Draft(c)) /\ UNCHANGED <<reservation, reserved, engaged, paid>>
      BY <1>2 DEF PostAutomaticMovement
    <2> HIDE DEF id, c
    <2> QED BY <2>3, <2>4, <2>5, PlainPostTied
  <1> QED BY <1>1, <1>2

(* The lock on the invoice keeps what was refunded as the guard summed it. *)
LEMMA RefundTied ==
  ASSUME IInv, Tied, NEW w \in Worker, PostPaymentRefundMovement(w)
  PROVE  Tied'
  <1> DEFINE c == work[w].call
             id == DraftId(c)
             m == Draft(c)
  <1>1. /\ Planned(w) /\ Allowed(w) /\ ~Replayed(w)
        /\ c \in Call /\ WellFormed(c) /\ c.op = "refund"
    BY Deciding DEF PostPaymentRefundMovement
  <1>2. Holds(w, InvoiceRow(c.payment))
    BY <1>1, HeldByRefund DEF IInv
  <1>3. /\ SameOrNew(c) /\ ~Served(c) /\ <<"collect", c.payment>> \in DOMAIN ledger
        /\ c.amount <= ledger[<<"collect", c.payment>>].amount - Refunded(c.payment)
    BY <1>1, <1>2 DEF Allowed, RefundGuard, Replayed, Posted
  <1>4. /\ MovementRecord(m) /\ id[1] = "refund" /\ ~Posted(id)
        /\ m.about = c.payment /\ m.amount = c.amount
    BY <1>1, <1>3, DraftType DEF DraftId, SameOrNew, Draft, Movement
  <1>5. Refunded(c.payment) = AmountIn(ledger, RefundsOf(ledger, c.payment))
    BY DEF Refunded, AmountOf, AmountIn, RefundsOf
  <1>6. Post(id, m) /\ UNCHANGED <<reservation, reserved, engaged, paid>>
    BY DEF PostPaymentRefundMovement
  <1>7. /\ <<"collect", m.about>> \in DOMAIN ledger
        /\ m.amount <= ledger[<<"collect", m.about>>].amount
                         - AmountIn(ledger, RefundsOf(ledger, m.about))
    BY <1>3, <1>4, <1>5
  <1> HIDE DEF id, m, c
  <1>8. /\ Grown(ledger, ledger', id, m) /\ IsFiniteSet(DOMAIN ledger')
        /\ FlowTied(ledger', balance')
    BY <1>4, <1>6, PostGrown
  <1>9. PaidTied(ledger', paid)
    BY <1>4, <1>8, PaidSame DEF Tied
  <1>10. RefundsTied(ledger')
    BY <1>4, <1>7, <1>8, RefundsMore DEF Tied
  <1> QED BY <1>6, <1>8, <1>9, <1>10 DEF Tied

LEMMA ReverseTied ==
  ASSUME IInv, Tied, NEW w \in Worker, Reverse(w)
  PROVE  Tied'
  <1> DEFINE c == work[w].call
             x == c.movement
             id == Reversal(x)
             m == Reversed(ledger[x])
  <1>1. /\ Ready(w) /\ Allowed(w) /\ Grounded(c) /\ c.op = "reverse"
    BY Deciding DEF Reverse
  <1>2. x \in DOMAIN ledger /\ ~Posted(id)
    BY <1>1 DEF Grounded, Posted, Allowed, ReverseGuard
  <1>3. MovementRecord(m)
    BY <1>2 DEF IInv, TypeOK, MovementRecord, Reversed, Movement, Opposite
  <1>4. id[1] = "reversal" /\ id[2] = x
    BY Ids
  <1>5. /\ Post(id, m) /\ UNCHANGED <<reservation, reserved, engaged>>
        /\ paid' = IF x[1] = "disburse"
                   THEN [paid EXCEPT ![ledger[x].about] = @ - ledger[x].amount] ELSE paid
    BY DEF Reverse
  <1>6. id = Reversal(x)
    OBVIOUS
  <1> HIDE DEF id, m, x, c
  <1>7. CASE x[1] = "disburse"
    <2>1. /\ Grown(ledger, ledger', id, m) /\ IsFiniteSet(DOMAIN ledger')
          /\ FlowTied(ledger', balance')
      BY <1>2, <1>3, <1>5, PostGrown
    <2>2. PaidTied(ledger', paid')
      <3>1. paid \in [Expense -> Int] /\ PaidTied(ledger, paid)
        BY DEF IInv, TypeOK, Tied
      <3>2. PaidTied(ledger', [paid EXCEPT ![ledger[x].about] = @ - ledger[x].amount])
        BY <1>2, <1>6, <1>7, <2>1, <3>1, PaidLess
      <3> QED BY <1>5, <1>7, <3>2
    <2>3. RefundsTied(ledger')
      BY <1>4, <2>1, RefundsSame DEF Tied
    <2> QED BY <1>5, <2>1, <2>2, <2>3 DEF Tied
  <1>8. CASE x[1] # "disburse"
    <2>1. UNCHANGED <<reservation, reserved, engaged, paid>>
      BY <1>5, <1>8
    <2> QED BY <1>2, <1>3, <1>4, <1>5, <1>8, <2>1, PlainPostTied
  <1> QED BY <1>7, <1>8

LEMMA MakeTransferTied ==
  ASSUME IInv, Tied, NEW w \in Worker, MakeTransfer(w)
  PROVE  Tied'
  <1> DEFINE c == work[w].call
             m == Movement(c.account, "OUT", c.amount, None)
             n == Movement(c.to, "IN", c.amount, None)
  <1>1. Allowed(w) /\ c \in Call /\ WellFormed(c) /\ c.op = "transfer"
    BY Deciding DEF MakeTransfer
  <1>2. PICK t \in TransferId : ~Posted(Debit(t)) /\ PostTwo(Debit(t), m, Credit(t), n)
    BY DEF MakeTransfer
  <1>3. c.account # c.to
    BY <1>1 DEF Allowed, TransferGuard
  <1>4. ~Posted(Credit(t))
    BY <1>2, <1>3, TransferShape DEF IInv
  <1>5. MovementRecord(m) /\ MovementRecord(n) /\ m.account # n.account
    BY <1>1, <1>3, AmountOfCall DEF WellFormed, MovementRecord, Movement
  <1>6. Debit(t) # Credit(t) /\ Internal(Debit(t)) /\ Internal(Credit(t))
    BY DEF Debit, Credit, Internal
  <1>7. UNCHANGED <<reservation, reserved, engaged, paid>>
    BY DEF MakeTransfer
  <1> HIDE DEF m, n
  <1> QED BY <1>2, <1>4, <1>5, <1>6, <1>7, PostTwoTied

LEMMA ReverseTransferTied ==
  ASSUME IInv, Tied, NEW w \in Worker, ReverseTransfer(w)
  PROVE  Tied'
  <1> DEFINE c == work[w].call
             t == c.movement[2]
             m == Reversed(ledger[Debit(t)])
             n == Reversed(ledger[Credit(t)])
             i == Reversal(Debit(t))
             j == Reversal(Credit(t))
  <1>1. Ready(w) /\ Allowed(w) /\ Grounded(c) /\ c.op = "reverse"
    BY Deciding DEF ReverseTransfer
  <1>2. Posted(c.movement) /\ IsLeg(c.movement)
    BY <1>1 DEF Grounded, ReverseTransfer
  <1>3. /\ c.movement \in {Debit(t), Credit(t)}
        /\ Posted(Debit(t)) /\ Posted(Credit(t))
        /\ ledger[Debit(t)].account # ledger[Credit(t)].account
        /\ Posted(i) <=> Posted(j)
    BY <1>2, LedgerShapeByLegs DEF IInv, LegShape, Posted
  <1>4. MovementRecord(m) /\ MovementRecord(n) /\ m.account # n.account
    BY <1>3 DEF IInv, TypeOK, MovementRecord, Reversed, Movement, Opposite, Posted
  <1>5. ~Posted(i) /\ ~Posted(j)
    BY <1>1, <1>3 DEF Allowed, ReverseGuard
  <1>6. i # j /\ Internal(i) /\ Internal(j)
    BY DEF Debit, Credit, Reversal, Internal
  <1>7. PostTwo(i, m, j, n) /\ UNCHANGED <<reservation, reserved, engaged, paid>>
    BY DEF ReverseTransfer
  <1> HIDE DEF m, n, i, j, t, c
  <1> QED BY <1>4, <1>5, <1>6, <1>7, PostTwoTied

LEMMA DisbursementTied ==
  ASSUME IInv, Tied, NEW w \in Worker, BudgetExpenseDisburse(w)
  PROVE  Tied'
  <1> DEFINE c == work[w].call
             id == DraftId(c)
             m == Draft(c)
             r == c.reservation
  <1>1. /\ MovementRecord(m) /\ ~Posted(id) /\ id[1] = "disburse"
        /\ m.about = c.expense /\ m.amount = c.amount
        /\ c.amount \in Nat /\ c.account \in Account
        /\ Consumes(c) => Consumable(c)
    BY DisbursementChecked, AmountsAreNat DEF Movement
  <1>2. /\ Post(id, m) /\ paid' = [paid EXCEPT ![m.about] = @ + m.amount]
        /\ IF Consumes(c) THEN UpdateReservation(r, Consumed(reservation[r], c.amount))
           ELSE UNCHANGED <<reservation, reserved, engaged>>
    BY <1>1 DEF BudgetExpenseDisburse
  <1>3. Reversal(id) \notin DOMAIN ledger
    <2>1. Reversal(id) \in DOMAIN ledger => Posted(id)
      BY Ids DEF IInv, LedgerShape
    <2> QED BY <1>1, <2>1
  <1>4. WorthTied(reservation', reserved', engaged') /\ IsFiniteSet(DOMAIN reservation')
    <2>1. CASE Consumes(c)
      <3>1. /\ r \in DOMAIN reservation /\ reservation[r].status = "ACTIVE"
            /\ c.amount <= reservation[r].active
        BY <1>1, <2>1 DEF Consumable
      <3>2. reservation[r] \in ReservationRecord /\ reservation[r].active <= reservation[r].initial
        BY <3>1 DEF IInv, TypeOK, ReservationShape
      <3> DEFINE new == Consumed(reservation[r], c.amount)
      <3>3. /\ new \in ReservationRecord /\ new.account = reservation[r].account
            /\ new.expense = reservation[r].expense
        <4>1. new \in ReservationRecord /\ new.account = reservation[r].account
          BY <1>1, <3>1, <3>2, ConsumedType
        <4>2. new.expense = reservation[r].expense
          BY <3>2 DEF Consumed, ReservationRecord
        <4> QED BY <4>1, <4>2
      <3>4. UpdateReservation(r, new)
        BY <1>2, <2>1
      <3> HIDE DEF new, r, c
      <3> QED BY <3>1, <3>3, <3>4, UpdateTied
    <2>2. CASE ~Consumes(c)
      BY <1>2, <2>2 DEF Tied
    <2> QED BY <2>1, <2>2
  <1> HIDE DEF id, m, c
  <1>5. /\ Grown(ledger, ledger', id, m) /\ IsFiniteSet(DOMAIN ledger')
        /\ FlowTied(ledger', balance')
    BY <1>1, <1>2, PostGrown
  <1>6. PaidTied(ledger', paid')
    <2>1. paid \in [Expense -> Int] /\ PaidTied(ledger, paid)
      BY DEF IInv, TypeOK, Tied
    <2>2. PaidTied(ledger', [paid EXCEPT ![m.about] = @ + m.amount])
      BY <1>1, <1>3, <1>5, <2>1, PaidMore
    <2> QED BY <1>2, <2>2
  <1>7. RefundsTied(ledger')
    BY <1>1, <1>5, RefundsSame DEF Tied
  <1> QED BY <1>4, <1>5, <1>6, <1>7 DEF Tied

LEMMA CreateReservationTied ==
  ASSUME IInv, Tied, NEW w \in Worker, CreateReservation(w)
  PROVE  Tied'
  <1> DEFINE c == work[w].call
             new == [account |-> c.account, expense |-> c.expense, creator |-> c.user,
                     initial |-> c.amount, active |-> 0, status |-> "DRAFT"]
  <1>1. Ready(w) /\ ~Replayed(w) /\ c.op = "reserve"
    BY Deciding DEF CreateReservation
  <1>2. c.reservation \notin DOMAIN reservation
    BY <1>1 DEF Replayed
  <1>3. ActiveAmount(new) = 0
    BY DEF ActiveAmount
  <1>4. /\ reservation' = Insert(reservation, c.reservation, new)
        /\ UNCHANGED <<ledger, balance, reserved, engaged, paid>>
    BY DEF CreateReservation, totals
  <1> HIDE DEF new, c
  <1>5. WorthTied(reservation', reserved, engaged)
    BY <1>2, <1>3, <1>4, TablesSummable, WorthOfNew DEF Tied
  <1>6. IsFiniteSet(DOMAIN reservation')
    BY <1>4, FS_AddElement DEF Tied, Insert
  <1> QED BY <1>4, <1>5, <1>6 DEF Tied

LEMMA ReservationOpsTied ==
  ASSUME IInv, Tied, NEW w \in Worker,
         \/ SubmitReservation(w) \/ ApproveReservation(w) \/ RejectReservation(w)
         \/ CancelReservation(w) \/ ExpireReservation(w) \/ AdjustReservation(w)
         \/ ReleaseReservation(w)
  PROVE  Tied'
  <1> DEFINE c == work[w].call
             r == reservation[c.reservation]
  <1>1. ASSUME NEW op \in ReservationOps, NEW status \in Status, NEW active,
               ChangeReservation(w, op, status, active),
               active \in {0, r.active, r.initial} \/ (op = "adjust" /\ active = c.amount)
        PROVE  Tied'
    <2>1. Decides(w, op)
      BY <1>1 DEF ChangeReservation
    <2>2. r.active \in Nat /\ r.initial \in Nat /\ (op = "adjust" => c.amount \in Nat)
      BY <2>1, ReservationChecked
    <2>3. active \in Nat
      BY <1>1, <2>2
    <2> QED BY <1>1, <2>3, ChangeTied
  <1>2. CASE SubmitReservation(w)
    BY <1>1, <1>2, Statuses, ZenonT(60) DEF SubmitReservation, Target
  <1>3. CASE ApproveReservation(w)
    BY <1>1, <1>3, Statuses, ZenonT(60) DEF ApproveReservation, Target
  <1>4. CASE RejectReservation(w)
    BY <1>1, <1>4, Statuses, ZenonT(60) DEF RejectReservation, Target
  <1>5. CASE CancelReservation(w)
    BY <1>1, <1>5, Statuses, ZenonT(60) DEF CancelReservation
  <1>6. CASE ExpireReservation(w)
    BY <1>1, <1>6, Statuses, ZenonT(60) DEF ExpireReservation
  <1>7. CASE AdjustReservation(w)
    BY <1>1, <1>7, Statuses, ZenonT(60) DEF AdjustReservation
  <1>8. CASE ReleaseReservation(w)
    BY <1>1, <1>8, Statuses DEF ReleaseReservation
  <1> QED BY <1>2, <1>3, <1>4, <1>5, <1>6, <1>7, <1>8

LEMMA DecideTied ==
  ASSUME IInv, Tied, NEW w \in Worker, Decide(w)
  PROVE  Tied'
  <1>1. CASE AccountStatus(w) \/ CancelExpense(w)
    <2>1. UNCHANGED <<ledger, reservation, balance, reserved, engaged, paid>>
      BY <1>1 DEF AccountStatus, CancelExpense, totals
    <2> QED BY <2>1 DEF Tied
  <1> QED BY <1>1, PlainPostingsTied, RefundTied, ReverseTied, MakeTransferTied,
             ReverseTransferTied, DisbursementTied, CreateReservationTied,
             ReservationOpsTied DEF Decide

LEMMA InitTied == Init => Tied
  <1> SUFFICES ASSUME Init PROVE Tied
    OBVIOUS
  <1>1. DOMAIN ledger = {} /\ DOMAIN reservation = {}
    BY DEF Init
  <1>2. IsFiniteSet({})
    BY FS_EmptySet
  <1>3. FlowIn(ledger, {}) = 0 /\ AmountIn(ledger, {}) = 0 /\ WorthIn(reservation, {}) = 0
    BY SumEmpty DEF FlowIn, AmountIn, WorthIn
  <1>4. FlowTied(ledger, balance)
    <2>1. ASSUME NEW a \in Account PROVE balance[a] = Opening[a] + FlowIn(ledger, RowsOn(ledger, a))
      <3>1. RowsOn(ledger, a) = {}
        BY <1>1 DEF RowsOn
      <3>2. balance[a] = Opening[a] /\ Opening[a] \in Nat
        BY TreasuryAssumption DEF Init
      <3> QED BY <1>3, <3>1, <3>2
    <2> QED BY <2>1 DEF FlowTied
  <1>5. PaidTied(ledger, paid)
    <2>1. ASSUME NEW e \in Expense PROVE paid[e] = AmountIn(ledger, Standing(ledger, e))
      <3>1. Standing(ledger, e) = {}
        BY <1>1 DEF Standing
      <3> QED BY <1>3, <3>1 DEF Init
    <2> QED BY <2>1 DEF PaidTied
  <1>6. WorthTied(reservation, reserved, engaged)
    <2>1. \A a : {r \in DOMAIN reservation : reservation[r].account = a} = {}
      BY <1>1
    <2>2. \A e : {r \in DOMAIN reservation : reservation[r].expense = e} = {}
      BY <1>1
    <2> QED BY <1>3, <2>1, <2>2 DEF WorthTied, Init
  <1>7. RefundsTied(ledger)
    BY <1>1 DEF RefundsTied
  <1> QED BY <1>1, <1>2, <1>4, <1>5, <1>6, <1>7 DEF Tied

(* The sums that the guards of treasury.service.ts read are at all times   *)
(* the sums of the rows.                                                   *)
THEOREM SumsTied == Spec => []Tied
  <1>1. IInv /\ Tied /\ [Next]_vars => Tied'
    <2> SUFFICES ASSUME IInv, Tied, [Next]_vars PROVE Tied'
      OBVIOUS
    <2>1. ASSUME NEW w \in Worker, Decide(w) PROVE Tied'
      BY <2>1, DecideTied
    <2>2. ASSUME UNCHANGED tables PROVE Tied'
      BY <2>2 DEF Tied, tables
    <2>3. (\E w \in Worker : Decide(w)) \/ UNCHANGED tables
      BY Steps DEF Begin, LockRow, ShareConcession, OpenView, vars, tables
    <2> QED BY <2>1, <2>2, <2>3
  <1> QED BY <1>1, InitTied, Invariance, PTL DEF Spec

(* Every request, payment, refund, leg and reversal counts once (the       *)
(* clientRequestId and unique keys of treasury.service.ts): the totals are *)
(* the sums of the rows, whatever is retried, crashed or raced.            *)
THEOREM CountedOnce == Spec => []OnceOnly
  <1>1. Tied => OnceOnly
    BY OnceOnlyTied DEF Tied
  <1> QED BY <1>1, SumsTied, PTL

(* The refunds of a payment never exceed it, whichever keys and accounts   *)
(* they are asked with (postPaymentRefundMovement under the invoice lock). *)
THEOREM RefundsBounded == Spec => []RefundsWithinPayment
  <1>1. Tied => RefundsWithinPayment
    BY RefundsWithin DEF Tied
  <1> QED BY <1>1, SumsTied, PTL

-----------------------------------------------------------------------------
(* Deadlocks.  What a transaction holds, a statement of its own has asked  *)
(* for: a row of its plan it is past, or a reservation it scans once the   *)
(* plan is done.                                                           *)
MayScan(c, r) ==
    \/ Debited(c) # None /\ reservation[r].account = Debited(c)
    \/ c.op = "cancel expense"
    \/ c.op \in {"reserve", "disburse"} /\ r = c.reservation
Passed(w, row) ==
    \E j \in 1..Len(Plan(work[w].call)) :
        j < work[w].step /\ Plan(work[w].call)[j] = row
Asked(w, row) ==
    /\ Busy(w)
    /\ \/ Passed(w, row)
       \/ Planned(w) /\ \E r \in DOMAIN reservation :
                           row = ReservationRow(r) /\ MayScan(work[w].call, r)
SharesExplained == \A w \in sharing : Busy(w) /\ ConcessionLast(work[w].call)
LocksExplained ==
    /\ \A w \in Worker, row \in Row : Holds(w, row) => Asked(w, row)
    /\ SharesExplained

LEMMA AskedStays ==
  ASSUME IInv, Extends, NEW x \in Worker, NEW row, Asked(x, row),
         work'[x].call = work[x].call, work'[x].step \in Nat,
         work'[x].step >= work[x].step
  PROVE  Asked(x, row)'
  <1> USE DEF IInv
  <1>1. PICK c \in Call : c = work[x].call
    BY CallOfWorker DEF Asked
  <1>2. work[x].step \in Nat /\ Busy(x) /\ Busy(x)'
    BY CallOfWorker DEF Asked, Busy
  <1>3. Grounded(c)
    BY <1>1, <1>2 DEF PlanFollowed, FollowsPlan, Grounded
  <1>4. Plan(c)' = Plan(c) /\ Debited(c)' = Debited(c)
    BY <1>3, PlanStable, DebitedStable
  <1>5. Plan(work[x].call)' = Plan(work[x].call) /\ Debited(work[x].call)' = Debited(work[x].call)
    BY <1>1, <1>4
  <1>6. Len(Plan(work[x].call)) \in Nat
    BY <1>1, PlanLength
  <1>7. CASE Passed(x, row)
    <2>1. Passed(x, row)'
      BY <1>2, <1>5, <1>6, <1>7 DEF Passed
    <2> QED BY <1>2, <2>1 DEF Asked
  <1>8. ASSUME Planned(x), NEW r \in DOMAIN reservation, row = ReservationRow(r),
               MayScan(work[x].call, r)
        PROVE  Asked(x, row)'
    <2>1. Planned(x)'
      BY <1>2, <1>5, <1>6, <1>8 DEF Planned
    <2>2. r \in DOMAIN reservation' /\ reservation'[r].account = reservation[r].account
      BY DEF Extends
    <2>3. MayScan(work[x].call, r)'
      BY <1>5, <1>8, <2>2 DEF MayScan
    <2> QED BY <1>2, <1>8, <2>1, <2>2, <2>3 DEF Asked, ReservationRow
  <1> QED BY <1>7, <1>8 DEF Asked

LEMMA LockIsExplained ==
  ASSUME IInv, IInv', LocksExplained, NEW w \in Worker, LockRow(w)
  PROVE  LocksExplained'
  <1>0. SharesExplained'
    BY DEF LockRow, LocksExplained, SharesExplained, Busy, ConcessionLast, IInv, TypeOK,
           InsertsFirst, InsertsLast, WorkRecord
  <1> SUFFICES ASSUME NEW x \in Worker, NEW row \in Row, lock'[row] = x
               PROVE  Asked(x, row)'
    BY <1>0 DEF LocksExplained, Holds
  <1>1. PICK r \in Wants(w) : lock' = [lock EXCEPT ![r] = w]
    BY DEF LockRow
  <1>2. /\ UNCHANGED tables /\ Busy(w)
        /\ work' = IF InPlan(w) THEN [work EXCEPT ![w].step = @ + 1] ELSE work
    BY DEF LockRow, Proceeds
  <1>3. Extends
    BY <1>2, SameTables
  <1>4. /\ work'[x].call = work[x].call
        /\ work'[x].step = IF x = w /\ InPlan(w) THEN work[x].step + 1 ELSE work[x].step
    BY <1>2 DEF IInv, TypeOK, WorkRecord
  <1>5. Busy(x) => /\ work[x].step \in Nat /\ work'[x].step \in Nat
                   /\ work'[x].step >= work[x].step
    BY <1>4, CallOfWorker DEF IInv
  <1>6. CASE lock[row] = x
    <2>1. Asked(x, row)
      BY <1>6 DEF LocksExplained, Holds
    <2> QED BY <1>3, <1>4, <1>5, <2>1, AskedStays DEF Asked
  <1>7. CASE lock[row] # x
    <2>1. x = w /\ row = r
      BY <1>1, <1>7 DEF IInv, TypeOK
    <2>2. CASE InPlan(w)
      <3>1. row = Plan(work[w].call)[work[w].step]
        BY <1>1, <2>1, <2>2 DEF Wants, Current
      <3>2. PICK c \in Call : c = work[w].call
        BY <1>2, CallOfWorker DEF IInv
      <3>3. Grounded(c)
        BY <1>2, <3>2 DEF IInv, PlanFollowed, FollowsPlan, Grounded
      <3>4. Plan(work[w].call)' = Plan(work[w].call)
        BY <1>3, <1>4, <2>1, <3>2, <3>3, PlanStable DEF IInv
      <3>5. work[w].step \in 1..Len(Plan(work[w].call))
        BY <1>2, <1>5, <2>1, <2>2, <3>2, PlanLength DEF InPlan, IInv, PlanFollowed, FollowsPlan
      <3>6. work'[w].step = work[w].step + 1
        BY <1>4, <2>1, <2>2
      <3>7. Passed(w, row)'
        BY <3>1, <3>4, <3>5, <3>6 DEF Passed
      <3> QED BY <1>2, <1>4, <2>1, <3>7 DEF Asked, Busy
    <2>3. CASE ~InPlan(w)
      <3>1. PICK q \in Scanned(work[w].call) : row = ReservationRow(q)
        BY <1>1, <1>2, <2>1, <2>3 DEF Wants
      <3>2. q \in DOMAIN reservation /\ MayScan(work[w].call, q)
        BY <3>1 DEF Scanned, MayScan
      <3>3. Planned(w)
        <4>1. PICK c \in Call : c = work[w].call
          BY <1>2, CallOfWorker DEF IInv
        <4> QED BY <1>2, <1>5, <2>1, <2>3, <4>1, PlanLength DEF InPlan, Planned
      <3>4. Asked(x, row)
        BY <1>2, <2>1, <3>1, <3>2, <3>3 DEF Asked
      <3> QED BY <1>3, <1>4, <1>5, <3>4, AskedStays DEF Asked
    <2> QED BY <2>2, <2>3
  <1> QED BY <1>6, <1>7

(* What a worker shares is explained by its call, while it runs it.        *)
LEMMA ShareStays ==
  ASSUME SharesExplained, NEW x \in sharing, work'[x] = work[x]
  PROVE  Busy(x)' /\ ConcessionLast(work[x].call)'
  BY DEF SharesExplained, Busy, ConcessionLast, InsertsFirst, InsertsLast

LEMMA StepExplained ==
  ASSUME IInv, IInv', LocksExplained, [Next]_vars
  PROVE  LocksExplained'
  <1>1. ASSUME NEW x \in Worker, NEW row \in Row, Holds(x, row), Extends, work'[x] = work[x]
        PROVE  Asked(x, row)'
    <2>1. Asked(x, row)
      BY <1>1 DEF LocksExplained
    <2>2. work[x].step \in Nat
      BY <2>1, CallOfWorker DEF Asked, IInv
    <2> QED BY <1>1, <2>1, <2>2, AskedStays
  <1>2. ASSUME NEW w \in Worker, End(w), Extends PROVE LocksExplained'
    <2>0. SharesExplained'
      <3> SUFFICES ASSUME NEW x \in sharing'
                   PROVE  Busy(x)' /\ ConcessionLast(work[x].call)'
        BY DEF SharesExplained
      <3>1. x \in sharing /\ x # w
        BY <1>2 DEF End
      <3>2. work'[x] = work[x]
        BY <1>2, <3>1 DEF End, IInv, TypeOK
      <3> QED BY <3>1, <3>2, ShareStays DEF LocksExplained
    <2> SUFFICES ASSUME NEW x \in Worker, NEW row \in Row, lock'[row] = x
                 PROVE  Asked(x, row)'
      BY <2>0 DEF LocksExplained, Holds
    <2>1. lock[row] = x /\ x # w
      BY <1>2, TreasuryAssumption DEF End
    <2>2. work'[x] = work[x]
      BY <1>2, <2>1 DEF End, IInv, TypeOK
    <2> QED BY <1>1, <1>2, <2>1, <2>2 DEF Holds
  <1>3. CASE UNCHANGED vars
    <2>1. UNCHANGED tables /\ UNCHANGED lock /\ UNCHANGED work /\ UNCHANGED sharing
      BY <1>3 DEF vars, tables
    <2>2. SharesExplained'
      BY <2>1, ShareStays DEF LocksExplained, SharesExplained
    <2> QED BY <1>1, <2>1, <2>2, SameTables DEF LocksExplained, Holds
  <1>4. ASSUME NEW w \in Worker, NEW c \in Call, Begin(w, c) PROVE LocksExplained'
    <2>1. /\ UNCHANGED tables /\ UNCHANGED lock /\ UNCHANGED sharing /\ ~Busy(w)
          /\ \A x \in Worker : x # w => work'[x] = work[x]
      BY <1>4 DEF Begin, IInv, TypeOK
    <2>2. \A row \in Row : ~Holds(w, row)
      BY <2>1 DEF LocksExplained, Asked
    <2>3. SharesExplained'
      <3>1. \A x \in sharing : x \in Worker /\ x # w
        BY <2>1 DEF LocksExplained, SharesExplained, IInv, TypeOK
      <3> QED BY <2>1, <3>1, ShareStays DEF LocksExplained, SharesExplained
    <2> QED BY <1>1, <2>1, <2>2, <2>3, SameTables DEF LocksExplained, Holds
  <1>5. ASSUME NEW w \in Worker, OpenView(w) PROVE LocksExplained'
    <2>1. UNCHANGED tables /\ UNCHANGED lock /\ UNCHANGED sharing /\ Busy(w)
      BY <1>5 DEF OpenView, Proceeds
    <2>2. /\ work'[w].call = work[w].call /\ work'[w].step = work[w].step + 1
          /\ \A x \in Worker : x # w => work'[x] = work[x]
      BY <1>5 DEF OpenView, IInv, TypeOK
    <2>3. work[w].step \in Nat
      BY <2>1, CallOfWorker DEF IInv
    <2>4. \A row \in Row : Holds(w, row) => Asked(w, row)'
      BY <2>1, <2>2, <2>3, SameTables, AskedStays DEF LocksExplained
    <2>5. SharesExplained'
      BY <2>1, <2>2 DEF LocksExplained, SharesExplained, Busy, ConcessionLast, IInv, TypeOK,
                        InsertsFirst, InsertsLast
    <2> QED BY <1>1, <2>1, <2>2, <2>4, <2>5, SameTables DEF LocksExplained, Holds
  <1>6. ASSUME NEW w \in Worker, LockRow(w) PROVE LocksExplained'
    BY <1>6, LockIsExplained
  <1>7. ASSUME NEW w \in Worker, End(w), UNCHANGED tables PROVE LocksExplained'
    BY <1>2, <1>7, SameTables
  <1>8. ASSUME NEW w \in Worker, Decide(w) PROVE LocksExplained'
    BY <1>2, <1>8, DecideSound DEF Sound, Frame
  <1>9. ASSUME NEW w \in Worker, ShareConcession(w) PROVE LocksExplained'
    <2>1. /\ UNCHANGED tables /\ UNCHANGED lock /\ UNCHANGED work
          /\ sharing' = sharing \cup {w} /\ Busy(w) /\ ConcessionLast(work[w].call)
      BY <1>9 DEF ShareConcession, Proceeds, WantsShare, ConcessionLast
    <2>2. SharesExplained'
      BY <2>1, ShareStays DEF LocksExplained, SharesExplained, Busy, ConcessionLast,
                              InsertsFirst, InsertsLast
    <2> QED BY <1>1, <2>1, <2>2, SameTables DEF LocksExplained, Holds
  <1> QED BY <1>3, <1>4, <1>5, <1>6, <1>7, <1>8, <1>9, Steps

(* A transaction holds no row its statements did not ask for, shares the   *)
(* concession only if it inserts a row that names it, and an idle          *)
(* connection does neither (COMMIT and ROLLBACK release them all).         *)
THEOREM LocksAsked == Spec => []LocksExplained
  <1>1. Init => LocksExplained
    BY TreasuryAssumption DEF Init, LocksExplained, SharesExplained, Holds
  <1>2. IInv /\ IInv' /\ LocksExplained /\ [Next]_vars => LocksExplained'
    BY StepExplained
  <1> QED BY <1>1, <1>2, Invariance, PTL DEF Spec

(* The order the other calls lock their rows in: invoices and expenses,    *)
(* the concession, the accounts by id; reservations come last.             *)
AnAccount(row) == \E a \in Account : row = AccountRow(a)
Rank(row) == IF AnAccount(row) THEN row[2] + 2
             ELSE IF row = ConcessionRow THEN 1 ELSE 0

LEMMA Ranks ==
  /\ \A a \in Account : Rank(AccountRow(a)) = a + 2 /\ Rank(AccountRow(a)) \in Nat
  /\ Rank(ConcessionRow) = 1
  /\ \A x : Rank(ExpenseRow(x)) = 0 /\ Rank(InvoiceRow(x)) = 0
  <1>1. \A a \in Account : a \in Nat
    BY TreasuryAssumption
  <1>2. ASSUME NEW a \in Account
        PROVE  Rank(AccountRow(a)) = a + 2
    BY <1>1, <1>2 DEF Rank, AnAccount, AccountRow
  <1>3. ASSUME NEW x
        PROVE  ~AnAccount(ExpenseRow(x)) /\ ~AnAccount(InvoiceRow(x)) /\ ~AnAccount(ConcessionRow)
    BY DEF AnAccount, AccountRow, ExpenseRow, InvoiceRow, ConcessionRow
  <1>4. ASSUME NEW x
        PROVE  ExpenseRow(x) # ConcessionRow /\ InvoiceRow(x) # ConcessionRow
    BY DEF ExpenseRow, InvoiceRow, ConcessionRow
  <1> QED BY <1>1, <1>2, <1>3, <1>4 DEF Rank

LEMMA NoReservation ==
  ASSUME NEW r
  PROVE  /\ \A x : AccountRow(x) # ReservationRow(r)
         /\ \A x : ExpenseRow(x) # ReservationRow(r)
         /\ \A x : InvoiceRow(x) # ReservationRow(r)
         /\ ConcessionRow # ReservationRow(r)
  BY DEF AccountRow, ExpenseRow, InvoiceRow, ConcessionRow, ReservationRow

(* A plan locks no reservation, and what it locks rises, repeats aside.    *)
Rising(plan) ==
    /\ \A j \in 1..Len(plan) : plan[j] # View =>
          /\ Rank(plan[j]) \in Int
          /\ \A r : plan[j] # ReservationRow(r)
    /\ \A i, j \in 1..Len(plan) :
          i < j /\ plan[i] # View /\ plan[j] # View /\ plan[i] # plan[j] =>
             Rank(plan[i]) < Rank(plan[j])

LEMMA OnePlan ==
  ASSUME NEW a \in Account
  PROVE  Rising(<<AccountRow(a)>>) /\ Rising(<<AccountRow(a), View>>)
  BY Ranks, NoReservation DEF Rising

LEMMA TwoPlan ==
  ASSUME NEW a \in Account, NEW b \in Account
  PROVE  /\ Rising(<<AccountRow(Lower(a, b)), AccountRow(Higher(a, b)), View>>)
         /\ Rising(<<AccountRow(Lower(a, b)), View,
                     AccountRow(Lower(a, b)), AccountRow(Higher(a, b))>>)
  <1> DEFINE l == Lower(a, b)
             h == Higher(a, b)
  <1>1. a \in Nat /\ b \in Nat
    BY TreasuryAssumption
  <1>2. l \in Account /\ h \in Account /\ l \in Nat /\ h \in Nat /\ l <= h
    BY <1>1 DEF Lower, Higher
  <1> HIDE DEF l, h
  <1>3. /\ AccountRow(l) # View /\ AccountRow(h) # View
        /\ Rank(AccountRow(l)) = l + 2 /\ Rank(AccountRow(h)) = h + 2
        /\ AccountRow(l) # AccountRow(h) => l < h
        /\ \A r : AccountRow(l) # ReservationRow(r) /\ AccountRow(h) # ReservationRow(r)
    BY <1>2, Ranks, RowsDiffer, NoReservation
  <1>4. Rising(<<AccountRow(l), AccountRow(h), View>>)
    BY <1>2, <1>3 DEF Rising
  <1>5. Rising(<<AccountRow(l), View, AccountRow(l), AccountRow(h)>>)
    BY <1>2, <1>3 DEF Rising
  <1> QED BY <1>4, <1>5 DEF l, h

LEMMA ExpenseOrInvoicePlan ==
  ASSUME NEW x, NEW a \in Account
  PROVE  /\ Rising(<<InvoiceRow(x), ConcessionRow, AccountRow(a)>>)
         /\ Rising(<<InvoiceRow(x), View, AccountRow(a)>>)
         /\ Rising(<<ExpenseRow(x), ConcessionRow, AccountRow(a), View>>)
         /\ Rising(<<ExpenseRow(x), View, ConcessionRow, AccountRow(a)>>)
  <1>1. /\ a \in Nat /\ Rank(AccountRow(a)) = a + 2 /\ Rank(ConcessionRow) = 1
        /\ Rank(ExpenseRow(x)) = 0 /\ Rank(InvoiceRow(x)) = 0
    BY Ranks, TreasuryAssumption
  <1>2. \A r : /\ AccountRow(a) # ReservationRow(r) /\ ConcessionRow # ReservationRow(r)
               /\ ExpenseRow(x) # ReservationRow(r) /\ InvoiceRow(x) # ReservationRow(r)
    BY NoReservation
  <1>3. Rising(<<InvoiceRow(x), ConcessionRow, AccountRow(a)>>)
    BY <1>1, <1>2 DEF Rising
  <1>4. Rising(<<InvoiceRow(x), View, AccountRow(a)>>)
    BY <1>1, <1>2 DEF Rising
  <1>5. Rising(<<ExpenseRow(x), ConcessionRow, AccountRow(a), View>>)
    BY <1>1, <1>2 DEF Rising
  <1>6. Rising(<<ExpenseRow(x), View, ConcessionRow, AccountRow(a)>>)
    BY <1>1, <1>2 DEF Rising
  <1> QED BY <1>3, <1>4, <1>5, <1>6

LEMMA InOrder ==
  ASSUME NEW c \in Call, TypeOK, LedgerShape, Grounded(c), ~AgainstOrder(c)
  PROVE  Rising(Plan(c))
  <1>0. WellFormed(c)
    BY TreasuryAssumption
  <1>1. CASE c.op = "manual"
    <2>1. c.account \in Account /\ Plan(c) \in {<<AccountRow(c.account)>>, <<AccountRow(c.account), View>>}
      BY <1>0, <1>1 DEF WellFormed, Plan
    <2> QED BY <2>1, OnePlan
  <1>2. CASE c.op \in {"collect", "refund"}
    <2>1. /\ c.account \in Account
          /\ Plan(c) \in {<<InvoiceRow(c.payment), ConcessionRow, AccountRow(c.account)>>,
                          <<InvoiceRow(c.payment), View, AccountRow(c.account)>>}
      BY <1>0, <1>2 DEF WellFormed, Plan
    <2> QED BY <2>1, ExpenseOrInvoicePlan
  <1>3. CASE c.op \in {"disburse", "reserve"}
    <2>1. /\ c.account \in Account
          /\ Plan(c) \in {<<ExpenseRow(c.expense), ConcessionRow, AccountRow(c.account), View>>,
                          <<ExpenseRow(c.expense), View, ConcessionRow, AccountRow(c.account)>>}
      BY <1>0, <1>3 DEF WellFormed, Plan, ExpensePlan
    <2> QED BY <2>1, ExpenseOrInvoicePlan
  <1>4. CASE c.op = "transfer"
    <2>1. /\ c.account \in Account /\ c.to \in Account
          /\ Plan(c) = <<AccountRow(Lower(c.account, c.to)), AccountRow(Higher(c.account, c.to)), View>>
      BY <1>0, <1>4 DEF WellFormed, Plan
    <2> QED BY <2>1, TwoPlan
  <1>5. CASE c.op = "reverse" /\ IsLeg(c.movement)
    <2> DEFINE from == ledger[Debit(c.movement[2])].account
               to   == ledger[Credit(c.movement[2])].account
               clicked == ledger[c.movement].account
    <2>1. Plan(c) = <<AccountRow(clicked), View, AccountRow(Lower(from, to)), AccountRow(Higher(from, to))>>
      BY <1>5 DEF Plan, ReverseTransferPlan
    <2>2. from \in Account /\ to \in Account
      BY <1>5, LegsPosted DEF TypeOK, MovementRecord, Grounded, Posted
    <2>3. clicked = from \/ clicked = to
      BY <1>5 DEF LedgerShape, Grounded, Posted
    <2>4. ~(from < clicked) /\ ~(to < clicked)
      BY <1>5 DEF AgainstOrder
    <2> HIDE DEF from, to, clicked
    <2>5. clicked = Lower(from, to)
      BY <2>2, <2>3, <2>4, TreasuryAssumption DEF Lower
    <2> QED BY <2>1, <2>2, <2>5, TwoPlan
  <1>6. CASE c.op = "reverse" /\ ~IsLeg(c.movement)
    <2>1. ledger[c.movement].account \in Account
      BY <1>6 DEF TypeOK, MovementRecord, Grounded, Posted
    <2>2. Plan(c) \in {<<AccountRow(ledger[c.movement].account), View>>,
                       <<AccountRow(ledger[c.movement].account)>>}
      BY <1>6 DEF Plan
    <2> QED BY <2>1, <2>2, OnePlan
  <1>7. CASE c.op = "status"
    <2>1. c.account \in Account /\ Plan(c) = <<AccountRow(c.account)>>
      BY <1>0, <1>7 DEF WellFormed, Plan
    <2> QED BY <2>1, OnePlan
  <1>8. c.op \notin ReservationOps \cup {"cancel expense"}
    BY DEF AgainstOrder
  <1> QED BY <1>0, <1>1, <1>2, <1>3, <1>4, <1>5, <1>6, <1>7, <1>8 DEF WellFormed, Op

(* A call that takes cash out of an account holds it when it scans.        *)
LEMMA ScannerHoldsAccount ==
  ASSUME IInv, NEW w \in Worker, Planned(w), NEW c, c = work[w].call, Debited(c) # None
  PROVE  Debited(c) \in Account /\ Holds(w, AccountRow(Debited(c)))
  <1> USE DEF IInv
  <1>0. c \in Call /\ WellFormed(c) /\ Grounded(c)
    BY CallOfWorker DEF Planned, PlanFollowed, FollowsPlan, Grounded
  <1>1. Debited(c) \in Account
    BY <1>0, DebitedType
  <1>2. CASE c.op = "manual"
    <2>1. Holds(w, AccountRow(c.account))
      BY <1>2, HeldByManual
    <2>2. Debited(c) = c.account
      BY <1>2 DEF Debited
    <2> QED BY <1>1, <2>1, <2>2
  <1>3. CASE c.op = "disburse"
    <2>1. Holds(w, AccountRow(c.account))
      BY <1>3, HeldForExpense
    <2>2. Debited(c) = c.account
      BY <1>3 DEF Debited
    <2> QED BY <1>1, <2>1, <2>2
  <1>4. CASE c.op = "refund"
    <2>1. Holds(w, AccountRow(c.account))
      BY <1>4, HeldByRefund
    <2>2. Debited(c) = c.account
      BY <1>4 DEF Debited
    <2> QED BY <1>1, <2>1, <2>2
  <1>5. CASE c.op = "transfer"
    <2>1. Holds(w, AccountRow(c.account))
      BY <1>5, HeldByTransfer
    <2>2. Debited(c) = c.account
      BY <1>5 DEF Debited
    <2> QED BY <1>1, <2>1, <2>2
  <1>6. CASE c.op = "reverse" /\ IsLeg(c.movement)
    <2>1. Holds(w, AccountRow(ledger[Credit(c.movement[2])].account))
      BY <1>6, HeldByTransferReversal
    <2>2. Debited(c) = ledger[Credit(c.movement[2])].account
      BY <1>6 DEF Debited
    <2> QED BY <1>1, <2>1, <2>2
  <1>7. CASE c.op = "reverse" /\ ~IsLeg(c.movement)
    <2>1. Holds(w, AccountRow(ledger[c.movement].account))
      BY <1>7, HeldByReversal
    <2>2. Debited(c) = ledger[c.movement].account
      BY <1>7 DEF Debited
    <2> QED BY <1>1, <2>1, <2>2
  <1>8. c.op \in {"manual", "disburse", "refund", "transfer", "reverse"}
    BY DEF Debited
  <1> QED BY <1>2, <1>3, <1>4, <1>5, <1>6, <1>7, <1>8

(* What a call in the order scans: the reservations of the account it      *)
(* debits, or the one it creates.                                          *)
LEMMA ScanInOrder ==
  ASSUME NEW c \in Call, ~AgainstOrder(c), NEW r \in DOMAIN reservation, MayScan(c, r)
  PROVE  \/ Debited(c) # None /\ reservation[r].account = Debited(c)
         \/ c.op = "reserve" /\ Debited(c) = None /\ r = c.reservation
  <1>1. CASE c.op = "reserve"
    BY <1>1 DEF Debited, MayScan
  <1>2. CASE c.op = "disburse" /\ r = c.reservation
    <2>1. Debited(c) = c.account /\ reservation[r].account = c.account
      BY <1>2 DEF AgainstOrder, Debited
    <2>2. c.account # None
      BY <1>2, TreasuryAssumption DEF WellFormed
    <2> QED BY <2>1, <2>2
  <1> QED BY <1>1, <1>2 DEF MayScan, AgainstOrder

(* Only the calls that lock the concession first have it in their plan.    *)
LEMMA ConcessionInPlan ==
  ASSUME NEW c \in Call, TypeOK, LedgerShape, Grounded(c), ~ConcessionFirst(c)
  PROVE  \A j \in 1..Len(Plan(c)) : Plan(c)[j] # ConcessionRow
  <1>a. \A x : /\ ConcessionRow # AccountRow(x) /\ ConcessionRow # ExpenseRow(x)
               /\ ConcessionRow # ReservationRow(x) /\ ConcessionRow # InvoiceRow(x)
               /\ ConcessionRow # View
    BY DEF AccountRow, ExpenseRow, ReservationRow, InvoiceRow, ConcessionRow, View
  <1>0. WellFormed(c)
    BY TreasuryAssumption
  <1>1. CASE c.op \in ReservationOps
    <2>1. Plan(c) \in {<<ReservationRow(c.reservation),
                         AccountRow(reservation[c.reservation].account), View>>,
                       <<ReservationRow(c.reservation),
                         AccountRow(reservation[c.reservation].account)>>}
      BY <1>1 DEF Plan, ReservationOps
    <2> QED BY <2>1, <1>a
  <1>2. CASE c.op \in {"manual", "status"}
    <2>1. Plan(c) \in {<<AccountRow(c.account)>>, <<AccountRow(c.account), View>>}
      BY <1>2 DEF Plan
    <2> QED BY <2>1, <1>a
  <1>3. CASE c.op = "refund"
    <2>1. Plan(c) = <<InvoiceRow(c.payment), View, AccountRow(c.account)>>
      BY <1>3 DEF Plan
    <2> QED BY <2>1, <1>a
  <1>4. CASE c.op = "transfer"
    <2>1. Plan(c) = <<AccountRow(Lower(c.account, c.to)), AccountRow(Higher(c.account, c.to)), View>>
      BY <1>4 DEF Plan
    <2> QED BY <2>1, <1>a
  <1>5. CASE c.op = "reverse" /\ IsLeg(c.movement)
    <2> DEFINE from == ledger[Debit(c.movement[2])].account
               to   == ledger[Credit(c.movement[2])].account
               clicked == ledger[c.movement].account
    <2>1. Plan(c) = <<AccountRow(clicked), View, AccountRow(Lower(from, to)), AccountRow(Higher(from, to))>>
      BY <1>5 DEF Plan, ReverseTransferPlan
    <2> HIDE DEF from, to, clicked
    <2> QED BY <2>1, <1>a
  <1>6. CASE c.op = "reverse" /\ ~IsLeg(c.movement)
    <2>1. Plan(c) \in {<<AccountRow(ledger[c.movement].account), View>>,
                       <<AccountRow(ledger[c.movement].account)>>}
      BY <1>6 DEF Plan
    <2> QED BY <2>1, <1>a
  <1>7. CASE c.op = "cancel expense"
    <2>1. Plan(c) = <<ExpenseRow(c.expense), View>>
      BY <1>7 DEF Plan
    <2> QED BY <2>1, <1>a
  <1> QED BY <1>0, <1>1, <1>2, <1>3, <1>4, <1>5, <1>6, <1>7 DEF WellFormed, Op, ConcessionFirst

(* Where no call that locks the concession first meets one that shares it  *)
(* last, whoever waits in a cycle waits for a row another one has locked.  *)
LEMMA RowsOnly ==
  ASSUME IInv, LocksExplained, NEW S \in SUBSET Worker, NEW w \in S, NEW x \in S,
         WaitsFor(w, x),
         \A y, z \in S : ~(ConcessionFirst(work[y].call) /\ ConcessionLast(work[z].call))
  PROVE  \E row \in Wants(w) : lock[row] = x /\ \A any \in Wants(w) : lock[any] # w
  <1> USE DEF IInv
  <1>1. \A y \in S : \A j \in Nat :
           /\ Busy(y) /\ j \in 1..Len(Plan(work[y].call))
           /\ Plan(work[y].call)[j] = ConcessionRow
           => ConcessionFirst(work[y].call)
    <2> SUFFICES ASSUME NEW y \in S, NEW j \in Nat, Busy(y), j \in 1..Len(Plan(work[y].call)),
                        Plan(work[y].call)[j] = ConcessionRow
                 PROVE  ConcessionFirst(work[y].call)
      OBVIOUS
    <2>1. PICK c \in Call : c = work[y].call
      BY CallOfWorker
    <2>2. Grounded(c)
      BY <2>1 DEF PlanFollowed, FollowsPlan, Grounded
    <2> QED BY <2>1, <2>2, ConcessionInPlan
  <1>2. ASSUME WantsShare(w), x # w, lock[ConcessionRow] = x
        PROVE  FALSE
    <2>1. ConcessionLast(work[w].call)
      BY <1>2 DEF WantsShare, ConcessionLast
    <2>2. Asked(x, ConcessionRow)
      BY <1>2, RowsOfAccounts DEF LocksExplained, Holds
    <2>3. Busy(x) /\ Passed(x, ConcessionRow)
      BY <2>2, NoReservation DEF Asked
    <2>4. ConcessionFirst(work[x].call)
      BY <1>1, <2>3 DEF Passed
    <2> QED BY <2>1, <2>4
  <1>3. PICK row \in Wants(w) : x \in Against(w, row) /\ \A any \in Wants(w) : Against(w, any) # {}
    BY <1>2 DEF WaitsFor
  <1>4. Busy(w) /\ work[w].call \in Call /\ work[w].step \in Nat /\ work[w].step >= 1
    <2>1. Busy(w)
      BY <1>3 DEF Wants, InPlan
    <2> QED BY <2>1, CallOfWorker DEF PlanFollowed, FollowsPlan
  <1>5. CASE InPlan(w)
    <2>1. Wants(w) = {row} /\ row = Current(w)
      BY <1>3, <1>5 DEF Wants
    <2>2. lock[row] = x
      <3> SUFFICES ASSUME row = ConcessionRow, x \in sharing PROVE FALSE
        BY <1>3 DEF Against
      <3>1. ConcessionLast(work[x].call)
        BY DEF LocksExplained, SharesExplained
      <3>2. work[w].step \in 1..Len(Plan(work[w].call))
        BY <1>4, <1>5, PlanLength DEF InPlan
      <3>3. ConcessionFirst(work[w].call)
        BY <1>1, <1>4, <2>1, <3>2 DEF Current
      <3> QED BY <3>1, <3>3
    <2>3. x # w
      BY <1>3 DEF Against
    <2> QED BY <2>1, <2>2, <2>3
  <1>6. CASE ~InPlan(w)
    <2>1. \A any \in Wants(w) : any # ConcessionRow
      BY <1>6, NoReservation DEF Wants
    <2>2. \A any \in Wants(w) : lock[any] # w
      BY <1>3, <2>1 DEF Against
    <2> QED BY <1>3, <2>1, <2>2 DEF Against
  <1> QED BY <1>5, <1>6

LEMMA NoCycleInOrder ==
  ASSUME IInv, LocksExplained, NEW S \in SUBSET Worker, IsFiniteSet(S), S # {},
         Deadlocked(S), \A w \in S : ~AgainstOrder(work[w].call),
         \A y, z \in S : ~(ConcessionFirst(work[y].call) /\ ConcessionLast(work[z].call))
  PROVE  FALSE
  <1> USE DEF IInv
  <1>1. \A w \in S : \E x \in S, row \in Wants(w) :
           lock[row] = x /\ \A any \in Wants(w) : lock[any] # w
    BY RowsOnly DEF Deadlocked
  <1>2. \A w \in S : /\ w \in Worker /\ Busy(w)
                     /\ work[w].call \in Call /\ Grounded(work[w].call)
                     /\ work[w].step \in Nat /\ work[w].step >= 1
                     /\ Len(Plan(work[w].call)) \in Nat
                     /\ Rising(Plan(work[w].call))
    <2> SUFFICES ASSUME NEW w \in S
                 PROVE  /\ Busy(w) /\ work[w].call \in Call /\ Grounded(work[w].call)
                        /\ work[w].step \in Nat /\ work[w].step >= 1
                        /\ Len(Plan(work[w].call)) \in Nat
                        /\ Rising(Plan(work[w].call))
      OBVIOUS
    <2>1. Busy(w)
      BY <1>1 DEF Wants, InPlan
    <2>2. PICK c \in Call : c = work[w].call
      BY <2>1, CallOfWorker
    <2>3. Grounded(c) /\ work[w].step \in Nat /\ work[w].step >= 1
      BY <2>1, <2>2, CallOfWorker DEF PlanFollowed, FollowsPlan, Grounded
    <2>4. ~AgainstOrder(c)
      BY <2>2
    <2> QED BY <2>1, <2>2, <2>3, <2>4, InOrder, PlanLength
  <1>3. \A w \in S : Planned(w) <=> ~InPlan(w)
    BY <1>2 DEF Planned, InPlan
  \* who holds a reservation that one of them waits for
  <1>4. ASSUME NEW w \in S, Planned(w)
        PROVE  \E x \in S, r \in DOMAIN reservation :
                  /\ x # w /\ Planned(x) /\ MayScan(work[w].call, r)
                  /\ reservation[r].account \in Account
                  /\ Debited(work[x].call) = reservation[r].account
                  /\ Holds(x, AccountRow(reservation[r].account))
    <2>1. PICK x \in S, row \in Wants(w) :
             lock[row] = x /\ \A any \in Wants(w) : lock[any] # w
      BY <1>1
    <2>2. PICK r \in Scanned(work[w].call) : row = ReservationRow(r)
      BY <1>3, <1>4, <2>1 DEF Wants
    <2>3. r \in DOMAIN reservation /\ MayScan(work[w].call, r)
      BY <2>2 DEF Scanned, MayScan
    <2>4. row \in Row /\ reservation[r].account \in Account
      BY <2>2, <2>3, RowsOfAccounts DEF TypeOK, ReservationRecord
    <2>5. Asked(x, row)
      BY <2>1, <2>4 DEF LocksExplained, Holds
    <2>6. ~Passed(x, row)
      BY <1>2, <2>2, RowsDiffer DEF Passed, Rising
    <2>7. Planned(x) /\ MayScan(work[x].call, r)
      BY <2>2, <2>5, <2>6 DEF Asked, ReservationRow
    <2>8. Debited(work[x].call) # None /\ reservation[r].account = Debited(work[x].call)
      <3>1. CASE work[x].call.op = "reserve" /\ Debited(work[x].call) = None
                 /\ r = work[x].call.reservation
        <4>1. PICK mine \in Wants(x) : lock[mine] # x
          BY <1>1
        <4>2. PICK q \in Scanned(work[x].call) : mine = ReservationRow(q)
          BY <1>3, <2>7, <4>1 DEF Wants
        <4>3. q = r
          BY <3>1, <4>2 DEF Scanned
        <4> QED BY <2>1, <2>2, <4>1, <4>2, <4>3
      <3> QED BY <1>2, <2>3, <2>7, <3>1, ScanInOrder
    <2>9. Holds(x, AccountRow(reservation[r].account))
      BY <1>2, <2>7, <2>8, ScannerHoldsAccount
    <2> QED BY <2>1, <2>3, <2>4, <2>7, <2>8, <2>9
  \* one account has one scanner, and a scanner waits for another
  <1>5. ASSUME NEW w \in S, Planned(w), Debited(work[w].call) # None
        PROVE  FALSE
    <2>1. PICK x \in S, r \in DOMAIN reservation :
             /\ x # w /\ MayScan(work[w].call, r)
             /\ Holds(x, AccountRow(reservation[r].account))
      BY <1>4, <1>5
    <2>2. reservation[r].account = Debited(work[w].call)
      BY <1>2, <1>5, <2>1, ScanInOrder
    <2>3. Holds(w, AccountRow(reservation[r].account))
      BY <1>2, <1>5, <2>2, ScannerHoldsAccount
    <2> QED BY <2>1, <2>3 DEF Holds
  <1>6. \A w \in S : InPlan(w)
    <2> SUFFICES ASSUME NEW w \in S, Planned(w) PROVE FALSE
      BY <1>3
    <2>1. PICK x \in S, r \in DOMAIN reservation :
             /\ Planned(x) /\ reservation[r].account \in Account
             /\ Debited(work[x].call) = reservation[r].account
      BY <1>4
    <2> QED BY <1>5, <2>1, TreasuryAssumption
  \* along the waits the wanted row rises
  <1>7. \A w \in S : /\ Current(w) # View /\ Current(w) \in Row
                     /\ Rank(Current(w)) \in Int
                     /\ \E x \in S : lock[Current(w)] = x
                     /\ lock[Current(w)] # w
    <2> SUFFICES ASSUME NEW w \in S
                 PROVE  /\ Current(w) # View /\ Current(w) \in Row
                        /\ Rank(Current(w)) \in Int
                        /\ \E x \in S : lock[Current(w)] = x
                        /\ lock[Current(w)] # w
      OBVIOUS
    <2>1. Wants(w) = {Current(w)} \ {View}
      BY <1>6 DEF Wants
    <2>2. /\ Current(w) # View /\ lock[Current(w)] # w
          /\ \E x \in S : lock[Current(w)] = x
      BY <1>1, <2>1
    <2>3. work[w].step \in 1..Len(Plan(work[w].call))
      BY <1>2, <1>6 DEF InPlan
    <2>4. Current(w) \in Row
      BY <1>2, <2>2, <2>3, PlanRows DEF Current
    <2>5. Rank(Current(w)) \in Int
      BY <1>2, <2>2, <2>3 DEF Rising, Current
    <2> QED BY <2>2, <2>4, <2>5
  <1>8. ASSUME NEW w \in S, NEW x \in S, lock[Current(w)] = x
        PROVE  Rank(Current(w)) < Rank(Current(x))
    <2>1. Passed(x, Current(w))
      BY <1>3, <1>6, <1>7, <1>8 DEF LocksExplained, Holds, Asked
    <2>2. PICK j \in 1..Len(Plan(work[x].call)) :
             j < work[x].step /\ Plan(work[x].call)[j] = Current(w)
      BY <2>1 DEF Passed
    <2>3. work[x].step \in 1..Len(Plan(work[x].call))
      BY <1>2, <1>6 DEF InPlan
    <2>4. Current(x) # View /\ Current(w) # View /\ Current(w) # Current(x)
      BY <1>7, <1>8
    <2> QED BY <1>2, <2>2, <2>3, <2>4 DEF Rising, Current
  <1> DEFINE f == [w \in S |-> Rank(Current(w))]
  <1>9. f \in [S -> Int]
    BY <1>7
  <1>10. PICK w \in S : \A x \in S : f[w] >= f[x]
    <2> HIDE DEF f
    <2> QED BY <1>9, Highest
  <1>11. PICK x \in S : lock[Current(w)] = x
    BY <1>7
  <1> QED BY <1>7, <1>8, <1>10, <1>11

(* Every deadlock has in it a call that locks against the order of         *)
(* docs/FIN-03-REPORT.md, or both one that locks the concession before its *)
(* account and one that shares it afterwards, for any number of concurrent *)
(* requests, accounts and reservations: the rest never deadlocks.          *)
THEOREM DeadlocksExplained == Spec => []DeadlocksAgainstOrder
  <1>1. IInv /\ LocksExplained => DeadlocksAgainstOrder
    BY NoCycleInOrder DEF DeadlocksAgainstOrder
  <1> QED BY <1>1, Invariance, LocksAsked, PTL

=============================================================================
