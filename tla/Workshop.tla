------------------------------- MODULE Workshop -------------------------------
(***************************************************************************)
(* A repair order, from the reception of the car to its handover, and the  *)
(* parts, the working sessions and the manufacturer's warranty it is made  *)
(* of: modules/workshop (workshop.routes.ts, warranty.routes.ts) and the   *)
(* stock rows of modules/parts.                                            *)
(*                                                                         *)
(* A handler that locks the rows it decides on is one action. The others   *)
(* read the order first and decide, or decide in part, on what they read:  *)
(* they are two actions, with anything in between.                         *)
(***************************************************************************)
EXTENDS Integers, Sequences, FiniteSets, FiniteSetsExt

CONSTANTS
    Order,
    Labor, Part,        \* lines of an estimate
    Free,               \* parts reserved without an estimate
    Extra,              \* parts put on an order from the stock
    Of,                 \* the order of a line
    Quantity,           \* the quantity of a line, for a unit price of one
    Technician, Bay, Clerk,
    MaxStock, MaxInvoice,                   \* bounds on the stock and on the rows
    Plans,              \* bounds of what happens, one of which is drawn at the start
    None

Line == Labor \cup Part \cup Free \cup Extra
Errand == {"warranty", "removal", "edit", "job", "session", "pause", "release", "stock", "void",
           "manual", "abandon", "failure", "cancellation"}
Plan == [order : SUBSET Order, line : SUBSET Line, clerk : SUBSET Clerk, left : [Errand -> Nat]]

ASSUME WorkshopAssumption ==
    /\ Labor \cap (Part \cup Free \cup Extra) = {}
    /\ Part \cap (Free \cup Extra) = {} /\ Free \cap Extra = {}
    /\ Of \in [Line -> Order] /\ Quantity \in [Line -> Nat \ {0}]
    /\ MaxStock \in Nat /\ MaxInvoice \in Nat
    /\ Plans \subseteq Plan

Status == {"planned", "received", "diagnosis", "waiting_approval", "in_progress",
           "quality_control", "ready", "invoiced", "delivered", "closed", "cancelled",
           "abandonment_pending", "abandoned"}
\* normalTransitions
Transitions == {<<"planned", "received">>, <<"received", "diagnosis">>,
                <<"diagnosis", "waiting_approval">>, <<"waiting_approval", "in_progress">>,
                <<"in_progress", "quality_control">>, <<"quality_control", "ready">>,
                <<"quality_control", "in_progress">>, <<"delivered", "closed">>}
Writable == {"planned", "received", "diagnosis", "waiting_approval", "in_progress"}
Reservable == {"diagnosis", "waiting_approval", "in_progress"}
Abandonable == (Writable \cup {"quality_control", "ready", "invoiced"})

OrderRow == [status : Status \cup {"none"}, inspected : BOOLEAN, diagnosed : BOOLEAN,
             approval : {"none", "yes", "no"}, entries : Nat, controls : Nat, passed : BOOLEAN]
WarrantyRow == [decision : {"none", "PENDING", "APPROVED", "REJECTED"},
                allocation : {"UNALLOCATED", "DRAFT", "CONFIRMED"}, version : Nat, claim : Nat]
JobRow == [status : {"none", "planned", "assigned", "in_progress", "completed", "cancelled"},
           technician : Technician \cup {None}]
SessionRow == [job : Labor, technician : Technician, bay : Bay \cup {None},
               status : {"running", "paused", "completed"}]
ReservationRow == [status : {"none", "reserved", "consumed", "released"}, consumed : Nat]
ItemRow == [status : {"none", "active", "cancelled"}, quantity : Nat]
InvoiceRow == [order : Order, amount : Nat, paid : BOOLEAN, live : BOOLEAN]

VARIABLES
    order,              \* repair_orders, their inspection, diagnostic, approval and controls
    warranty,           \* repair_order_warranties and warranty_claims
    share,              \* repair_order_warranty_allocations
    estimate,           \* repair_order_estimate_items
    job,                \* interventions
    sessions,           \* work_sessions
    reservation,        \* part_reservations
    item,               \* repair_order_items
    stock,              \* a row of part_stocks; supplied: what was ever put in it
    invoices,           \* invoices of the orders
    request,            \* what each clerk is about to write
    plan                \* what may still happen

money == <<warranty, share, invoices>>
work == <<estimate, job, sessions>>
parts == <<reservation, item, stock>>
vars == <<order, money, work, parts, request, plan>>

Init ==
    /\ order = [o \in Order |-> [status |-> "none", inspected |-> FALSE, diagnosed |-> FALSE,
                    approval |-> "none", entries |-> 0, controls |-> 0, passed |-> FALSE]]
    /\ warranty = [o \in Order |-> [decision |-> "none", allocation |-> "UNALLOCATED",
                                    version |-> 1, claim |-> 0]]
    /\ share = [l \in Line |-> None]
    /\ estimate = {} /\ sessions = <<>> /\ invoices = <<>>
    /\ job = [l \in Labor |-> [status |-> "none", technician |-> None]]
    /\ reservation = [l \in Part \cup Free |-> [status |-> "none", consumed |-> 0]]
    /\ item = [l \in Line |-> [status |-> "none", quantity |-> 0]]
    /\ stock \in [current : {MaxStock}, reserved : {0}, supplied : {MaxStock}]
    /\ request = [c \in Clerk |-> None]
    /\ plan \in Plans

Does(errand) ==
    plan.left[errand] > 0 /\ plan' = [plan EXCEPT !.left[errand] = @ - 1]

LinesOf(o) == {l \in Line : Of[l] = o}
Estimated(o) == estimate \cap LinesOf(o)
ActiveItems(o) == {l \in LinesOf(o) : item[l].status = "active"}
Reserved(o) == {l \in (Part \cup Free) \cap LinesOf(o) : reservation[l].status = "reserved"}
Remaining(l) == Quantity[l] - reservation[l].consumed
Kept(lines) == SumFunctionOnSet([l \in lines |-> Remaining(l)], lines)
Available == stock.current - stock.reserved
OpenJobs(o) == {l \in Labor \cap LinesOf(o) : job[l].status \in {"planned", "assigned", "in_progress"}}
SessionsOf(o) == {s \in DOMAIN sessions : Of[sessions[s].job] = o}
Underway(s) == sessions[s].status \in {"running", "paused"}
LiveInvoices(o) == {i \in DOMAIN invoices : invoices[i].order = o /\ invoices[i].live}
Settled(i) == invoices[i].paid \/ invoices[i].amount = 0
Moves(o, next) == order' = [order EXCEPT ![o].status = next]

\* assertWorkNotStarted
NotStarted(o) == SessionsOf(o) = {}

\* cleanupAbandonment: open interventions are cancelled, live reservations released
Cleanup(o) ==
    /\ job' = [l \in Labor |-> IF l \in OpenJobs(o) THEN [job[l] EXCEPT !.status = "cancelled"]
                               ELSE job[l]]
    /\ reservation' = [l \in Part \cup Free |->
                          IF l \in Reserved(o) THEN [reservation[l] EXCEPT !.status = "released"]
                          ELSE reservation[l]]
    /\ stock' = [stock EXCEPT !.reserved = @ - Kept(Reserved(o))]

\* invalidateWarrantyAllocation
Invalidated(o) ==
    IF warranty[o].allocation # "CONFIRMED" THEN warranty[o]
    ELSE [warranty[o] EXCEPT !.version = @ + 1,
              !.allocation = IF warranty[o].decision = "APPROVED" THEN "DRAFT" ELSE @]
Invalidate(o) == warranty' = [warranty EXCEPT ![o] = Invalidated(o)]

(***************************************************************************)
(* The order and its estimate.                                             *)
(***************************************************************************)
Create(o, eligible) ==
    /\ o \in plan.order /\ order[o].status = "none"
    /\ Moves(o, "planned")
    /\ IF eligible THEN Does("warranty") ELSE UNCHANGED plan
    /\ warranty' = IF eligible THEN [warranty EXCEPT ![o].decision = "PENDING"] ELSE warranty
    /\ UNCHANGED <<share, invoices, work, parts, request>>

Estimating(o) ==
    order[o].status \in {"diagnosis", "waiting_approval"} /\ order[o].approval = "none"

AddEstimate(l) ==
    /\ l \in plan.line /\ l \notin estimate
    /\ Estimating(Of[l])
    /\ estimate' = estimate \cup {l}
    /\ UNCHANGED <<order, money, job, sessions, parts, request, plan>>

RemoveEstimate(l) ==
    /\ Does("removal")
    /\ l \in estimate
    /\ Estimating(Of[l])
    /\ estimate' = estimate \ {l}
    /\ UNCHANGED <<order, money, job, sessions, parts, request>>

Approve(o, yes) ==
    /\ order[o].status = "waiting_approval"
    /\ NotStarted(o)
    /\ warranty[o].decision # "PENDING"
    /\ order[o].approval = "none"
    /\ Estimated(o) # {}
    /\ IF yes
       THEN order' = [order EXCEPT ![o].approval = "yes"] /\ UNCHANGED <<job, reservation, stock, plan>>
       ELSE /\ Does("cancellation") /\ Cleanup(o)
            /\ order' = [order EXCEPT ![o] = [@ EXCEPT !.approval = "no", !.status = "cancelled"]]
    /\ UNCHANGED <<money, estimate, sessions, item, request>>

\* POST /repair-orders/:id/quality-control
Control(o, passed) ==
    /\ order[o].status = "quality_control"
    /\ order[o].controls < order[o].entries
    /\ order' = [order EXCEPT ![o] = [order[o] EXCEPT !.controls = @ + 1, !.passed = passed]]
    /\ UNCHANGED <<money, work, parts, request, plan>>

\* POST /repair-orders/:id/abandonment
Abandon(o) ==
    /\ Does("abandon")
    /\ NotStarted(o)
    /\ order[o].status \in Abandonable
    /\ Moves(o, "abandonment_pending")
    /\ UNCHANGED <<money, work, parts, request>>

\* POST /repair-orders/:id/abandonment/finalize
Finalize(o) ==
    /\ order[o].status = "abandonment_pending"
    /\ NotStarted(o)
    /\ IF LiveInvoices(o) # {} THEN Settled(Max(LiveInvoices(o))) ELSE ActiveItems(o) = {}
    /\ Cleanup(o)
    /\ Moves(o, "abandoned")
    /\ UNCHANGED <<money, estimate, sessions, item, request, plan>>

(***************************************************************************)
(* Parts: reservations, consumption, lines put on the order.               *)
(***************************************************************************)
Reserving(l) ==
    /\ reservation[l].status = "none"
    /\ Available >= Quantity[l]
    /\ reservation' = [reservation EXCEPT ![l].status = "reserved"]
    /\ stock' = [stock EXCEPT !.reserved = @ + Quantity[l]]

Reserve(l) ==
    /\ l \in estimate \cap Part
    /\ order[Of[l]].status = "in_progress"
    /\ order[Of[l]].approval = "yes"
    /\ Reserving(l)
    /\ UNCHANGED <<order, money, work, item, request, plan>>

\* Mutant: what remains of the reservation is not compared.
ConsumeBeyond(l, quantity) ==
    LET o == Of[l]
        consumed == reservation[l].consumed + quantity
    IN
    /\ order[o].status \in Reservable
    /\ reservation[l].status = "reserved"
    /\ stock' = [stock EXCEPT !.reserved = @ - quantity, !.current = @ - quantity]
    /\ reservation' = [reservation EXCEPT ![l] =
           [status |-> IF consumed = Quantity[l] THEN "consumed" ELSE "reserved",
            consumed |-> consumed]]
    /\ item' = [item EXCEPT ![l] =
           [status |-> IF @.status = "none" THEN "active" ELSE @.status,
            quantity |-> @.quantity + quantity]]
    /\ Invalidate(o)
    /\ UNCHANGED <<order, share, invoices, work, request, plan>>

\* PATCH /parts/reservations/:reservationId, consumed: of an estimate in part
Consume(l, quantity) ==
    LET o == Of[l]
        consumed == reservation[l].consumed + quantity
    IN
    /\ order[o].status \in Reservable
    /\ reservation[l].status = "reserved"
    /\ quantity <= Remaining(l)
    /\ l \in Free => quantity = Remaining(l)
    /\ stock' = [stock EXCEPT !.reserved = @ - quantity, !.current = @ - quantity]
    /\ reservation' = [reservation EXCEPT ![l] =
           [status |-> IF consumed = Quantity[l] THEN "consumed" ELSE "reserved",
            consumed |-> consumed]]
    /\ item' = [item EXCEPT ![l] =
           [status |-> IF @.status = "none" THEN "active" ELSE @.status,
            quantity |-> @.quantity + quantity]]
    /\ Invalidate(o)
    /\ UNCHANGED <<order, share, invoices, work, request, plan>>

\* the same, released
Release(l) ==
    /\ Does("release")
    /\ order[Of[l]].status \in Reservable
    /\ reservation[l].status = "reserved"
    /\ stock' = [stock EXCEPT !.reserved = @ - Remaining(l)]
    /\ reservation' = [reservation EXCEPT ![l].status = "released"]
    /\ UNCHANGED <<order, money, work, item, request>>

\* POST /items for the labor of an estimate: refused once the line has a row,
\* were it cancelled
PutLabor(l) ==
    LET o == Of[l] IN
    /\ l \in estimate \cap Labor
    /\ order[o].status = "in_progress" /\ order[o].approval = "yes"
    /\ item[l].status = "none"
    /\ item' = [item EXCEPT ![l] = [status |-> "active", quantity |-> Quantity[l]]]
    /\ Invalidate(o)
    /\ UNCHANGED <<order, share, invoices, work, reservation, stock, request, plan>>

\* Mutant: a new line does not take the shares back.
PutPartQuietly(l) ==
    LET o == Of[l] IN
    /\ l \in Extra \cap plan.line
    /\ order[o].status = "in_progress"
    /\ item[l].status = "none"
    /\ Available >= Quantity[l]
    /\ stock' = [stock EXCEPT !.current = @ - Quantity[l]]
    /\ item' = [item EXCEPT ![l] = [status |-> "active", quantity |-> Quantity[l]]]
    /\ UNCHANGED <<order, money, work, reservation, request, plan>>

\* POST /items for a part of the stock
PutPart(l) ==
    LET o == Of[l] IN
    /\ l \in Extra \cap plan.line
    /\ order[o].status = "in_progress"
    /\ item[l].status = "none"
    /\ Available >= Quantity[l]
    /\ stock' = [stock EXCEPT !.current = @ - Quantity[l]]
    /\ item' = [item EXCEPT ![l] = [status |-> "active", quantity |-> Quantity[l]]]
    /\ Invalidate(o)
    /\ UNCHANGED <<order, share, invoices, work, reservation, request, plan>>

\* stockAfterDelta, an inventory count: what is not promised may come and go
ChangeStock(current) ==
    /\ Does("stock")
    /\ current # stock.current /\ current >= stock.reserved
    /\ stock' = [stock EXCEPT !.current = current, !.supplied = @ + current - stock.current]
    /\ UNCHANGED <<order, money, work, reservation, item, request>>

(***************************************************************************)
(* Interventions and working sessions.                                     *)
(***************************************************************************)
\* POST /estimate-items/:estimateItemId/intervention
PlanJob(l, t) ==
    /\ Does("job")
    /\ l \in estimate \cap Labor
    /\ order[Of[l]].status = "in_progress" /\ order[Of[l]].approval = "yes"
    /\ job[l].status = "none"
    /\ job' = [job EXCEPT ![l] = [status |-> "planned", technician |-> t]]
    /\ UNCHANGED <<order, money, estimate, sessions, parts, request>>

\* POST /repair-orders/:id/assign of an intervention, whatever its status
Assign(l, t) ==
    /\ Does("job")
    /\ order[Of[l]].status = "in_progress"
    /\ job[l].status # "none"
    /\ job' = [job EXCEPT ![l] = [job[l] EXCEPT !.technician = t,
                                  !.status = IF @ = "planned" THEN "assigned" ELSE @]]
    /\ UNCHANGED <<order, money, estimate, sessions, parts, request>>

JobSteps == {<<"planned", "assigned">>, <<"planned", "cancelled">>, <<"assigned", "cancelled">>,
             <<"in_progress", "completed">>, <<"in_progress", "cancelled">>}

StepJob(l, next) ==
    /\ order[Of[l]].status = "in_progress"
    /\ <<job[l].status, next>> \in JobSteps
    /\ next = "completed" => ~ \E s \in DOMAIN sessions : sessions[s].job = l /\ Underway(s)
    /\ IF next = "completed" THEN UNCHANGED plan ELSE Does("job")
    /\ job' = [job EXCEPT ![l].status = next]
    /\ UNCHANGED <<order, money, estimate, sessions, parts, request>>

Occupied(t, b) == \E s \in DOMAIN sessions :
    Underway(s) /\ (sessions[s].technician = t \/ (b # None /\ sessions[s].bay = b))
Running(t, b) == \E s \in DOMAIN sessions :
    sessions[s].status = "running" /\ (sessions[s].technician = t \/ (b # None /\ sessions[s].bay = b))

Starting(l, t, b) ==
    /\ Does("session")
    /\ order[Of[l]].approval # "no"
    /\ job[l].status \notin {"none", "completed", "cancelled"}
    /\ job[l].technician = t
    /\ sessions' = Append(sessions, [job |-> l, technician |-> t, bay |-> b, status |-> "running"])
    /\ job' = [job EXCEPT ![l].status = "in_progress"]
    /\ UNCHANGED <<order, money, estimate, parts, request>>

\* Mutant: a paused session does not occupy its technician.
StartBesidePaused(l, t, b) ==
    order[Of[l]].status = "in_progress" /\ ~ Running(t, b) /\ Starting(l, t, b)

\* POST /sessions/start
Start(l, t, b) ==
    order[Of[l]].status = "in_progress" /\ ~ Occupied(t, b) /\ Starting(l, t, b)

\* whatever the order says
Pause(s) ==
    /\ Does("pause")
    /\ sessions[s].status = "running"
    /\ sessions' = [sessions EXCEPT ![s].status = "paused"]
    /\ UNCHANGED <<order, money, estimate, job, parts, request>>

(***************************************************************************)
(* The invoice of the customer, the claim of the manufacturer.             *)
(***************************************************************************)
Shared(lines) == {l \in lines : share[l] # None}
Claimed(lines) == SumFunctionOnSet(share, Shared(lines))
Billed(lines) == SumFunctionOnSet([l \in lines |-> item[l].quantity], lines)

\* POST /repair-orders/:id/invoice; a warranty has one claim (UNIQUE)
Invoice(o) ==
    LET approved == warranty[o].decision = "APPROVED"
        claim == IF approved THEN Claimed(ActiveItems(o)) ELSE 0
        total == Billed(ActiveItems(o))
    IN
    /\ order[o].status \in {"ready", "invoiced"}
    /\ LiveInvoices(o) = {}
    /\ Len(invoices) < MaxInvoice
    /\ warranty[o].decision # "PENDING"
    /\ approved => /\ warranty[o].allocation = "CONFIRMED"
                   /\ \A l \in Shared(ActiveItems(o)) : share[l] <= item[l].quantity
    /\ claim > 0 => warranty[o].claim = 0
    /\ invoices' = Append(invoices, [order |-> o, amount |-> total - claim,
                                     paid |-> FALSE, live |-> TRUE])
    /\ warranty' = [warranty EXCEPT ![o].claim = IF claim > 0 THEN claim ELSE @]
    /\ Moves(o, "invoiced")
    /\ UNCHANGED <<share, work, parts, request, plan>>

Invoicing(next) ==
    /\ invoices' = next
    /\ UNCHANGED <<order, warranty, share, work, parts, request>>

\* POST /invoices for an order, in whatever status
ManualInvoice(o) ==
    /\ Does("manual")
    /\ order[o].status # "none" /\ Len(invoices) < MaxInvoice
    /\ Invoicing(Append(invoices, [order |-> o, amount |-> 1, paid |-> FALSE, live |-> TRUE]))

Pay(i) ==
    /\ invoices[i].live /\ ~ Settled(i)
    /\ Invoicing([invoices EXCEPT ![i].paid = TRUE])
    /\ UNCHANGED plan

\* cancelUnpaidInvoice
Void(i) ==
    /\ Does("void")
    /\ invoices[i].live /\ ~ invoices[i].paid
    /\ Invoicing([invoices EXCEPT ![i].live = FALSE])

\* Mutant: the state of the warranty is not looked at.
HandoverUnclaimed(o) ==
    /\ order[o].status = "invoiced"
    /\ order[o].passed
    /\ LiveInvoices(o) # {} /\ Settled(Max(LiveInvoices(o)))
    /\ Moves(o, "delivered")
    /\ UNCHANGED <<money, work, parts, request, plan>>

\* POST /repair-orders/:id/handover; the shares of cancelled lines count too
Handover(o) ==
    /\ order[o].status = "invoiced"
    /\ order[o].passed
    /\ LiveInvoices(o) # {} /\ Settled(Max(LiveInvoices(o)))
    /\ warranty[o].decision = "APPROVED" =>
           /\ warranty[o].allocation = "CONFIRMED"
           /\ Claimed(LinesOf(o)) > 0 => warranty[o].claim > 0
    /\ Moves(o, "delivered")
    /\ UNCHANGED <<money, work, parts, request, plan>>

(***************************************************************************)
(* What is decided on an order read before the transaction: each read is   *)
(* under the handler's own checks, each write under those it makes again.  *)
(***************************************************************************)
Late ==
    [op : {"status"}, order : Order, from : Status, next : Status]
        \cup [op : {"inspection", "diagnostic"}, order : Order]
        \cup [op : {"warranty", "decision", "shares", "confirmation"}, order : Order, version : Nat]
        \cup [op : {"reservation"}, line : Free]
        \cup [op : {"edit"}, line : Line, quantity : Nat]
        \cup [op : {"resume", "stop"}, session : Nat]

Reads(c, late) ==
    /\ c \in plan.clerk /\ request[c] = None
    /\ request' = [request EXCEPT ![c] = late]
    /\ UNCHANGED <<order, money, work, parts>>

Doing(c, op) ==
    /\ request[c] # None /\ request[c].op = op
    /\ request' = [request EXCEPT ![c] = None]

\* refused by the transaction, or lost before it
Drop(c) ==
    /\ request[c] # None
    /\ request' = [request EXCEPT ![c] = None]
    /\ UNCHANGED <<order, money, work, parts, plan>>

\* PATCH /repair-orders/:id/status
ReadStatus(c, o, next) ==
    LET from == order[o].status IN
    /\ \/ /\ <<from, next>> \in Transitions
          /\ IF from = "quality_control" /\ next = "in_progress"
             THEN Does("failure") ELSE UNCHANGED plan
       \/ /\ next = "cancelled" /\ Does("cancellation")
          /\ from \notin {"none", "ready", "invoiced", "delivered", "closed", "cancelled"}
    /\ next = "received" => order[o].inspected
    /\ next = "waiting_approval" => order[o].diagnosed /\ Estimated(o) # {}
    /\ next = "in_progress" => IF from = "quality_control"
                               THEN order[o].controls > 0 /\ ~ order[o].passed
                               ELSE order[o].approval = "yes"
    /\ next = "quality_control" =>
           /\ OpenJobs(o) = {}
           /\ \A s \in SessionsOf(o) : sessions[s].status # "running"
    /\ next = "ready" => order[o].passed
    /\ Reads(c, [op |-> "status", order |-> o, from |-> from, next |-> next])

\* the lines billed are those of the estimate, the warranty is shared out
ReadyForControl(o) ==
    /\ Estimated(o) \subseteq ActiveItems(o) /\ ActiveItems(o) # {}
    /\ warranty[o].decision # "PENDING"
    /\ warranty[o].decision = "APPROVED" => warranty[o].allocation = "CONFIRMED"

WriteStatus(c) ==
    LET late == request[c]
        o == late.order
    IN
    /\ Doing(c, "status") /\ late.next # "cancelled"
    /\ order[o].status = late.from
    /\ late.next = "quality_control" => ReadyForControl(o)
    /\ late.next \in {"received", "in_progress"} => warranty[o].decision # "PENDING"
    /\ late.next = "in_progress" => order[o].approval # "no"
    /\ order' = [order EXCEPT ![o] = [order[o] EXCEPT !.status = late.next,
                     !.entries = IF late.next = "quality_control" THEN @ + 1 ELSE @]]
    /\ UNCHANGED <<money, work, parts, plan>>

\* Mutant: the work that started since the read is not looked at.
WriteCancelledLate(c) ==
    LET o == request[c].order IN
    /\ Doing(c, "status") /\ request[c].next = "cancelled"
    /\ order[o].status = request[c].from
    /\ ActiveItems(o) = {}
    /\ Cleanup(o)
    /\ Moves(o, "cancelled")
    /\ UNCHANGED <<money, estimate, sessions, item, plan>>

WriteCancelled(c) ==
    LET o == request[c].order IN
    /\ Doing(c, "status") /\ request[c].next = "cancelled"
    /\ order[o].status = request[c].from
    /\ NotStarted(o)
    /\ \A l \in Labor \cap LinesOf(o) : job[l].status # "completed"
    /\ \A l \in (Part \cup Free) \cap LinesOf(o) : reservation[l].consumed = 0
    /\ ActiveItems(o) = {}
    /\ Cleanup(o)
    /\ Moves(o, "cancelled")
    /\ UNCHANGED <<money, estimate, sessions, item, plan>>

\* POST /repair-orders/:id/inspection
ReadInspection(c, o) ==
    /\ order[o].status = "planned"
    /\ Reads(c, [op |-> "inspection", order |-> o]) /\ UNCHANGED plan
WriteInspection(c) ==
    LET o == request[c].order IN
    /\ Doing(c, "inspection")
    /\ warranty[o].decision # "PENDING" /\ ~ order[o].inspected
    /\ order' = [order EXCEPT ![o].inspected = TRUE]
    /\ UNCHANGED <<money, work, parts, plan>>

\* POST /repair-orders/:id/diagnostics
ReadDiagnostic(c, o) ==
    /\ order[o].status \in {"received", "diagnosis"}
    /\ Reads(c, [op |-> "diagnostic", order |-> o]) /\ UNCHANGED plan
WriteDiagnostic(c) ==
    LET o == request[c].order IN
    /\ Doing(c, "diagnostic")
    /\ ~ order[o].diagnosed
    /\ order' = [order EXCEPT ![o].diagnosed = TRUE]
    /\ UNCHANGED <<money, work, parts, plan>>

\* the four handlers of warranty.routes.ts, under the version the clerk saw
ReadWarranty(c, o, op) ==
    /\ op # "decision" => Does("warranty")
    /\ op = "decision" => UNCHANGED plan
    /\ CASE op = "warranty" -> order[o].status \notin {"none", "quality_control", "ready", "invoiced",
                                                       "delivered", "closed"}
         [] op = "decision" -> order[o].status \in Writable
         [] OTHER -> order[o].status = "in_progress"
    /\ Reads(c, [op |-> op, order |-> o, version |-> warranty[o].version])

\* what the clerk saw still stands
SameVersion(c, op) == Doing(c, op) /\ warranty[request[c].order].version = request[c].version

\* PUT /warranty creates a request, or changes its texts
WriteWarranty(c) ==
    LET o == request[c].order IN
    /\ Doing(c, "warranty")
    /\ warranty[o].decision # "none" => SameVersion(c, "warranty")
    /\ warranty' = [warranty EXCEPT ![o] =
           IF warranty[o].decision = "none" THEN [warranty[o] EXCEPT !.decision = "PENDING"]
           ELSE [warranty[o] EXCEPT !.version = @ + 1]]
    /\ UNCHANGED <<order, share, invoices, work, parts, plan>>

\* POST /warranty/decision
WriteDecision(c, approved) ==
    LET o == request[c].order IN
    /\ SameVersion(c, "decision")
    /\ warranty[o].decision = "PENDING"
    /\ warranty' = [warranty EXCEPT ![o] = [warranty[o] EXCEPT !.version = @ + 1,
                        !.decision = IF approved THEN "APPROVED" ELSE "REJECTED",
                        !.allocation = IF approved THEN "DRAFT" ELSE "CONFIRMED"]]
    /\ share' = [l \in Line |-> IF ~ approved /\ Of[l] = o THEN None ELSE share[l]]
    /\ UNCHANGED <<order, invoices, work, parts, plan>>

\* PUT /warranty/allocations: every active line, wholly covered or not
WriteShares(c, covered) ==
    LET o == request[c].order IN
    /\ SameVersion(c, "shares")
    /\ warranty[o].decision = "APPROVED"
    /\ covered \subseteq ActiveItems(o)
    /\ share' = [l \in Line |-> IF l \in ActiveItems(o)
                                THEN IF l \in covered THEN item[l].quantity ELSE 0
                                ELSE share[l]]
    /\ warranty' = [warranty EXCEPT ![o] = [warranty[o] EXCEPT !.allocation = "DRAFT", !.version = @ + 1]]
    /\ UNCHANGED <<order, invoices, work, parts, plan>>

\* POST /warranty/confirm
WriteConfirmation(c) ==
    LET o == request[c].order IN
    /\ SameVersion(c, "confirmation")
    /\ warranty[o].decision = "APPROVED"
    /\ ActiveItems(o) # {}
    /\ \A l \in ActiveItems(o) : share[l] # None /\ share[l] <= item[l].quantity
    /\ warranty' = [warranty EXCEPT ![o] = [warranty[o] EXCEPT !.allocation = "CONFIRMED", !.version = @ + 1]]
    /\ UNCHANGED <<order, share, invoices, work, parts, plan>>

\* POST /parts/reserve
ReadReservation(c, l) ==
    LET o == Of[l] IN
    /\ l \in plan.line
    /\ order[o].status \in Reservable
    /\ order[o].approval = "yes" => Estimated(o) \cap Part = {}
    /\ Reads(c, [op |-> "reservation", line |-> l]) /\ UNCHANGED plan
WriteReservation(c) ==
    LET l == request[c].line IN
    /\ Doing(c, "reservation")
    /\ order[Of[l]].status \in Reservable
    /\ Reserving(l)
    /\ UNCHANGED <<order, money, work, item, plan>>

\* PATCH and DELETE /items/:itemId: quantity 0 cancels the line
ReadEdit(c, l, quantity) ==
    /\ Does("edit")
    /\ order[Of[l]].status \in Writable
    /\ Reads(c, [op |-> "edit", line |-> l, quantity |-> quantity])

\* Mutant: a line that is no longer active is given back again.
WriteEditAgain(c) ==
    LET late == request[c]
        l == late.line
        delta == late.quantity - item[l].quantity
    IN
    /\ Doing(c, "edit")
    /\ item[l].status # "none"
    /\ l \notin Labor /\ delta > 0 => Available >= delta
    /\ stock' = IF l \in Labor THEN stock ELSE [stock EXCEPT !.current = @ - delta]
    /\ item' = [item EXCEPT ![l] = IF late.quantity = 0 THEN [@ EXCEPT !.status = "cancelled"]
                                   ELSE [@ EXCEPT !.quantity = late.quantity]]
    /\ Invalidate(Of[l])
    /\ UNCHANGED <<order, share, invoices, work, reservation, plan>>

WriteEdit(c) ==
    LET late == request[c]
        l == late.line
        delta == late.quantity - item[l].quantity
    IN
    /\ Doing(c, "edit")
    /\ item[l].status = "active"
    /\ l \notin Labor /\ delta > 0 => Available >= delta
    /\ stock' = IF l \in Labor THEN stock ELSE [stock EXCEPT !.current = @ - delta]
    /\ item' = [item EXCEPT ![l] = IF late.quantity = 0 THEN [@ EXCEPT !.status = "cancelled"]
                                   ELSE [@ EXCEPT !.quantity = late.quantity]]
    /\ Invalidate(Of[l])
    /\ UNCHANGED <<order, share, invoices, work, reservation, plan>>

\* PATCH /sessions/:sessionId/resume: another paused session does not matter
ReadResume(c, s) ==
    /\ order[Of[sessions[s].job]].status = "in_progress"
    /\ Reads(c, [op |-> "resume", session |-> s]) /\ UNCHANGED plan
WriteResume(c) ==
    LET s == request[c].session IN
    /\ Doing(c, "resume")
    /\ sessions[s].status = "paused"
    /\ \A r \in DOMAIN sessions \ {s} :
           ~ (sessions[r].technician = sessions[s].technician /\ sessions[r].status = "running")
    /\ sessions' = [sessions EXCEPT ![s].status = "running"]
    /\ UNCHANGED <<order, money, estimate, job, parts, plan>>

\* PATCH /sessions/:sessionId/stop: the intervention is under way, whatever it was
ReadStop(c, s) ==
    /\ order[Of[sessions[s].job]].status \in {"in_progress", "abandonment_pending"}
    /\ Reads(c, [op |-> "stop", session |-> s]) /\ UNCHANGED plan
WriteStop(c) ==
    LET s == request[c].session IN
    /\ Doing(c, "stop")
    /\ Underway(s)
    /\ sessions' = [sessions EXCEPT ![s].status = "completed"]
    /\ job' = [job EXCEPT ![sessions[s].job].status = "in_progress"]
    /\ UNCHANGED <<order, money, estimate, parts, plan>>

OrderStep == \E o \in Order :
    \/ \E yes \in BOOLEAN : Create(o, yes) \/ Approve(o, yes) \/ Control(o, yes)
    \/ Abandon(o) \/ Finalize(o) \/ Invoice(o) \/ ManualInvoice(o) \/ Handover(o)
InvoiceStep == \E i \in DOMAIN invoices : Pay(i) \/ Void(i)
PartStep ==
    \/ \E l \in Labor \cup Part : AddEstimate(l) \/ RemoveEstimate(l)
    \/ \E l \in Part : Reserve(l)
    \/ \E l \in Part \cup Free : Release(l) \/ \E q \in 1..Quantity[l] : Consume(l, q)
    \/ \E l \in Extra : PutPart(l)
    \/ \E current \in 0..MaxStock : ChangeStock(current)
WorkStep ==
    \/ \E l \in Labor : \/ PutLabor(l)
                        \/ \E t \in Technician \cup {None} : PlanJob(l, t)
                        \/ \E t \in Technician : Assign(l, t)
                        \/ \E next \in {"assigned", "completed", "cancelled"} : StepJob(l, next)
                        \/ \E t \in Technician, b \in Bay \cup {None} : Start(l, t, b)
    \/ \E s \in DOMAIN sessions : Pause(s)
ReadStep == \E c \in Clerk :
    \/ \E o \in Order : \/ \E next \in Status : ReadStatus(c, o, next)
                        \/ \E op \in {"warranty", "decision", "shares", "confirmation"} :
                               ReadWarranty(c, o, op)
                        \/ ReadInspection(c, o) \/ ReadDiagnostic(c, o)
    \/ \E l \in Free : ReadReservation(c, l)
    \/ \E l \in Line : item[l].status # "none" /\ \E q \in 0..item[l].quantity + 1 : ReadEdit(c, l, q)
    \/ \E s \in DOMAIN sessions : ReadResume(c, s) \/ ReadStop(c, s)
WriteStep == \E c \in Clerk :
    \/ WriteStatus(c) \/ WriteCancelled(c) \/ WriteInspection(c) \/ WriteDiagnostic(c)
    \/ WriteWarranty(c) \/ \E yes \in BOOLEAN : WriteDecision(c, yes)
    \/ \E covered \in SUBSET Line : WriteShares(c, covered)
    \/ WriteConfirmation(c) \/ WriteReservation(c) \/ WriteEdit(c)
    \/ WriteResume(c) \/ WriteStop(c) \/ Drop(c)

Next == OrderStep \/ InvoiceStep \/ PartStep \/ WorkStep \/ ReadStep \/ WriteStep

Spec == Init /\ [][Next]_vars

(***************************************************************************)
(* Properties.                                                             *)
(***************************************************************************)
TypeOK ==
    /\ order \in [Order -> OrderRow] /\ warranty \in [Order -> WarrantyRow]
    /\ share \in [Line -> Nat \cup {None}]
    /\ estimate \subseteq Labor \cup Part
    /\ job \in [Labor -> JobRow] /\ sessions \in Seq(SessionRow)
    /\ reservation \in [Part \cup Free -> ReservationRow]
    /\ item \in [Line -> ItemRow]
    /\ stock \in [current : Nat, reserved : Nat, supplied : Int]
    /\ invoices \in Seq(InvoiceRow)
    /\ request \in [Clerk -> Late \cup {None}]
    /\ plan \in Plan

\* The reserved stock is what the live reservations of all the orders still
\* hold, and it is there; a part is on one order or in the stock, never both,
\* whoever takes, edits, cancels, releases or counts.
PartsOnce ==
    /\ stock.reserved = Kept(UNION {Reserved(o) : o \in Order})
    /\ stock.reserved <= stock.current
    /\ stock.current + Billed(UNION {ActiveItems(o) \ Labor : o \in Order}) <= stock.supplied

\* An order that was cancelled or abandoned holds no part and no open
\* intervention, and nobody ever worked on it: a session that starts while
\* someone gives the order up is never lost.
StoppedHoldsNothing ==
    \A o \in Order : order[o].status \in {"cancelled", "abandoned"} =>
        Reserved(o) = {} /\ OpenJobs(o) = {} /\ SessionsOf(o) = {}

\* A technician and a bay are in one session at a time, running or paused,
\* across the orders.
OneActiveSession ==
    \A r, s \in DOMAIN sessions :
        r # s /\ Underway(r) /\ Underway(s) =>
            /\ sessions[r].technician # sessions[s].technician
            /\ sessions[r].bay = sessions[s].bay => sessions[r].bay = None

\* A confirmed warranty shares out every active line, none beyond its amount,
\* although lines come, go and change while it is confirmed.
ConfirmedAllocates ==
    \A o \in Order : warranty[o].decision = "APPROVED" /\ warranty[o].allocation = "CONFIRMED" =>
        \A l \in ActiveItems(o) : share[l] # None /\ share[l] <= item[l].quantity

\* A car leaves with its last control passed, an invoice settled, and the claim
\* on the manufacturer equal to what its lines share out at that moment: an edit,
\* a share or a confirmation decided long before and written since the invoice
\* never lets it go with another claim.
ClaimTrueAtHandover ==
    [][\A o \in Order : order[o].status # "delivered" /\ order'[o].status = "delivered" =>
           /\ order[o].passed
           /\ \E i \in LiveInvoices(o) : Settled(i)
           /\ warranty[o].decision = "APPROVED" => warranty[o].claim = Claimed(ActiveItems(o))]_vars

(***************************************************************************)
(* What the code says of itself and does not do.                           *)
(***************************************************************************)
\* "A working session is still active": none is left when the car goes to its
\* control.
SessionsEnded ==
    \A o \in Order : order[o].status \in {"quality_control", "ready", "invoiced", "delivered", "closed"} =>
        \A s \in SessionsOf(o) : ~ Underway(s)

\* "Modification forbidden": the lines of an order past its works stay.
LinesFrozen ==
    [][\A o \in Order : order[o].status \in {"quality_control", "ready", "invoiced", "delivered"} =>
           \A l \in LinesOf(o) : item'[l] = item[l]]_vars

\* No part is lost: each one supplied is in the stock or billed on an order.
PartsAccounted ==
    stock.current + Billed(UNION {ActiveItems(o) \ Labor : o \in Order}) = stock.supplied

\* "Use the abandonment": an order on which something was done can be
\* abandoned to the end, if only by billing it.
AbandonmentEnds ==
    \A o \in Order : order[o].status = "abandonment_pending" =>
        ActiveItems(o) = {} \/ LiveInvoices(o) # {}
===============================================================================
