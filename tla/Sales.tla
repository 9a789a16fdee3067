-------------------------------- MODULE Sales --------------------------------
(***************************************************************************)
(* The sale of a car, from its order to the handover and the return:       *)
(* modules/sales, billing, deliveries, vehicle-returns and the status of a *)
(* vehicle (vehicles/vehicle.routes.ts). A sale reserves a vehicle, is     *)
(* invoiced and paid, passes the financial gate at each stage of its       *)
(* preparation, or an authorization to deliver on credit, and ends with a  *)
(* signature that hands the car over.                                      *)
(*                                                                         *)
(* A handler that locks the rows it decides on (FOR UPDATE, which in a     *)
(* join locks the rows of every table joined) is one action. The handlers  *)
(* that decide on a row read before their transaction are two: the read    *)
(* and the write, with anything in between; so is the settlement of a      *)
(* return with the scope CONCESSION, whose first statement takes the       *)
(* snapshot its later sums are read from.                                  *)
(***************************************************************************)
EXTENDS Integers, Sequences, FiniteSets, FiniteSetsExt, Functions

CONSTANTS
    Vehicle,
    Clerk,              \* those who decide on a row read earlier
    Price,              \* the total of a sale
    ServicePrice,       \* the total of an additional service
    Sum,                \* the amounts of a payment or of a credit note
    MaxSale, MaxInvoice, MaxDelivery,       \* bounds on the rows
    Plans,              \* bounds of what happens, one of which is drawn at the start
    None

Errand == {"sale", "cancellation", "edit", "void", "credit", "refund",
           "authorization", "service", "return", "deduction", "late"}
Plan == [Errand -> Nat]

ASSUME SalesAssumption ==
    /\ Vehicle # {}
    /\ Price \in Nat \ {0} /\ ServicePrice \in Nat \ {0}
    /\ Sum \subseteq Nat \ {0}
    /\ MaxSale \in Nat /\ MaxInvoice \in Nat /\ MaxDelivery \in Nat
    /\ Plans \subseteq Plan

VehicleStatus == {"preparation", "available", "reserved", "sold", "delivered"}
\* ordered, in_transit and received are not told apart from preparation
AdministrableVehicleStatus == {"preparation", "available"}
SaleStatus == {"reserved", "ordered", "confirmed", "preparation", "ready_for_delivery",
               "delivered", "cancelled"}
Warranty == {"PENDING_DECISION", "PENDING_ACTIVATION", "NOT_APPLICABLE", "ACTIVE"}
InvoiceStatus == {"draft", "issued", "partially_paid", "paid", "cancelled"}
AuthorizationStatus == {"AUTHORIZED", "SUPERSEDED", "REVOKED", "USED"}
DeliveryStatus == {"planned", "preparing", "quality_control", "ready", "delivered", "cancelled"}
Checklist == {"none", "open", "complete"}
ReturnStatus == {"REQUESTED", "INSPECTED", "APPROVED", "REJECTED", "FINANCIALLY_RESOLVED",
                 "VEHICLE_RECEIVED", "STOCK_DECIDED", "CLOSED"}

\* Mutant: a cancelled sale can be ordered again.
NextStatusReopening == [reserved |-> "ordered", ordered |-> "confirmed",
    confirmed |-> "preparation", preparation |-> "ready_for_delivery", cancelled |-> "ordered"]

\* SALE_TRANSITIONS without the statuses updateStatus refuses
NextStatus == [reserved |-> "ordered", ordered |-> "confirmed",
               confirmed |-> "preparation", preparation |-> "ready_for_delivery"]
\* ALLOWED without the statuses that have a handler of their own
Steps == {<<"planned", "preparing">>, <<"preparing", "quality_control">>,
          <<"quality_control", "preparing">>, <<"quality_control", "ready">>,
          <<"ready", "preparing">>}
Progress == {<<"planned", "preparing">>, <<"preparing", "quality_control">>,
             <<"quality_control", "ready">>}

SaleRow == [vehicle : Vehicle, status : SaleStatus, warranty : Warranty]
InvoiceRow == [sale : 1..MaxSale, type : {"vehicle", "other"}, status : InvoiceStatus,
               total : Nat, paid : Nat, balance : Nat,
               received : Nat, refunded : Nat, credited : Nat]
AuthorizationRow == [sale : 1..MaxSale, snapshot : Nat, status : AuthorizationStatus]
DeliveryRow == [sale : 1..MaxSale, status : DeliveryStatus, checklist : Checklist,
                papers : BOOLEAN, signed : BOOLEAN]
ReturnRow == [delivery : 1..MaxDelivery, status : ReturnStatus, retained : Nat]

VARIABLES
    vehicle,            \* vehicles.status
    sales,              \* sales and vehicle_warranty_contracts
    invoices,           \* invoices; sums of payments, payment_refunds and credit_notes
    authorizations,     \* delivery_financial_authorizations
    deliveries,         \* deliveries; checklist, documents and signature
    returns,            \* post_delivery_vehicle_returns
    request,            \* what each clerk is about to write
    plan                \* what may still happen

vars == <<vehicle, sales, invoices, authorizations, deliveries, returns, request, plan>>

Init ==
    /\ vehicle \in [Vehicle -> AdministrableVehicleStatus]
    /\ sales = <<>> /\ invoices = <<>> /\ authorizations = <<>>
    /\ deliveries = <<>> /\ returns = <<>>
    /\ request = [c \in Clerk |-> None]
    /\ plan \in Plans

Does(errand) == plan[errand] > 0 /\ plan' = [plan EXCEPT ![errand] = @ - 1]

Over(a, b) == IF a > b THEN a - b ELSE 0      \* Math.max(0, a - b)
Least(a, b) == IF a < b THEN a ELSE b

Active(s) == sales[s].status \notin {"cancelled", "delivered"}
Held(i) == Over(invoices[i].received, invoices[i].refunded)
Live(s) == {i \in DOMAIN invoices : invoices[i].sale = s /\ invoices[i].status # "cancelled"}
Billable(s) == {i \in Live(s) : invoices[i].status # "draft"}
LiveDeliveries(s) ==
    {d \in DOMAIN deliveries : deliveries[d].sale = s /\ deliveries[d].status # "cancelled"}
Authorized(s) ==
    {a \in DOMAIN authorizations : authorizations[a].sale = s
                                   /\ authorizations[a].status = "AUTHORIZED"}
Exposure(s) == SumFunctionOnSet([i \in DOMAIN invoices |-> invoices[i].balance], Billable(s))

(***************************************************************************)
(* The financial gate: the vehicle invoice, or failing that the first one, *)
(* must be issued, and nothing be due on the sale, or no more than what    *)
(* the authorization in force was given for.                               *)
(***************************************************************************)
VehicleInvoice(s) == {i \in Live(s) : invoices[i].type = "vehicle"}
Leading(s) == IF VehicleInvoice(s) # {} THEN Min(VehicleInvoice(s)) ELSE Min(Live(s))
Covering(s) == {a \in Authorized(s) : Exposure(s) <= authorizations[a].snapshot}
GateOpen(s) ==
    /\ Live(s) # {}
    /\ invoices[Leading(s)].status # "draft"
    /\ Exposure(s) = 0 \/ (Authorized(s) # {} /\ Max(Authorized(s)) \in Covering(s))

(***************************************************************************)
(* Sales.                                                                  *)
(***************************************************************************)
\* the reservation of a sale is pending until the sale is ordered
Reserved(v) == \E s \in DOMAIN sales : sales[s].vehicle = v /\ sales[s].status = "reserved"

CreateSale(v) ==
    /\ Len(sales) < MaxSale /\ Does("sale")
    /\ vehicle[v] = "available"
    /\ ~ \E s \in DOMAIN sales : sales[s].vehicle = v /\ Active(s)
    /\ ~ Reserved(v)
    /\ \E w \in Warranty \ {"ACTIVE"} :
           sales' = Append(sales, [vehicle |-> v, status |-> "reserved", warranty |-> w])
    /\ vehicle' = [vehicle EXCEPT ![v] = "reserved"]
    /\ UNCHANGED <<invoices, authorizations, deliveries, returns, request>>

\* updateStatus, towards the handover
AdvanceSale(s) ==
    LET v == sales[s].vehicle IN
    /\ sales[s].status \in DOMAIN NextStatus
    /\ LET next == NextStatus[sales[s].status] IN
       /\ next \in {"preparation", "ready_for_delivery"} => GateOpen(s)
       /\ next = "confirmed" => vehicle[v] = "reserved"
       /\ sales' = [sales EXCEPT ![s].status = next]
       /\ vehicle' = IF next = "confirmed" THEN [vehicle EXCEPT ![v] = "sold"] ELSE vehicle
    /\ UNCHANGED <<invoices, authorizations, deliveries, returns, request, plan>>

Cancelled(i) == [invoices[i] EXCEPT !.status = "cancelled", !.balance = 0]

\* updateStatus, cancellation
CancelSale(s) ==
    LET v == sales[s].vehicle IN
    /\ Does("cancellation")
    /\ sales[s].status \notin {"ready_for_delivery", "delivered", "cancelled"}
    /\ \A i \in Live(s) : invoices[i].paid = 0 /\ Held(i) = 0
    /\ LiveDeliveries(s) = {}
    /\ invoices' = [i \in DOMAIN invoices |-> IF i \in Live(s) THEN Cancelled(i) ELSE invoices[i]]
    /\ sales' = [sales EXCEPT ![s].status = "cancelled"]
    /\ vehicle' = IF vehicle[v] \in {"reserved", "sold"}
                  THEN [vehicle EXCEPT ![v] = "available"] ELSE vehicle
    /\ UNCHANGED <<authorizations, deliveries, returns, request>>

(***************************************************************************)
(* Billing. recalculateInvoice rebuilds an invoice from its payments,      *)
(* refunds and credit notes; a payment updates it from its last values.    *)
(***************************************************************************)
Recalculated(i) ==
    LET paid == Over(i.received, i.refunded)
        balance == Over(Over(i.total, i.credited), paid)
    IN [i EXCEPT !.paid = paid, !.balance = balance,
                 !.status = IF balance = 0 THEN "paid"
                            ELSE IF paid > 0 THEN "partially_paid" ELSE "issued"]

NewInvoice(s, type, status, total) ==
    [sale |-> s, type |-> type, status |-> status, total |-> total, paid |-> 0,
     balance |-> total, received |-> 0, refunded |-> 0, credited |-> 0]

Billing(i, invoice) ==
    /\ invoices' = [invoices EXCEPT ![i] = invoice]
    /\ UNCHANGED <<vehicle, sales, authorizations, deliveries, returns, request>>

\* Mutant: the status of the sale is not looked at.
CreateInvoiceAnytime(s) ==
    /\ Len(invoices) < MaxInvoice
    /\ Live(s) = {}
    /\ invoices' = Append(invoices, NewInvoice(s, "vehicle", "draft", Price))
    /\ UNCHANGED <<vehicle, sales, authorizations, deliveries, returns, request, plan>>

CreateInvoice(s) ==
    /\ Len(invoices) < MaxInvoice
    /\ sales[s].status # "cancelled"
    /\ Live(s) = {}
    /\ invoices' = Append(invoices, NewInvoice(s, "vehicle", "draft", Price))
    /\ UNCHANGED <<vehicle, sales, authorizations, deliveries, returns, request, plan>>

\* PATCH /invoices/:id: the lines of a draft, whatever the sale says
EditInvoice(i, total) ==
    /\ Does("edit")
    /\ invoices[i].status = "draft"
    /\ Billing(i, [invoices[i] EXCEPT !.total = total, !.balance = total])

IssueInvoice(i) ==
    /\ invoices[i].status = "draft"
    /\ Billing(i, [invoices[i] EXCEPT !.status = "issued"])
    /\ UNCHANGED plan

\* cancelUnpaidInvoice
CancelInvoice(i) ==
    /\ Does("void")
    /\ invoices[i].status # "cancelled"
    /\ invoices[i].paid = 0 /\ Held(i) = 0
    /\ Billing(i, Cancelled(i))

Pay(i, amount) ==
    LET invoice == invoices[i]
        balance == invoice.balance - amount
    IN
    /\ sales[invoice.sale].status # "cancelled"
    /\ invoice.status \in {"issued", "partially_paid"}
    /\ amount <= invoice.balance
    /\ Billing(i, [invoice EXCEPT !.received = @ + amount, !.paid = @ + amount,
                                  !.balance = balance,
                                  !.status = IF balance = 0 THEN "paid" ELSE "partially_paid"])
    /\ UNCHANGED plan

Credit(i, amount) ==
    /\ Does("credit")
    /\ invoices[i].status # "cancelled"
    /\ amount <= invoices[i].total - invoices[i].credited
    /\ Billing(i, Recalculated([invoices[i] EXCEPT !.credited = @ + amount]))

\* Mutant: the refund is put back on the balance, whatever was credited.
RefundIncremental(i) ==
    /\ Does("refund")
    /\ invoices[i].refunded < invoices[i].received
    /\ invoices[i].refunded < invoices[i].credited
    /\ Billing(i, [invoices[i] EXCEPT !.refunded = @ + 1, !.paid = Over(@, 1), !.balance = @ + 1,
                                      !.status = "partially_paid"])

\* one unit of a payment, against a credit note: a refund of more is several
\* of these on the same payment and the same credit note
Refund(i) ==
    /\ Does("refund")
    /\ invoices[i].refunded < invoices[i].received
    /\ invoices[i].refunded < invoices[i].credited
    /\ Billing(i, Recalculated([invoices[i] EXCEPT !.refunded = @ + 1]))

(***************************************************************************)
(* Authorizations to deliver although the sale is not fully paid.          *)
(***************************************************************************)
Authorize(s) ==
    LET issued == {i \in VehicleInvoice(s) : invoices[i].status # "draft"} IN
    /\ Does("authorization")
    /\ sales[s].status # "cancelled"
    /\ VehicleInvoice(s) # {} /\ Min(VehicleInvoice(s)) \in issued
    /\ Exposure(s) > 0
    /\ Authorized(s) # {} => Max(Authorized(s)) \notin Covering(s)
    /\ authorizations' = Append(
           [a \in DOMAIN authorizations |->
               IF a \in Authorized(s) THEN [authorizations[a] EXCEPT !.status = "SUPERSEDED"]
               ELSE authorizations[a]],
           [sale |-> s, snapshot |-> Exposure(s), status |-> "AUTHORIZED"])
    /\ UNCHANGED <<vehicle, sales, invoices, deliveries, returns, request>>

Revoke(a) ==
    /\ Does("authorization")
    /\ authorizations[a].status = "AUTHORIZED"
    /\ authorizations' = [authorizations EXCEPT ![a].status = "REVOKED"]
    /\ UNCHANGED <<vehicle, sales, invoices, deliveries, returns, request>>

(***************************************************************************)
(* Deliveries.                                                             *)
(***************************************************************************)
Delivery(d, delivery) ==
    /\ deliveries' = [deliveries EXCEPT ![d] = delivery]
    /\ UNCHANGED <<vehicle, sales, invoices, authorizations, returns, request>>

PlanDelivery(s) ==
    /\ Len(deliveries) < MaxDelivery
    /\ sales[s].status = "ready_for_delivery"
    /\ GateOpen(s)
    /\ LiveDeliveries(s) = {}
    /\ deliveries' = Append(deliveries, [sale |-> s, status |-> "planned", checklist |-> "none",
                                         papers |-> TRUE, signed |-> FALSE])
    /\ UNCHANGED <<vehicle, sales, invoices, authorizations, returns, request, plan>>

\* PATCH /deliveries/:id/status; the checklist is copied when the preparation
\* starts, and is complete at once when none of its items is mandatory
StepDelivery(d, next) ==
    LET delivery == deliveries[d] IN
    /\ sales[delivery.sale].status # "cancelled"
    /\ <<delivery.status, next>> \in Steps
    /\ <<delivery.status, next>> \in Progress => GateOpen(delivery.sale)
    /\ next = "ready" => delivery.checklist = "complete"
    /\ \E c \in IF delivery.status = "planned" /\ delivery.checklist = "none"
                THEN {"open", "complete"} ELSE {delivery.checklist} :
           Delivery(d, [delivery EXCEPT !.status = next, !.checklist = c])
    /\ UNCHANGED plan

\* PATCH /deliveries/:id/checklist/:itemId: the last mandatory item is ticked,
\* or one is unticked
CheckItem(d) ==
    /\ sales[deliveries[d].sale].status # "cancelled"
    /\ deliveries[d].status \in {"preparing", "quality_control", "ready"}
    /\ deliveries[d].checklist # "none"
    /\ Delivery(d, [deliveries[d] EXCEPT !.checklist = IF @ = "open" THEN "complete" ELSE "open"])
    /\ UNCHANGED plan

CancelDelivery(d) ==
    /\ Does("cancellation")
    /\ deliveries[d].status \notin {"delivered", "cancelled"}
    /\ Delivery(d, [deliveries[d] EXCEPT !.status = "cancelled"])

\* POST /deliveries/:id/services: the service has an invoice of its own
AddService(d) ==
    /\ Len(invoices) < MaxInvoice /\ Does("service")
    /\ deliveries[d].status \notin {"delivered", "cancelled"}
    /\ invoices' = Append(invoices, NewInvoice(deliveries[d].sale, "other", "issued", ServicePrice))
    /\ UNCHANGED <<vehicle, sales, authorizations, deliveries, returns, request>>

\* activateAtDelivery
Activated(warranty) == IF warranty = "PENDING_ACTIVATION" THEN "ACTIVE" ELSE warranty

\* useDeliveryFinancialAuthorization
UseAuthorization(s) ==
    authorizations' = IF Exposure(s) = 0 \/ Authorized(s) = {} THEN authorizations
                      ELSE [authorizations EXCEPT ![Max(Authorized(s))].status = "USED"]

HandOver(d) ==
    LET s == deliveries[d].sale
        v == sales[s].vehicle
    IN
    /\ deliveries' = [deliveries EXCEPT ![d].status = "delivered", ![d].signed = TRUE]
    /\ sales' = [sales EXCEPT ![s].status = "delivered", ![s].warranty = Activated(@)]
    /\ vehicle' = [vehicle EXCEPT ![v] = "delivered"]
    /\ UNCHANGED <<invoices, returns, request, plan>>

\* Mutant: a delivery that is ready is signed, whatever its sale and car became.
SignReady(d) ==
    LET s == deliveries[d].sale IN
    /\ deliveries[d].status = "ready"
    /\ GateOpen(s)
    /\ UseAuthorization(s)
    /\ deliveries[d].checklist = "complete" /\ deliveries[d].papers
    /\ sales[s].warranty # "PENDING_DECISION"
    /\ ~ deliveries[d].signed
    /\ HandOver(d)

\* Mutant: the gate passed when the delivery became ready is not passed again.
SignUngated(d) ==
    LET s == deliveries[d].sale IN
    /\ deliveries[d].status = "ready"
    /\ sales[s].status = "ready_for_delivery"
    /\ UseAuthorization(s)
    /\ deliveries[d].checklist = "complete" /\ deliveries[d].papers
    /\ vehicle[sales[s].vehicle] = "sold"
    /\ sales[s].warranty # "PENDING_DECISION"
    /\ ~ deliveries[d].signed
    /\ HandOver(d)

\* POST /deliveries/:id/sign: the handover
Sign(d) ==
    LET s == deliveries[d].sale IN
    /\ deliveries[d].status = "ready"
    /\ sales[s].status = "ready_for_delivery"
    /\ GateOpen(s)
    /\ UseAuthorization(s)
    /\ deliveries[d].checklist = "complete" /\ deliveries[d].papers
    /\ vehicle[sales[s].vehicle] = "sold"
    /\ sales[s].warranty # "PENDING_DECISION"
    /\ ~ deliveries[d].signed
    /\ HandOver(d)

(***************************************************************************)
(* The return of a car that was handed over.                               *)
(***************************************************************************)
RequestReturn(d) ==
    /\ Does("return")
    /\ deliveries[d].status = "delivered"
    /\ ~ \E r \in DOMAIN returns : returns[r].delivery = d
    /\ returns' = Append(returns, [delivery |-> d, status |-> "REQUESTED", retained |-> 0])
    /\ UNCHANGED <<vehicle, sales, invoices, authorizations, deliveries, request>>

\* the steps of a return that change nothing else
ReturnSteps == {<<"REQUESTED", "INSPECTED">>, <<"INSPECTED", "APPROVED">>,
                <<"INSPECTED", "REJECTED">>, <<"FINANCIALLY_RESOLVED", "VEHICLE_RECEIVED">>,
                <<"STOCK_DECIDED", "CLOSED">>}
StepReturn(r, next) ==
    /\ <<returns[r].status, next>> \in ReturnSteps
    /\ returns' = [returns EXCEPT ![r].status = next]
    /\ UNCHANGED <<vehicle, sales, invoices, authorizations, deliveries, request, plan>>

\* a settlement with the scope CONCESSION holds the return, see ReadSettlement
Settling(r) ==
    \E c \in Clerk : request[c] # None /\ request[c].op = "settlement" /\ request[c].id = r

\* a unit is added to the deductions, or removed
Deduct(r, retained) ==
    /\ Does("deduction")
    /\ ~ Settling(r)
    /\ returns[r].status = "APPROVED"
    /\ retained \in {returns[r].retained + 1, returns[r].retained - 1} \cap Nat
    /\ returns' = [returns EXCEPT ![r].retained = retained]
    /\ UNCHANGED <<vehicle, sales, invoices, authorizations, deliveries, request>>

\* The settlement decides on the totals of the invoices as they are, and on the
\* payments, refunds and credit notes of the view: prior_credit and cash_net
Creditable(i, view) == Over(invoices[i].total, view[i].credited)
Cash(i, view) == Over(view[i].received, view[i].refunded)

\* the deductions are kept on the vehicle invoice first, then on the others in
\* order: what is left of them when invoice i is reached
Before(i, j) ==
    IF invoices[i].type = invoices[j].type THEN i < j ELSE invoices[i].type = "vehicle"
Retainable(i, view) == Least(Creditable(i, view), Cash(i, view))
Kept(i, chosen, retained, view) ==
    LET earlier == {j \in chosen : Before(j, i)}
        reached == SumFunctionOnSet([j \in DOMAIN view |-> Retainable(j, view)], earlier)
    IN Least(Over(retained, reached), Retainable(i, view))

\* what the selected invoice i becomes: credited and refunded, and rebuilt by
\* recalculateInvoice from the same view
Corrected(i, credit, refund, view) ==
    LET rebuilt == Recalculated([view[i] EXCEPT !.credited = @ + credit, !.refunded = @ + refund])
    IN IF credit = 0 THEN invoices[i]
       ELSE [invoices[i] EXCEPT !.credited = @ + credit, !.refunded = @ + refund,
                                !.paid = rebuilt.paid, !.balance = rebuilt.balance,
                                !.status = rebuilt.status]

\* Mutant: the refund forgets what is kept.
SettledInFull(i, kept, view) ==
    LET credit == Creditable(i, view) - kept
    IN Corrected(i, credit, Least(credit, Cash(i, view)), view)

\* credited of what is not kept, refunded of what was received beyond it
Settled(i, kept, view) ==
    LET credit == Creditable(i, view) - kept
    IN Corrected(i, credit, Least(credit, Over(Cash(i, view), kept)), view)

\* POST /vehicle-returns/:id/financial-resolution, once it holds the sale; an
\* invoice that is not in the view is not found when it is rebuilt
Settle(r, chosen, view) ==
    LET retained == returns[r].retained IN
    /\ returns[r].status = "APPROVED"
    /\ chosen # {} /\ chosen \subseteq Billable(deliveries[returns[r].delivery].sale)
    /\ chosen \subseteq DOMAIN view
    /\ retained <= SumFunctionOnSet([i \in DOMAIN view |-> Creditable(i, view)], chosen)
    /\ retained <= SumFunctionOnSet([i \in DOMAIN view |-> Cash(i, view)], chosen)
    /\ invoices' = [i \in DOMAIN invoices |->
           IF i \in chosen THEN Settled(i, Kept(i, chosen, retained, view), view) ELSE invoices[i]]
    /\ returns' = [returns EXCEPT ![r].status = "FINANCIALLY_RESOLVED"]
    /\ UNCHANGED <<vehicle, sales, authorizations, deliveries, plan>>

\* for the scopes that find the return without a sub-select, the view is taken
\* once the sale is held
Resolve(r, chosen) ==
    /\ ~ Settling(r)
    /\ Settle(r, chosen, invoices)
    /\ UNCHANGED request

\* POST /vehicle-returns/:id/stock-decision
StockDecision(r, next) ==
    LET v == sales[deliveries[returns[r].delivery].sale].vehicle IN
    /\ returns[r].status = "VEHICLE_RECEIVED"
    /\ vehicle[v] = "delivered"
    /\ vehicle' = [vehicle EXCEPT ![v] = next]
    /\ returns' = [returns EXCEPT ![r].status = "STOCK_DECIDED"]
    /\ UNCHANGED <<sales, invoices, authorizations, deliveries, request, plan>>

(***************************************************************************)
(* What is decided on a row read before the transaction. Each read is      *)
(* under the handler's own checks; the write makes none of them again.     *)
(***************************************************************************)
Late ==
    [op : {"vehicle"}, id : Vehicle, value : AdministrableVehicleStatus]
        \cup [op : {"reschedule"}, id : 1..MaxDelivery]
        \cup [op : {"papers"}, id : 1..MaxDelivery, value : BOOLEAN]
        \cup [op : {"warranty"}, id : 1..MaxSale, value : Warranty \ {"ACTIVE"}]
        \cup [op : {"settlement"}, id : Nat, view : Seq(InvoiceRow)]

Read(c, late) ==
    /\ Does("late")
    /\ request[c] = None
    /\ request' = [request EXCEPT ![c] = late]
    /\ UNCHANGED <<vehicle, sales, invoices, authorizations, deliveries, returns>>

\* PATCH /vehicles/:id/status: assertManualVehicleTransition
ReadVehicle(c, v, next) ==
    /\ vehicle[v] \in AdministrableVehicleStatus
    /\ vehicle[v] = "available" => next # "available"
    /\ Read(c, [op |-> "vehicle", id |-> v, value |-> next])

\* PATCH /deliveries/:id/reschedule and the middleware before it
ReadReschedule(c, d) ==
    /\ sales[deliveries[d].sale].status # "cancelled"
    /\ deliveries[d].status \notin {"delivered", "cancelled"}
    /\ Read(c, [op |-> "reschedule", id |-> d])

\* POST and PATCH /deliveries/:id/documents
ReadPapers(c, d, received) ==
    /\ sales[deliveries[d].sale].status # "cancelled"
    /\ deliveries[d].status \notin {"delivered", "cancelled"}
    /\ Read(c, [op |-> "papers", id |-> d, value |-> received])

\* updateWarranty
ReadWarranty(c, s, decision) ==
    /\ Active(s)
    /\ Read(c, [op |-> "warranty", id |-> s, value |-> decision])

\* POST /vehicle-returns/:id/financial-resolution with the scope CONCESSION: the
\* sub-select that finds the concession of the user takes the view once the
\* return is locked, and the sale is locked after that
ReadSettlement(c, r) ==
    /\ returns[r].status = "APPROVED"
    /\ ~ Settling(r)
    /\ Read(c, [op |-> "settlement", id |-> r, view |-> invoices])

Done(c) == request' = [request EXCEPT ![c] = None]

WriteVehicle(c) ==
    LET late == request[c] IN
    /\ late # None /\ late.op = "vehicle"
    /\ Done(c)
    /\ vehicle' = [vehicle EXCEPT ![late.id] = late.value]
    /\ UNCHANGED <<sales, invoices, authorizations, deliveries, returns, plan>>

WriteReschedule(c) ==
    LET late == request[c] IN
    /\ late # None /\ late.op = "reschedule"
    /\ Done(c)
    /\ deliveries' = [deliveries EXCEPT ![late.id].status = "planned"]
    /\ UNCHANGED <<vehicle, sales, invoices, authorizations, returns, plan>>

WritePapers(c) ==
    LET late == request[c] IN
    /\ late # None /\ late.op = "papers"
    /\ Done(c)
    /\ deliveries' = [deliveries EXCEPT ![late.id].papers = late.value]
    /\ UNCHANGED <<vehicle, sales, invoices, authorizations, returns, plan>>

\* Mutant: the contract is not looked at again.
WriteWarrantyUnchecked(c) ==
    LET late == request[c] IN
    /\ late # None /\ late.op = "warranty"
    /\ Done(c)
    /\ sales' = [sales EXCEPT ![late.id].warranty = late.value]
    /\ UNCHANGED <<vehicle, invoices, authorizations, deliveries, returns, plan>>

\* updateSnapshot, which refuses an active contract
WriteWarranty(c) ==
    LET late == request[c] IN
    /\ late # None /\ late.op = "warranty"
    /\ Done(c)
    /\ sales' = IF sales[late.id].warranty = "ACTIVE" THEN sales
                ELSE [sales EXCEPT ![late.id].warranty = late.value]
    /\ UNCHANGED <<vehicle, invoices, authorizations, deliveries, returns, plan>>

ResolveScoped(c, chosen) ==
    LET late == request[c] IN
    /\ late # None /\ late.op = "settlement"
    /\ Done(c)
    /\ Settle(late.id, chosen, late.view)

\* refused, or rolled back
LeaveSettlement(c) ==
    /\ request[c] # None /\ request[c].op = "settlement"
    /\ Done(c)
    /\ UNCHANGED <<vehicle, sales, invoices, authorizations, deliveries, returns, plan>>

SaleStep ==
    \/ \E v \in Vehicle : CreateSale(v)
    \/ \E s \in DOMAIN sales : \/ AdvanceSale(s) \/ CancelSale(s)
                               \/ CreateInvoice(s) \/ Authorize(s) \/ PlanDelivery(s)
BillingStep ==
    \/ \E i \in DOMAIN invoices : \/ IssueInvoice(i) \/ CancelInvoice(i) \/ Refund(i)
                                  \/ \E a \in Sum : Pay(i, a) \/ Credit(i, a) \/ EditInvoice(i, a)
    \/ \E a \in DOMAIN authorizations : Revoke(a)
DeliveryStep == \E d \in DOMAIN deliveries :
    \/ \E next \in DeliveryStatus : StepDelivery(d, next)
    \/ CheckItem(d) \/ CancelDelivery(d) \/ AddService(d) \/ Sign(d) \/ RequestReturn(d)
ReturnStep == \E r \in DOMAIN returns :
    \/ \E next \in ReturnStatus : StepReturn(r, next)
    \/ \E n \in 0..Price : Deduct(r, n)
    \/ \E chosen \in SUBSET DOMAIN invoices : Resolve(r, chosen)
    \/ \E next \in AdministrableVehicleStatus : StockDecision(r, next)
LateStep == \E c \in Clerk :
    \/ \E v \in Vehicle, next \in AdministrableVehicleStatus : ReadVehicle(c, v, next)
    \/ \E d \in DOMAIN deliveries : ReadReschedule(c, d) \/ \E b \in BOOLEAN : ReadPapers(c, d, b)
    \/ \E s \in DOMAIN sales, w \in Warranty \ {"ACTIVE"} : ReadWarranty(c, s, w)
    \/ \E r \in DOMAIN returns : ReadSettlement(c, r)
    \/ WriteVehicle(c) \/ WriteReschedule(c) \/ WritePapers(c) \/ WriteWarranty(c)
    \/ \E chosen \in SUBSET DOMAIN invoices : ResolveScoped(c, chosen)
    \/ LeaveSettlement(c)

Next == SaleStep \/ BillingStep \/ DeliveryStep \/ ReturnStep \/ LateStep

Spec == Init /\ [][Next]_vars

(***************************************************************************)
(* Properties.                                                             *)
(***************************************************************************)
TypeOK ==
    /\ vehicle \in [Vehicle -> VehicleStatus]
    /\ sales \in Seq(SaleRow) /\ Len(sales) <= MaxSale
    /\ invoices \in Seq(InvoiceRow) /\ Len(invoices) <= MaxInvoice
    /\ authorizations \in Seq(AuthorizationRow)
    /\ deliveries \in Seq(DeliveryRow) /\ Len(deliveries) <= MaxDelivery
    /\ returns \in Seq(ReturnRow)
    /\ request \in [Clerk -> Late \cup {None}]
    /\ plan \in Plan

\* A sale is delivered by exactly one signature, even when a delivery that was
\* cancelled or signed is rescheduled by someone who read it earlier and the
\* sale has two deliveries.
HandedOverOnce ==
    \A s \in DOMAIN sales :
        Cardinality({d \in DOMAIN deliveries : deliveries[d].sale = s /\ deliveries[d].signed})
            = IF sales[s].status = "delivered" THEN 1 ELSE 0

\* What an invoice says was paid and is due is what its payments, refunds and
\* credit notes add up to, whatever their order; an invoice is made so and stays
\* so, unless a return is settled on a view in which it was something else.
Balanced(v) ==
    /\ v.refunded <= v.received /\ v.refunded <= v.credited
    /\ v.credited <= v.total /\ v.received <= v.total
    /\ v.status \in {"issued", "partially_paid", "paid"} => v = Recalculated(v)
    /\ v.status = "draft" => /\ v.received = 0 /\ v.credited = 0 /\ v.paid = 0
                             /\ v.balance = v.total /\ v.total > 0
    /\ v.status = "cancelled" => Over(v.received, v.refunded) = 0 /\ v.balance = 0
SettlementOf(c) == request[c] # None /\ request[c].op = "settlement" /\ request'[c] = None
Misread(i) == \E c \in Clerk : /\ SettlementOf(c) /\ i \in DOMAIN request[c].view
                              /\ request[c].view[i] # invoices[i]
BalanceTrue ==
    [][\A i \in DOMAIN invoices' :
           (i \in DOMAIN invoices => Balanced(invoices[i]))
               => Balanced(invoices'[i]) \/ Misread(i)]_vars

\* A cancelled sale keeps no invoice that could still be paid, none of the
\* customer's money and no delivery that could still be signed.
CancelledKeepsNothing ==
    \A s \in DOMAIN sales : sales[s].status = "cancelled" =>
        /\ Live(s) = {} /\ LiveDeliveries(s) = {}
        /\ \A i \in DOMAIN invoices : invoices[i].sale = s => Held(i) = 0

\* A warranty is active only for a car that was handed over, with what was
\* agreed then.
WarrantyStands ==
    [][\A s \in DOMAIN sales :
           /\ sales[s].warranty = "ACTIVE" => sales'[s].warranty = "ACTIVE"
           /\ sales'[s].warranty = "ACTIVE" => sales'[s].status = "delivered"]_vars

\* A car is handed over when the payments, refunds and credit notes of the
\* sale leave nothing due on its issued invoices, or no more than what an
\* authorization was given for, which this handover then uses.
Due(i) == Over(Over(invoices[i].total, invoices[i].credited), Held(i))
HandoverCovered ==
    [][\A s \in DOMAIN sales :
           sales[s].status # "delivered" /\ sales'[s].status = "delivered" =>
               LET due == SumFunctionOnSet([i \in DOMAIN invoices |-> Due(i)], Billable(s)) IN
               due = 0 \/ \E a \in Authorized(s) : /\ due <= authorizations[a].snapshot
                                                   /\ authorizations'[a].status = "USED"]_vars

\* When a return is settled nothing is due any more on the invoices it
\* credits; of the money received the firm keeps at least the deductions, and
\* beyond them only what earlier credit notes have not given back yet. An
\* invoice misread is not covered, nor then the sum kept.
ReturnSettled ==
    [][\A r \in DOMAIN returns :
           returns[r].status = "APPROVED" /\ returns'[r].status = "FINANCIALLY_RESOLVED" =>
               LET billable == Billable(deliveries[returns[r].delivery].sale)
                   credited == {i \in billable : invoices'[i].credited > invoices[i].credited}
                   after == [i \in DOMAIN invoices |->
                                Over(invoices'[i].received, invoices'[i].refunded)]
               IN /\ \A i \in credited : ~ Misread(i) =>
                         /\ invoices'[i].balance = 0
                         /\ after[i] <= returns[r].retained + invoices[i].credited
                                            - invoices[i].refunded
                  /\ \/ \E i \in billable : Misread(i)
                     \/ SumFunctionOnSet(after, billable) >= returns[r].retained]_vars

\* The sale implements what it promises about the car, see Handover.
Returned(s) == \E r \in DOMAIN returns :
    /\ deliveries[returns[r].delivery].sale = s
    /\ returns[r].status \in {"STOCK_DECIDED", "CLOSED"}
StageOf(s) ==
    CASE s \notin DOMAIN sales -> "none"
      [] s \in DOMAIN sales /\ Active(s) -> "promised"
      [] s \in DOMAIN sales /\ sales[s].status = "cancelled" -> "released"
      [] s \in DOMAIN sales /\ sales[s].status = "delivered" ->
             IF Returned(s) THEN "returned" ELSE "handed"
CarOf(s) == IF s \in DOMAIN sales THEN sales[s].vehicle ELSE CHOOSE v \in Vehicle : TRUE
stages == [s \in 1..MaxSale |-> StageOf(s)]
cars == [s \in 1..MaxSale |-> CarOf(s)]
Promised == INSTANCE Handover WITH SaleId <- 1..MaxSale, stage <- stages, car <- cars
ImplementsHandover == Promised!Spec

(***************************************************************************)
(* What the code says of itself and does not do.                           *)
(***************************************************************************)
\* "A finalised or cancelled delivery cannot be rescheduled": a delivery that
\* was signed or cancelled stays so.
FinalDeliveryStays ==
    [][\A d \in DOMAIN deliveries :
           deliveries[d].status \in {"delivered", "cancelled"} =>
               deliveries'[d].status = deliveries[d].status]_vars

\* "The invoice of the sale is missing": no car is handed over without an
\* issued vehicle invoice.
HandoverInvoiced ==
    [][\A s \in DOMAIN sales :
           sales[s].status # "delivered" /\ sales'[s].status = "delivered" =>
               \E i \in Billable(s) : invoices[i].type = "vehicle"]_vars
===============================================================================
