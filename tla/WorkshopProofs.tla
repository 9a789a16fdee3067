---------------------------- MODULE WorkshopProofs ----------------------------
(***************************************************************************)
(* What Workshop guarantees for every number of orders, lines, clerks,     *)
(* technicians and bays, and every plan.                                   *)
(*                                                                         *)
(* The inductive invariant IInv is the three safety properties themselves, *)
(* the types of the rows they speak of (Types), and what a clerk between   *)
(* his read and his write is sure of whatever happened since (Requests):   *)
(* the transition he asks for is one of the table or a cancellation, and   *)
(* the session he names exists, for sessions are never deleted.            *)
(*                                                                         *)
(* The parts and the claims come in a second invariant, Books: what the    *)
(* reserved stock and the supplied parts must be, line by line (Tallied),  *)
(* and that a confirmed allocation is the claim the invoice froze or will  *)
(* freeze (Account). They speak of sums over lines, so the types of stock, *)
(* share and claim are proved with them and not with IInv.                 *)
(***************************************************************************)
EXTENDS Workshop, SequenceTheorems, SumTheorems, TLAPS

Stopped == {"cancelled", "abandoned"}
Open == {"planned", "assigned", "in_progress"}

Warranties(claims) ==
    [Order -> [decision : {"none", "PENDING", "APPROVED", "REJECTED"},
               allocation : {"UNALLOCATED", "DRAFT", "CONFIRMED"}, version : Nat, claim : claims]]

Types ==
    /\ order \in [Order -> OrderRow]
    /\ \E claims : warranty \in Warranties(claims)
    /\ job \in [Labor -> JobRow] /\ sessions \in Seq(SessionRow)
    /\ reservation \in [Part \cup Free -> ReservationRow]
    /\ item \in [Line -> ItemRow]

RequestSound(r) ==
    /\ r.op = "status" => /\ r.order \in Order
                          /\ r.next = "cancelled" \/ <<r.from, r.next>> \in Transitions
    /\ r.op \in {"inspection", "diagnostic", "warranty", "decision", "shares", "confirmation"} =>
           r.order \in Order
    /\ r.op = "reservation" => r.line \in Free
    /\ r.op = "edit" => r.line \in Line /\ r.quantity \in Nat
    /\ r.op \in {"resume", "stop"} => r.session \in DOMAIN sessions

Requests ==
    /\ DOMAIN request = Clerk
    /\ \A c \in Clerk : request[c] # None => RequestSound(request[c])

IInv ==
    /\ Types
    /\ Requests
    /\ OneActiveSession
    /\ ConfirmedAllocates
    /\ StoppedHoldsNothing

-----------------------------------------------------------------------------
(* Lines and rows.                                                         *)

LEMMA Lines ==
  /\ \A l \in Labor \cup Part \cup Free \cup Extra : l \in Line
  /\ \A l \in Line : Of[l] \in Order /\ Quantity[l] \in Nat
  BY WorkshopAssumption DEF Line

LEMMA StoppedStatus ==
  \A s \in Stopped : /\ s \notin Writable /\ s \notin Reservable
                     /\ \A from : <<from, s>> \notin Transitions
  BY DEF Stopped, Writable, Reservable, Transitions

LEMMA TransitionStatus ==
  \A from, next : <<from, next>> \in Transitions => next \in Status \ Stopped
  BY DEF Transitions, Status, Stopped

LEMMA SessionsType ==
  ASSUME Types
  PROVE  /\ DOMAIN sessions = 1..Len(sessions) /\ Len(sessions) \in Nat
         /\ \A s \in DOMAIN sessions : sessions[s] \in SessionRow
  BY LenProperties, ElementOfSeq DEF Types

LEMMA SessionStatus ==
  ASSUME Types, NEW s \in DOMAIN sessions, NEW v \in {"running", "paused", "completed"},
         sessions' = [sessions EXCEPT ![s].status = v]
  PROVE  /\ sessions' \in Seq(SessionRow)
         /\ DOMAIN sessions' = DOMAIN sessions
         /\ \A r \in DOMAIN sessions : /\ r # s => sessions'[r] = sessions[r]
                                       /\ sessions'[r].job = sessions[r].job
                                       /\ sessions'[r].technician = sessions[r].technician
                                       /\ sessions'[r].bay = sessions[r].bay
         /\ sessions'[s].status = v
  <1> DEFINE row == [sessions[s] EXCEPT !.status = v]
  <1>1. sessions[s] \in SessionRow /\ s \in 1..Len(sessions) /\ sessions \in Seq(SessionRow)
    BY SessionsType DEF Types
  <1>2. row \in SessionRow /\ row.job = sessions[s].job /\ row.technician = sessions[s].technician
        /\ row.bay = sessions[s].bay /\ row.status = v
    BY <1>1 DEF SessionRow
  <1>3. sessions' = [sessions EXCEPT ![s] = row]
    OBVIOUS
  <1> HIDE DEF row
  <1>4. /\ sessions' \in Seq(SessionRow) /\ Len(sessions') = Len(sessions)
        /\ \A j \in 1..Len(sessions) : sessions'[j] = IF j = s THEN row ELSE sessions[j]
    BY <1>1, <1>2, <1>3, ExceptSeq
  <1>5. DOMAIN sessions = 1..Len(sessions) /\ DOMAIN sessions' = 1..Len(sessions')
    BY <1>1, <1>4, LenProperties
  <1> QED BY <1>1, <1>2, <1>4, <1>5

-----------------------------------------------------------------------------
(* What a step may leave as it was.                                        *)

\* a clerk who has written, or forgotten what he read
Answers == request' = request \/ \E c \in Clerk : request' = [request EXCEPT ![c] = None]

LEMMA RequestsFrame ==
  ASSUME Requests, Answers, DOMAIN sessions \subseteq DOMAIN sessions'
  PROVE  Requests'
  <1>1. DOMAIN request' = Clerk
    BY DEF Requests, Answers
  <1>2. \A d \in Clerk : request'[d] # None => request'[d] = request[d] /\ request[d] # None
    BY DEF Requests, Answers
  <1> QED BY <1>1, <1>2 DEF Requests, RequestSound

LEMMA RequestsRead ==
  ASSUME Requests, sessions' = sessions, NEW c \in Clerk, NEW late, RequestSound(late),
         request' = [request EXCEPT ![c] = late]
  PROVE  Requests'
  <1>1. DOMAIN request' = Clerk
    BY DEF Requests
  <1>2. \A d \in Clerk : request'[d] = IF d = c THEN late ELSE request[d]
    BY DEF Requests
  <1> QED BY <1>1, <1>2 DEF Requests, RequestSound

LEMMA SameSessions ==
  ASSUME OneActiveSession, sessions' = sessions
  PROVE  OneActiveSession'
  BY DEF OneActiveSession, Underway

\* what a confirmation was made for is still there
CoverKept(o) ==
    warranty'[o].decision = "APPROVED" /\ warranty'[o].allocation = "CONFIRMED" =>
        /\ warranty[o].decision = "APPROVED" /\ warranty[o].allocation = "CONFIRMED"
        /\ \A l \in LinesOf(o) : item'[l] = item[l] /\ share'[l] = share[l]

LEMMA ConfirmedFrame ==
  ASSUME ConfirmedAllocates, \A o \in Order : CoverKept(o)
  PROVE  ConfirmedAllocates'
  BY DEF ConfirmedAllocates, CoverKept, ActiveItems, LinesOf

\* an order that was stopped takes no part, no intervention and no session
HoldsLess(o) ==
    /\ order[o].status \in Stopped
    /\ \A l \in Part \cup Free : Of[l] = o /\ reservation'[l].status = "reserved" =>
           reservation[l].status = "reserved"
    /\ \A l \in Labor : Of[l] = o /\ job'[l].status \in Open => job[l].status \in Open

LEMMA StoppedFrame ==
  ASSUME StoppedHoldsNothing, sessions' = sessions,
         \A o \in Order : order'[o].status \in Stopped =>
            HoldsLess(o) \/ (Reserved(o)' = {} /\ OpenJobs(o)' = {} /\ NotStarted(o))
  PROVE  StoppedHoldsNothing'
  <1> SUFFICES ASSUME NEW o \in Order, order'[o].status \in Stopped
               PROVE  Reserved(o)' = {} /\ OpenJobs(o)' = {} /\ SessionsOf(o)' = {}
    BY DEF StoppedHoldsNothing, Stopped
  <1>1. SessionsOf(o)' = SessionsOf(o)
    BY DEF SessionsOf
  <1>2. CASE HoldsLess(o)
    <2>1. Reserved(o) = {} /\ OpenJobs(o) = {} /\ SessionsOf(o) = {}
      BY <1>2 DEF HoldsLess, StoppedHoldsNothing, Stopped
    <2>2. Reserved(o)' \subseteq Reserved(o)
      BY <1>2 DEF HoldsLess, Reserved, LinesOf
    <2>3. OpenJobs(o)' \subseteq OpenJobs(o)
      BY <1>2 DEF HoldsLess, OpenJobs, LinesOf, Open
    <2> QED BY <1>1, <2>1, <2>2, <2>3
  <1>3. CASE Reserved(o)' = {} /\ OpenJobs(o)' = {} /\ NotStarted(o)
    BY <1>1, <1>3 DEF NotStarted
  <1> QED BY <1>2, <1>3

LEMMA SteadyStep ==
  ASSUME IInv, Types', Answers, sessions' = sessions,
         \A o \in Order : CoverKept(o),
         \A o \in Order : order'[o].status \in Stopped =>
            HoldsLess(o) \/ (Reserved(o)' = {} /\ OpenJobs(o)' = {} /\ NotStarted(o))
  PROVE  IInv'
  <1>1. Requests'
    BY RequestsFrame DEF IInv
  <1> QED BY <1>1, SameSessions, ConfirmedFrame, StoppedFrame DEF IInv

-----------------------------------------------------------------------------
(* Orders.                                                                 *)

LEMMA OrderOnly ==
  ASSUME IInv, Answers, UNCHANGED <<money, work, parts>>, order' \in [Order -> OrderRow],
         \A o \in Order : order'[o].status \in Stopped => order[o].status \in Stopped
  PROVE  IInv'
  <1>1. Types'
    BY DEF IInv, Types, money, work, parts
  <1>2. \A o \in Order : CoverKept(o)
    BY DEF CoverKept, money, parts
  <1>3. \A o \in Order : order'[o].status \in Stopped => HoldsLess(o)
    BY DEF HoldsLess, work, parts
  <1> QED BY <1>1, <1>2, <1>3, SteadyStep DEF work

LEMMA OrderSet ==
  ASSUME Types, NEW o \in Order, NEW r \in OrderRow, order' = [order EXCEPT ![o] = r],
         r.status \in Stopped => order[o].status \in Stopped
  PROVE  /\ order' \in [Order -> OrderRow]
         /\ \A p \in Order : order'[p].status \in Stopped => order[p].status \in Stopped
  BY DEF Types

LEMMA OrderMoves ==
  ASSUME Types, NEW o \in Order, NEW next \in Status \ Stopped, Moves(o, next)
  PROVE  /\ order' \in [Order -> OrderRow]
         /\ \A p \in Order : order'[p].status \in Stopped => order[p].status \in Stopped
  <1>1. [order[o] EXCEPT !.status = next] \in OrderRow
        /\ [order[o] EXCEPT !.status = next].status = next
    BY DEF Types, OrderRow
  <1>2. order' = [order EXCEPT ![o] = [order[o] EXCEPT !.status = next]]
    BY DEF Moves
  <1> QED BY <1>1, <1>2, OrderSet

LEMMA OrderSteps ==
  ASSUME IInv, NEW o \in Order, (\E passed \in BOOLEAN : Control(o, passed)) \/ Abandon(o) \/ Handover(o)
  PROVE  IInv'
  <1>1. Types
    BY DEF IInv
  <1>2. UNCHANGED <<money, work, parts>> /\ Answers
    BY DEF Control, Abandon, Handover, Answers
  <1>3. ASSUME NEW passed \in BOOLEAN, Control(o, passed) PROVE IInv'
    <2>1. order[o] \in OrderRow /\ order[o].controls + 1 \in Nat
      BY <1>1 DEF Types, OrderRow
    <2>2. PICK n \in Nat : order[o].controls + 1 = n
      BY <2>1
    <2> DEFINE r == [order[o] EXCEPT !.controls = n, !.passed = passed]
    <2>3. r \in OrderRow /\ r.status = order[o].status
      BY <2>1 DEF OrderRow
    <2>4. order' = [order EXCEPT ![o] = r]
      BY <1>3, <2>2 DEF Control
    <2> HIDE DEF r
    <2> QED BY <1>1, <1>2, <2>3, <2>4, OrderSet, OrderOnly
  <1>4. CASE Abandon(o)
    <2>1. "abandonment_pending" \in Status \ Stopped
      BY DEF Status, Stopped
    <2> QED BY <1>1, <1>2, <1>4, <2>1, OrderMoves, OrderOnly DEF Abandon
  <1>5. CASE Handover(o)
    <2>1. "delivered" \in Status \ Stopped
      BY DEF Status, Stopped
    <2> QED BY <1>1, <1>2, <1>5, <2>1, OrderMoves, OrderOnly DEF Handover
  <1> QED BY <1>3, <1>4, <1>5

LEMMA ReadSound ==
  ASSUME IInv, NEW c \in Clerk, NEW op, Doing(c, op)
  PROVE  Answers /\ RequestSound(request[c]) /\ request[c].op = op
  BY DEF IInv, Requests, Doing, Answers

LEMMA OrderWrites ==
  ASSUME IInv, NEW c \in Clerk, WriteStatus(c) \/ WriteInspection(c) \/ WriteDiagnostic(c)
  PROVE  IInv'
  <1> DEFINE o == request[c].order
  <1>1. Types
    BY DEF IInv
  <1>2. UNCHANGED <<money, work, parts>>
    BY DEF WriteStatus, WriteInspection, WriteDiagnostic
  <1>3. Answers /\ o \in Order
    BY ReadSound DEF WriteStatus, WriteInspection, WriteDiagnostic, RequestSound
  <1>4. order[o] \in OrderRow
    BY <1>1, <1>3 DEF Types
  <1>5. CASE WriteStatus(c)
    <2> DEFINE next == request[c].next
               entries == IF next = "quality_control" THEN order[o].entries + 1 ELSE order[o].entries
               r == [order[o] EXCEPT !.status = next, !.entries = entries]
    <2>1. next \in Status \ Stopped
      BY <1>5, ReadSound, TransitionStatus DEF WriteStatus, RequestSound
    <2>2. entries \in Nat
      BY <1>4 DEF OrderRow
    <2>3. order' = [order EXCEPT ![o] = r]
      BY <1>5 DEF WriteStatus
    <2> HIDE DEF next, entries
    <2>4. r \in OrderRow /\ r.status = next
      BY <1>4, <2>1, <2>2 DEF OrderRow
    <2> HIDE DEF r, o
    <2> QED BY <1>1, <1>2, <1>3, <2>1, <2>3, <2>4, OrderSet, OrderOnly
  <1>6. CASE WriteInspection(c)
    <2> DEFINE r == [order[o] EXCEPT !.inspected = TRUE]
    <2>1. r \in OrderRow /\ r.status = order[o].status
      BY <1>4 DEF OrderRow
    <2>2. order' = [order EXCEPT ![o] = r]
      BY <1>6 DEF WriteInspection
    <2> HIDE DEF r, o
    <2> QED BY <1>1, <1>2, <1>3, <2>1, <2>2, OrderSet, OrderOnly
  <1>7. CASE WriteDiagnostic(c)
    <2> DEFINE r == [order[o] EXCEPT !.diagnosed = TRUE]
    <2>1. r \in OrderRow /\ r.status = order[o].status
      BY <1>4 DEF OrderRow
    <2>2. order' = [order EXCEPT ![o] = r]
      BY <1>7 DEF WriteDiagnostic
    <2> HIDE DEF r, o
    <2> QED BY <1>1, <1>2, <1>3, <2>1, <2>2, OrderSet, OrderOnly
  <1> QED BY <1>5, <1>6, <1>7

LEMMA WarrantyRows ==
  ASSUME Types, NEW o \in Order, NEW v, warranty' = [warranty EXCEPT ![o] = v],
         NEW claim,
         v \in [decision : {"none", "PENDING", "APPROVED", "REJECTED"},
                allocation : {"UNALLOCATED", "DRAFT", "CONFIRMED"}, version : Nat,
                claim : {claim}]
  PROVE  /\ \E claims : warranty' \in Warranties(claims)
         /\ warranty'[o] = v /\ \A p \in Order \ {o} : warranty'[p] = warranty[p]
  <1>1. PICK claims : warranty \in Warranties(claims)
    BY DEF Types
  <1>2. warranty' \in Warranties(claims \cup {claim})
    BY <1>1 DEF Warranties
  <1>3. warranty'[o] = v /\ \A p \in Order \ {o} : warranty'[p] = warranty[p]
    BY <1>1 DEF Warranties
  <1> QED BY <1>2, <1>3

LEMMA WarrantyTyped ==
  ASSUME Types, NEW o \in Order
  PROVE  warranty[o] \in [decision : {"none", "PENDING", "APPROVED", "REJECTED"},
                          allocation : {"UNALLOCATED", "DRAFT", "CONFIRMED"}, version : Nat,
                          claim : {warranty[o].claim}]
  <1>1. PICK claims : warranty \in Warranties(claims)
    BY DEF Types
  <1> QED BY <1>1 DEF Warranties

LEMMA CreateStep ==
  ASSUME IInv, NEW o \in Order, NEW eligible \in BOOLEAN, Create(o, eligible)
  PROVE  IInv'
  <1>1. Types
    BY DEF IInv
  <1>2. UNCHANGED <<share, work, parts>> /\ Answers
    BY DEF Create, Answers
  <1>3. "planned" \in Status \ Stopped
    BY DEF Status, Stopped
  <1>4. /\ order' \in [Order -> OrderRow]
        /\ \A p \in Order : order'[p].status \in Stopped => order[p].status \in Stopped
    BY <1>1, <1>3, OrderMoves DEF Create
  <1>5. /\ \E claims : warranty' \in Warranties(claims)
        /\ \A p \in Order : warranty'[p].decision = "APPROVED" /\ warranty'[p].allocation = "CONFIRMED" =>
              warranty[p].decision = "APPROVED" /\ warranty[p].allocation = "CONFIRMED"
    <2>1. CASE eligible
      <3> DEFINE v == [warranty[o] EXCEPT !.decision = "PENDING"]
      <3>1. /\ v \in [decision : {"none", "PENDING", "APPROVED", "REJECTED"},
                      allocation : {"UNALLOCATED", "DRAFT", "CONFIRMED"}, version : Nat,
                      claim : {warranty[o].claim}]
            /\ v.decision = "PENDING"
        BY <1>1, WarrantyTyped
      <3>2. warranty' = [warranty EXCEPT ![o] = v]
        BY <2>1 DEF Create
      <3> HIDE DEF v
      <3>3. /\ \E claims : warranty' \in Warranties(claims)
            /\ warranty'[o] = v /\ \A p \in Order \ {o} : warranty'[p] = warranty[p]
        BY <1>1, <3>1, <3>2, WarrantyRows
      <3> QED BY <3>1, <3>3
    <2>2. CASE ~eligible
      BY <1>1, <2>2 DEF Create, Types
    <2> QED BY <2>1, <2>2
  <1>6. Types'
    BY <1>1, <1>2, <1>4, <1>5 DEF Types, work, parts
  <1>7. \A p \in Order : CoverKept(p)
    BY <1>2, <1>5 DEF CoverKept, parts
  <1>8. \A p \in Order : order'[p].status \in Stopped => HoldsLess(p)
    BY <1>2, <1>4 DEF HoldsLess, work, parts
  <1> QED BY <1>2, <1>6, <1>7, <1>8, SteadyStep DEF work

LEMMA InvoiceKept ==
  ASSUME IInv, NEW o \in Order, Invoice(o)
  PROVE  IInv'
  <1>1. Types
    BY DEF IInv
  <1>2. UNCHANGED <<share, work, parts>> /\ Answers
    BY DEF Invoice, Answers
  <1>3. "invoiced" \in Status \ Stopped
    BY DEF Status, Stopped
  <1>4. /\ order' \in [Order -> OrderRow]
        /\ \A p \in Order : order'[p].status \in Stopped => order[p].status \in Stopped
    BY <1>1, <1>3, OrderMoves DEF Invoice
  <1>5. PICK claim : warranty' = [warranty EXCEPT ![o] = [warranty[o] EXCEPT !.claim = claim]]
    BY DEF Invoice
  <1> DEFINE v == [warranty[o] EXCEPT !.claim = claim]
  <1>6. /\ v \in [decision : {"none", "PENDING", "APPROVED", "REJECTED"},
                  allocation : {"UNALLOCATED", "DRAFT", "CONFIRMED"}, version : Nat,
                  claim : {claim}]
        /\ v.decision = warranty[o].decision /\ v.allocation = warranty[o].allocation
    BY <1>1, WarrantyTyped
  <1> HIDE DEF v
  <1>7. /\ \E claims : warranty' \in Warranties(claims)
        /\ warranty'[o] = v /\ \A p \in Order \ {o} : warranty'[p] = warranty[p]
    BY <1>1, <1>5, <1>6, WarrantyRows DEF v
  <1>8. Types'
    BY <1>1, <1>2, <1>4, <1>7 DEF Types, work, parts
  <1>9. \A p \in Order : CoverKept(p)
    BY <1>2, <1>6, <1>7 DEF CoverKept, parts
  <1>10. \A p \in Order : order'[p].status \in Stopped => HoldsLess(p)
    BY <1>2, <1>4 DEF HoldsLess, work, parts
  <1> QED BY <1>2, <1>8, <1>9, <1>10, SteadyStep DEF work

\* invoices are nobody's business here
LEMMA InvoicingSteps ==
  ASSUME IInv, \/ \E o \in Order : ManualInvoice(o)
               \/ \E i \in DOMAIN invoices : Pay(i) \/ Void(i)
  PROVE  IInv'
  <1>1. UNCHANGED <<order, warranty, share, work, parts, request>>
    BY DEF ManualInvoice, Pay, Void, Invoicing
  <1>2. Types'
    BY <1>1 DEF IInv, Types, work, parts
  <1>3. \A o \in Order : CoverKept(o)
    BY <1>1 DEF CoverKept, parts
  <1>4. \A o \in Order : order'[o].status \in Stopped => HoldsLess(o)
    BY <1>1 DEF HoldsLess, work, parts
  <1> QED BY <1>1, <1>2, <1>3, <1>4, SteadyStep DEF Answers, work

-----------------------------------------------------------------------------
(* Orders that are given up.                                               *)

LEMMA Cleaned ==
  ASSUME Types, NEW o \in Order, Cleanup(o)
  PROVE  /\ job' \in [Labor -> JobRow] /\ reservation' \in [Part \cup Free -> ReservationRow]
         /\ Reserved(o)' = {} /\ OpenJobs(o)' = {}
         /\ \A l \in Part \cup Free : reservation'[l].status = "reserved" => reservation[l].status = "reserved"
         /\ \A l \in Labor : job'[l].status \in Open => job[l].status \in Open
  <1>1. \A l \in Labor : /\ job[l] \in JobRow
                         /\ [job[l] EXCEPT !.status = "cancelled"] \in JobRow
                         /\ [job[l] EXCEPT !.status = "cancelled"].status = "cancelled"
    BY DEF Types, JobRow
  <1>2. \A l \in Part \cup Free : /\ reservation[l] \in ReservationRow
                                  /\ [reservation[l] EXCEPT !.status = "released"] \in ReservationRow
                                  /\ [reservation[l] EXCEPT !.status = "released"].status = "released"
    BY DEF Types, ReservationRow
  <1>3. /\ job' \in [Labor -> JobRow]
        /\ \A l \in Labor : job'[l] = IF l \in OpenJobs(o) THEN [job[l] EXCEPT !.status = "cancelled"]
                                      ELSE job[l]
    BY <1>1 DEF Cleanup
  <1>4. /\ reservation' \in [Part \cup Free -> ReservationRow]
        /\ \A l \in Part \cup Free :
              reservation'[l] = IF l \in Reserved(o) THEN [reservation[l] EXCEPT !.status = "released"]
                                ELSE reservation[l]
    BY <1>2 DEF Cleanup
  <1>5. \A l \in Labor : job'[l].status \in Open => l \notin OpenJobs(o) /\ job[l].status \in Open
    BY <1>1, <1>3 DEF Open
  <1>6. \A l \in Part \cup Free : reservation'[l].status = "reserved" =>
           l \notin Reserved(o) /\ reservation[l].status = "reserved"
    BY <1>2, <1>4
  <1>7. OpenJobs(o)' = {}
    BY <1>5 DEF OpenJobs, LinesOf, Open
  <1>8. Reserved(o)' = {}
    BY <1>6 DEF Reserved, LinesOf
  <1> QED BY <1>3, <1>4, <1>5, <1>6, <1>7, <1>8

LEMMA GivenUp ==
  ASSUME IInv, NEW o \in Order, Cleanup(o), NotStarted(o), Answers,
         UNCHANGED <<money, estimate, sessions, item>>,
         order' \in [Order -> OrderRow],
         \A p \in Order \ {o} : order'[p] = order[p]
  PROVE  IInv'
  <1>1. Types /\ sessions' = sessions
    BY DEF IInv
  <1>2. Types'
    BY <1>1, Cleaned DEF Types, money
  <1>3. \A p \in Order : CoverKept(p)
    BY DEF CoverKept, money
  <1>4. \A p \in Order : order'[p].status \in Stopped =>
           HoldsLess(p) \/ (Reserved(p)' = {} /\ OpenJobs(p)' = {} /\ NotStarted(p))
    BY <1>1, Cleaned DEF HoldsLess
  <1> QED BY <1>1, <1>2, <1>3, <1>4, SteadyStep

LEMMA GivingUpSteps ==
  ASSUME IInv, NEW o \in Order,
         \/ Approve(o, FALSE) \/ Finalize(o)
         \/ \E c \in Clerk : WriteCancelled(c) /\ request[c].order = o
  PROVE  IInv'
  <1>1. Types /\ order[o] \in OrderRow
    BY DEF IInv, Types
  <1>2. CASE Approve(o, FALSE)
    <2> DEFINE r == [order[o] EXCEPT !.approval = "no", !.status = "cancelled"]
    <2>1. r \in OrderRow
      BY <1>1 DEF OrderRow, Status
    <2>2. order' = [order EXCEPT ![o] = r]
      BY <1>2 DEF Approve
    <2> HIDE DEF r
    <2>3. order' \in [Order -> OrderRow] /\ \A p \in Order \ {o} : order'[p] = order[p]
      BY <1>1, <2>1, <2>2 DEF Types
    <2> QED BY <1>2, <2>3, GivenUp DEF Approve, Answers
  <1>3. ASSUME NEW next \in {"cancelled", "abandoned"}, Moves(o, next)
        PROVE  order' \in [Order -> OrderRow] /\ \A p \in Order \ {o} : order'[p] = order[p]
    BY <1>1, <1>3 DEF Moves, Types, OrderRow, Status
  <1>4. CASE Finalize(o)
    BY <1>3, <1>4, GivenUp DEF Finalize, Answers
  <1>5. ASSUME NEW c \in Clerk, WriteCancelled(c), request[c].order = o PROVE IInv'
    <2>1. Answers /\ Cleanup(o) /\ NotStarted(o) /\ Moves(o, "cancelled")
          /\ UNCHANGED <<money, estimate, sessions, item>>
      BY <1>5, ReadSound DEF WriteCancelled
    <2> QED BY <1>3, <2>1, GivenUp
  <1> QED BY <1>2, <1>4, <1>5

LEMMA ApproveStep ==
  ASSUME IInv, NEW o \in Order, Approve(o, TRUE)
  PROVE  IInv'
  <1> DEFINE r == [order[o] EXCEPT !.approval = "yes"]
  <1>1. Types /\ order[o] \in OrderRow
    BY DEF IInv, Types
  <1>2. r \in OrderRow /\ r.status = order[o].status
    BY <1>1 DEF OrderRow
  <1>3. order' = [order EXCEPT ![o] = r]
    BY DEF Approve
  <1> HIDE DEF r
  <1>4. UNCHANGED <<money, work, parts>> /\ Answers
    BY DEF Approve, Answers, work, parts
  <1> QED BY <1>1, <1>2, <1>3, <1>4, OrderSet, OrderOnly

-----------------------------------------------------------------------------
(* Parts and lines.                                                        *)

LEMMA EstimateSteps ==
  ASSUME IInv, NEW l, AddEstimate(l) \/ RemoveEstimate(l)
  PROVE  IInv'
  <1>1. UNCHANGED <<order, money, job, sessions, parts, request>>
    BY DEF AddEstimate, RemoveEstimate
  <1>2. Types'
    BY <1>1 DEF IInv, Types, money, parts
  <1>3. \A o \in Order : CoverKept(o)
    BY <1>1 DEF CoverKept, money, parts
  <1>4. \A o \in Order : order'[o].status \in Stopped => HoldsLess(o)
    BY <1>1 DEF HoldsLess, parts
  <1> QED BY <1>1, <1>2, <1>3, <1>4, SteadyStep DEF Answers

LEMMA StockStep ==
  ASSUME IInv, NEW current, ChangeStock(current)
  PROVE  IInv'
  <1>1. UNCHANGED <<order, money, work, reservation, item, request>>
    BY DEF ChangeStock
  <1>2. Types'
    BY <1>1 DEF IInv, Types, money, work
  <1>3. \A o \in Order : CoverKept(o)
    BY <1>1 DEF CoverKept, money
  <1>4. \A o \in Order : order'[o].status \in Stopped => HoldsLess(o)
    BY <1>1 DEF HoldsLess, work
  <1> QED BY <1>1, <1>2, <1>3, <1>4, SteadyStep DEF Answers, work

\* a reservation changes, under an order that may have one
LEMMA ReservationSet ==
  ASSUME IInv, NEW l \in Part \cup Free, NEW r \in ReservationRow,
         reservation' = [reservation EXCEPT ![l] = r],
         UNCHANGED <<order, money, work, item>>, Answers,
         order[Of[l]].status \notin Stopped
  PROVE  IInv'
  <1>1. Types'
    BY DEF IInv, Types, money, work
  <1>2. \A o \in Order : CoverKept(o)
    BY DEF CoverKept, money
  <1>3. \A o \in Order : order'[o].status \in Stopped => HoldsLess(o)
    BY DEF HoldsLess, IInv, Types, work
  <1> QED BY <1>1, <1>2, <1>3, SteadyStep DEF work

LEMMA ReservationSteps ==
  ASSUME IInv, \/ \E l \in Part : Reserve(l)
               \/ \E l \in Part \cup Free : Release(l)
               \/ \E c \in Clerk : WriteReservation(c)
  PROVE  IInv'
  <1>1. \A l \in Part \cup Free :
           /\ [reservation[l] EXCEPT !.status = "reserved"] \in ReservationRow
           /\ [reservation[l] EXCEPT !.status = "released"] \in ReservationRow
    BY DEF IInv, Types, ReservationRow
  <1>2. ASSUME NEW l \in Part, Reserve(l) PROVE IInv'
    <2>1. order[Of[l]].status \notin Stopped
      BY <1>2 DEF Reserve, Stopped
    <2>2. reservation' = [reservation EXCEPT ![l] = [reservation[l] EXCEPT !.status = "reserved"]]
      BY <1>2 DEF Reserve, Reserving
    <2>3. UNCHANGED <<order, money, work, item>> /\ Answers
      BY <1>2 DEF Reserve, Answers
    <2> QED BY <1>1, <2>1, <2>2, <2>3, ReservationSet
  <1>3. ASSUME NEW l \in Part \cup Free, Release(l) PROVE IInv'
    <2>1. order[Of[l]].status \notin Stopped
      BY <1>3 DEF Release, Stopped, Reservable
    <2>2. reservation' = [reservation EXCEPT ![l] = [reservation[l] EXCEPT !.status = "released"]]
      BY <1>3 DEF Release
    <2>3. UNCHANGED <<order, money, work, item>> /\ Answers
      BY <1>3 DEF Release, Answers
    <2> QED BY <1>1, <2>1, <2>2, <2>3, ReservationSet
  <1>4. ASSUME NEW c \in Clerk, WriteReservation(c) PROVE IInv'
    <2> DEFINE l == request[c].line
    <2>0. Answers /\ l \in Free
      BY <1>4, ReadSound DEF WriteReservation, RequestSound
    <2>1. order[Of[l]].status \notin Stopped
      BY <1>4 DEF WriteReservation, Stopped, Reservable
    <2>2. reservation' = [reservation EXCEPT ![l] = [reservation[l] EXCEPT !.status = "reserved"]]
      BY <1>4 DEF WriteReservation, Reserving
    <2>3. UNCHANGED <<order, money, work, item>>
      BY <1>4 DEF WriteReservation
    <2> HIDE DEF l
    <2> QED BY <1>1, <2>0, <2>1, <2>2, <2>3, ReservationSet
  <1> QED BY <1>2, <1>3, <1>4

LEMMA InvalidatedRow ==
  ASSUME Types, NEW o \in Order, Invalidate(o)
  PROVE  /\ \E claims : warranty' \in Warranties(claims)
         /\ \A p \in Order \ {o} : warranty'[p] = warranty[p]
         /\ ~ (warranty'[o].decision = "APPROVED" /\ warranty'[o].allocation = "CONFIRMED")
  <1> DEFINE w == warranty[o]
  <1>1. w \in [decision : {"none", "PENDING", "APPROVED", "REJECTED"},
               allocation : {"UNALLOCATED", "DRAFT", "CONFIRMED"}, version : Nat, claim : {w.claim}]
    BY WarrantyTyped
  <1>2. warranty' = [warranty EXCEPT ![o] = Invalidated(o)]
    BY DEF Invalidate
  <1>3. /\ Invalidated(o) \in [decision : {"none", "PENDING", "APPROVED", "REJECTED"},
                               allocation : {"UNALLOCATED", "DRAFT", "CONFIRMED"}, version : Nat,
                               claim : {w.claim}]
        /\ ~ (Invalidated(o).decision = "APPROVED" /\ Invalidated(o).allocation = "CONFIRMED")
    <2>1. CASE w.allocation # "CONFIRMED"
      BY <1>1, <2>1 DEF Invalidated
    <2>2. CASE w.allocation = "CONFIRMED"
      <3> DEFINE a == IF w.decision = "APPROVED" THEN "DRAFT" ELSE w.allocation
      <3>0. PICK n \in Nat : w.version + 1 = n
        BY <1>1
      <3>1. Invalidated(o) = [w EXCEPT !.version = n, !.allocation = a]
        BY <2>2, <3>0 DEF Invalidated
      <3>2. a \in {"UNALLOCATED", "DRAFT", "CONFIRMED"} /\ (w.decision = "APPROVED" => a = "DRAFT")
        BY <1>1
      <3> HIDE DEF a, w
      <3> QED BY <1>1, <3>1, <3>2
    <2> QED BY <2>1, <2>2
  <1> QED BY <1>2, <1>3, WarrantyRows

\* a line changes, and the warranty is no longer confirmed
LEMMA LineChanged ==
  ASSUME IInv, NEW l \in Line, NEW r \in ItemRow, item' = [item EXCEPT ![l] = r],
         Invalidate(Of[l]), Answers,
         UNCHANGED <<order, share, work>>, reservation' \in [Part \cup Free -> ReservationRow],
         \A k \in Part \cup Free : reservation'[k].status = "reserved" => reservation[k].status = "reserved"
  PROVE  IInv'
  <1>1. Of[l] \in Order /\ Types
    BY Lines DEF IInv
  <1>2. /\ \E claims : warranty' \in Warranties(claims)
        /\ \A p \in Order \ {Of[l]} : warranty'[p] = warranty[p]
        /\ ~ (warranty'[Of[l]].decision = "APPROVED" /\ warranty'[Of[l]].allocation = "CONFIRMED")
    BY <1>1, InvalidatedRow
  <1>3. Types'
    BY <1>1, <1>2 DEF Types, work
  <1>4. \A k \in Line \ {l} : item'[k] = item[k]
    BY <1>1 DEF Types
  <1>5. \A o \in Order : CoverKept(o)
    <2> SUFFICES ASSUME NEW o \in Order PROVE CoverKept(o)
      OBVIOUS
    <2>1. CASE o = Of[l]
      BY <1>2, <2>1 DEF CoverKept
    <2>2. CASE o # Of[l]
      BY <1>2, <1>4, <2>2 DEF CoverKept, LinesOf
    <2> QED BY <2>1, <2>2
  <1>6. \A o \in Order : order'[o].status \in Stopped => HoldsLess(o)
    BY DEF HoldsLess, work
  <1> QED BY <1>3, <1>5, <1>6, SteadyStep DEF work

LEMMA ItemSteps ==
  ASSUME IInv, \/ \E l \in Labor : PutLabor(l)
               \/ \E l \in Extra : PutPart(l)
               \/ \E l \in Part \cup Free : \E q \in 1..Quantity[l] : Consume(l, q)
               \/ \E c \in Clerk : WriteEdit(c)
  PROVE  IInv'
  <1>1. Types
    BY DEF IInv
  <1>2. ASSUME NEW l \in Line, PutLabor(l) \/ PutPart(l) PROVE IInv'
    <2>1. [status |-> "active", quantity |-> Quantity[l]] \in ItemRow
      BY Lines DEF ItemRow
    <2>2. /\ item' = [item EXCEPT ![l] = [status |-> "active", quantity |-> Quantity[l]]]
          /\ Invalidate(Of[l]) /\ UNCHANGED <<order, share, work, reservation, request>>
      BY <1>2 DEF PutLabor, PutPart
    <2> QED BY <1>1, <2>1, <2>2, LineChanged DEF Types, Answers
  <1>3. ASSUME NEW l \in Part \cup Free, NEW q \in 1..Quantity[l], Consume(l, q) PROVE IInv'
    <2> DEFINE consumed == reservation[l].consumed + q
               state == IF consumed = Quantity[l] THEN "consumed" ELSE "reserved"
               kept == IF item[l].status = "none" THEN "active" ELSE item[l].status
    <2>1. l \in Line /\ Quantity[l] \in Nat
      BY Lines
    <2>2. reservation[l] \in ReservationRow /\ item[l] \in ItemRow
      BY <1>1, <2>1 DEF Types
    <2>3. [status |-> state, consumed |-> consumed] \in ReservationRow
      BY <2>1, <2>2 DEF ReservationRow
    <2>4. [status |-> kept, quantity |-> item[l].quantity + q] \in ItemRow
      BY <2>1, <2>2 DEF ItemRow
    <2>5. /\ reservation[l].status = "reserved"
          /\ reservation' = [reservation EXCEPT ![l] = [status |-> state, consumed |-> consumed]]
          /\ item' = [item EXCEPT ![l] = [status |-> kept, quantity |-> item[l].quantity + q]]
          /\ Invalidate(Of[l]) /\ UNCHANGED <<order, share, work, request>>
      BY <1>3 DEF Consume
    <2> HIDE DEF consumed, state, kept
    <2>6. /\ reservation' \in [Part \cup Free -> ReservationRow]
          /\ \A k \in Part \cup Free : reservation'[k].status = "reserved" => reservation[k].status = "reserved"
      BY <1>1, <2>3, <2>5 DEF Types
    <2> QED BY <2>1, <2>4, <2>5, <2>6, LineChanged DEF Answers
  <1>4. ASSUME NEW c \in Clerk, WriteEdit(c) PROVE IInv'
    <2> DEFINE l == request[c].line
               q == request[c].quantity
    <2>1. Answers /\ l \in Line /\ q \in Nat
      BY <1>4, ReadSound DEF WriteEdit, RequestSound
    <2>2. item[l] \in ItemRow
      BY <1>1, <2>1 DEF Types
    <2>3. [item[l] EXCEPT !.status = "cancelled"] \in ItemRow /\ [item[l] EXCEPT !.quantity = q] \in ItemRow
      BY <2>1, <2>2 DEF ItemRow
    <2>4. PICK r \in ItemRow : item' = [item EXCEPT ![l] = r]
      BY <1>4, <2>3 DEF WriteEdit
    <2>5. Invalidate(Of[l]) /\ UNCHANGED <<order, share, work, reservation>>
      BY <1>4 DEF WriteEdit
    <2> QED BY <1>1, <2>1, <2>4, <2>5, LineChanged DEF Types
  <1> QED BY <1>2, <1>3, <1>4, Lines

-----------------------------------------------------------------------------
(* The warranty.                                                           *)

LEMMA WarrantySet ==
  ASSUME IInv, NEW o \in Order, NEW v,
         v \in [decision : {"none", "PENDING", "APPROVED", "REJECTED"},
                allocation : {"UNALLOCATED", "DRAFT", "CONFIRMED"}, version : Nat,
                claim : {warranty[o].claim}],
         warranty' = [warranty EXCEPT ![o] = v], UNCHANGED <<order, work, parts>>, Answers,
         \A l \in Line : Of[l] # o => share'[l] = share[l],
         CoverKept(o)
  PROVE  IInv'
  <1>1. Types
    BY DEF IInv
  <1>2. /\ \E claims : warranty' \in Warranties(claims)
        /\ \A p \in Order \ {o} : warranty'[p] = warranty[p]
    BY <1>1, WarrantyRows
  <1>3. Types'
    BY <1>1, <1>2 DEF Types, work, parts
  <1>4. \A p \in Order : CoverKept(p)
    BY <1>2 DEF CoverKept, LinesOf, parts
  <1>5. \A p \in Order : order'[p].status \in Stopped => HoldsLess(p)
    BY DEF HoldsLess, work, parts
  <1> QED BY <1>3, <1>4, <1>5, SteadyStep DEF work

LEMMA VersionType ==
  ASSUME Types, NEW o \in Order
  PROVE  warranty[o].version + 1 \in Nat
  BY WarrantyTyped

LEMMA WriteWarrantyStep ==
  ASSUME IInv, NEW c \in Clerk, WriteWarranty(c)
  PROVE  IInv'
  <1> DEFINE o == request[c].order
             w == warranty[o]
  <1>1. Answers /\ o \in Order
    BY ReadSound DEF WriteWarranty, RequestSound
  <1>2. Types /\ w.version + 1 \in Nat
    BY <1>1, VersionType DEF IInv
  <1>3. w \in [decision : {"none", "PENDING", "APPROVED", "REJECTED"},
               allocation : {"UNALLOCATED", "DRAFT", "CONFIRMED"}, version : Nat, claim : {w.claim}]
    BY <1>1, <1>2, WarrantyTyped
  <1>4. PICK n \in Nat : w.version + 1 = n
    BY <1>2
  <1> DEFINE v == IF w.decision = "none" THEN [w EXCEPT !.decision = "PENDING"]
                  ELSE [w EXCEPT !.version = n]
  <1>5. warranty' = [warranty EXCEPT ![o] = v] /\ share' = share /\ UNCHANGED <<order, work, parts>>
    BY <1>4 DEF WriteWarranty
  <1> HIDE DEF w
  <1>6. /\ v \in [decision : {"none", "PENDING", "APPROVED", "REJECTED"},
                  allocation : {"UNALLOCATED", "DRAFT", "CONFIRMED"}, version : Nat, claim : {w.claim}]
        /\ v.decision = "APPROVED" /\ v.allocation = "CONFIRMED" =>
              w.decision = "APPROVED" /\ w.allocation = "CONFIRMED"
    BY <1>3
  <1> HIDE DEF v
  <1>7. warranty'[o] = v
    BY <1>1, <1>2, <1>5, <1>6, WarrantyRows
  <1>8. CoverKept(o)
    BY <1>5, <1>6, <1>7 DEF CoverKept, parts, w
  <1> QED BY <1>1, <1>5, <1>6, <1>8, WarrantySet DEF w

LEMMA WriteDecisionStep ==
  ASSUME IInv, NEW c \in Clerk, NEW approved \in BOOLEAN, WriteDecision(c, approved)
  PROVE  IInv'
  <1> DEFINE o == request[c].order
             w == warranty[o]
             d == IF approved THEN "APPROVED" ELSE "REJECTED"
             a == IF approved THEN "DRAFT" ELSE "CONFIRMED"
  <1>1. Answers /\ o \in Order
    BY ReadSound DEF WriteDecision, SameVersion, RequestSound
  <1>2. Types /\ w.version + 1 \in Nat
    BY <1>1, VersionType DEF IInv
  <1>3. w \in [decision : {"none", "PENDING", "APPROVED", "REJECTED"},
               allocation : {"UNALLOCATED", "DRAFT", "CONFIRMED"}, version : Nat, claim : {w.claim}]
    BY <1>1, <1>2, WarrantyTyped
  <1>4. PICK n \in Nat : w.version + 1 = n
    BY <1>2
  <1> DEFINE v == [w EXCEPT !.version = n, !.decision = d, !.allocation = a]
  <1>5. /\ warranty' = [warranty EXCEPT ![o] = v] /\ UNCHANGED <<order, work, parts>>
        /\ \A l \in Line : Of[l] # o => share'[l] = share[l]
    BY <1>4 DEF WriteDecision
  <1>6. d \in {"APPROVED", "REJECTED"} /\ a \in {"DRAFT", "CONFIRMED"} /\ (d = "APPROVED" => a = "DRAFT")
    OBVIOUS
  <1> HIDE DEF w, d, a
  <1>7. /\ v \in [decision : {"none", "PENDING", "APPROVED", "REJECTED"},
                  allocation : {"UNALLOCATED", "DRAFT", "CONFIRMED"}, version : Nat, claim : {w.claim}]
        /\ ~ (v.decision = "APPROVED" /\ v.allocation = "CONFIRMED")
    BY <1>3, <1>6
  <1> HIDE DEF v
  <1>8. warranty'[o] = v
    BY <1>1, <1>2, <1>5, <1>7, WarrantyRows
  <1>9. CoverKept(o)
    BY <1>7, <1>8 DEF CoverKept
  <1> HIDE DEF o
  <1> QED BY <1>1, <1>5, <1>7, <1>9, WarrantySet DEF w

\* the shares are written again, or confirmed: the version moves, the decision stays
LEMMA Allocated ==
  ASSUME Types, NEW o \in Order, NEW a \in {"DRAFT", "CONFIRMED"},
         warranty' = [warranty EXCEPT ![o] = [warranty[o] EXCEPT !.allocation = a, !.version = @ + 1]]
  PROVE  /\ \E claims : warranty' \in Warranties(claims)
         /\ \A p \in Order \ {o} : warranty'[p] = warranty[p]
         /\ warranty'[o].decision = warranty[o].decision /\ warranty'[o].allocation = a
         /\ \E v \in [decision : {"none", "PENDING", "APPROVED", "REJECTED"},
                      allocation : {"UNALLOCATED", "DRAFT", "CONFIRMED"}, version : Nat,
                      claim : {warranty[o].claim}] : warranty' = [warranty EXCEPT ![o] = v]
  <1> DEFINE w == warranty[o]
  <1>1. w \in [decision : {"none", "PENDING", "APPROVED", "REJECTED"},
               allocation : {"UNALLOCATED", "DRAFT", "CONFIRMED"}, version : Nat, claim : {w.claim}]
    BY WarrantyTyped
  <1>2. PICK n \in Nat : w.version + 1 = n
    BY VersionType
  <1> DEFINE v == [w EXCEPT !.allocation = a, !.version = n]
  <1>3. warranty' = [warranty EXCEPT ![o] = v]
    BY <1>2
  <1> HIDE DEF w
  <1>4. /\ v \in [decision : {"none", "PENDING", "APPROVED", "REJECTED"},
                  allocation : {"UNALLOCATED", "DRAFT", "CONFIRMED"}, version : Nat, claim : {w.claim}]
        /\ v.decision = w.decision /\ v.allocation = a
    BY <1>1
  <1> HIDE DEF v
  <1>5. /\ \E claims : warranty' \in Warranties(claims)
        /\ warranty'[o] = v /\ \A p \in Order \ {o} : warranty'[p] = warranty[p]
    BY <1>3, <1>4, WarrantyRows
  <1> QED BY <1>3, <1>4, <1>5 DEF w

LEMMA WriteSharesStep ==
  ASSUME IInv, NEW c \in Clerk, NEW covered, WriteShares(c, covered)
  PROVE  IInv'
  <1> DEFINE o == request[c].order
  <1>1. Answers /\ o \in Order
    BY ReadSound DEF WriteShares, SameVersion, RequestSound
  <1>2. Types
    BY DEF IInv
  <1>3. /\ warranty' = [warranty EXCEPT ![o] = [warranty[o] EXCEPT !.allocation = "DRAFT", !.version = @ + 1]]
        /\ UNCHANGED <<order, work, parts>>
    BY DEF WriteShares
  <1>4. \A l \in Line : Of[l] # o => share'[l] = share[l]
    BY DEF WriteShares, ActiveItems, LinesOf
  <1> HIDE DEF o
  <1>5. /\ \E v \in [decision : {"none", "PENDING", "APPROVED", "REJECTED"},
                     allocation : {"UNALLOCATED", "DRAFT", "CONFIRMED"}, version : Nat,
                     claim : {warranty[o].claim}] : warranty' = [warranty EXCEPT ![o] = v]
        /\ warranty'[o].allocation = "DRAFT"
    BY <1>1, <1>2, <1>3, Allocated
  <1>6. CoverKept(o)
    BY <1>5 DEF CoverKept
  <1> QED BY <1>1, <1>3, <1>4, <1>5, <1>6, WarrantySet

LEMMA WriteConfirmationStep ==
  ASSUME IInv, NEW c \in Clerk, WriteConfirmation(c)
  PROVE  IInv'
  <1> DEFINE o == request[c].order
  <1>1. Answers /\ o \in Order
    BY ReadSound DEF WriteConfirmation, SameVersion, RequestSound
  <1>2. Types
    BY DEF IInv
  <1>3. /\ warranty' = [warranty EXCEPT ![o] = [warranty[o] EXCEPT !.allocation = "CONFIRMED", !.version = @ + 1]]
        /\ UNCHANGED <<order, share, work, parts>>
        /\ \A l \in ActiveItems(o) : share[l] # None /\ share[l] <= item[l].quantity
    BY DEF WriteConfirmation
  <1> HIDE DEF o
  <1>4. /\ \E claims : warranty' \in Warranties(claims)
        /\ \A p \in Order \ {o} : warranty'[p] = warranty[p]
    BY <1>1, <1>2, <1>3, Allocated
  <1>5. Types'
    BY <1>2, <1>3, <1>4 DEF Types, work, parts
  <1>6. sessions' = sessions /\ item' = item
    BY <1>3 DEF work, parts
  <1>7. Requests'
    BY <1>1, <1>6, RequestsFrame DEF IInv
  <1>8. ConfirmedAllocates'
    <2>1. \A p \in Order : ActiveItems(p)' = ActiveItems(p)
      BY <1>6 DEF ActiveItems
    <2> QED BY <1>3, <1>4, <1>6, <2>1 DEF IInv, ConfirmedAllocates
  <1>9. \A p \in Order : order'[p].status \in Stopped => HoldsLess(p)
    BY <1>3 DEF HoldsLess, work, parts
  <1>10. StoppedHoldsNothing'
    BY <1>6, <1>9, StoppedFrame DEF IInv
  <1> QED BY <1>5, <1>6, <1>7, <1>8, <1>10, SameSessions DEF IInv

-----------------------------------------------------------------------------
(* Interventions and sessions.                                             *)

LEMMA JobSet ==
  ASSUME IInv, NEW l \in Labor, NEW r \in JobRow, job' = [job EXCEPT ![l] = r],
         UNCHANGED <<order, money, estimate, sessions, parts, request>>,
         order[Of[l]].status = "in_progress"
  PROVE  IInv'
  <1>1. Types /\ order[Of[l]].status \notin Stopped
    BY DEF IInv, Stopped
  <1>2. Types'
    BY <1>1 DEF Types, money, parts
  <1>3. \A o \in Order : CoverKept(o)
    BY DEF CoverKept, money, parts
  <1>4. \A o \in Order : order'[o].status \in Stopped => HoldsLess(o)
    BY <1>1 DEF HoldsLess, Types, parts
  <1> QED BY <1>2, <1>3, <1>4, SteadyStep DEF Answers

LEMMA JobStep ==
  ASSUME IInv, NEW l \in Labor,
         \/ \E t \in Technician \cup {None} : PlanJob(l, t)
         \/ \E t \in Technician : Assign(l, t)
         \/ \E next \in {"assigned", "completed", "cancelled"} : StepJob(l, next)
  PROVE  IInv'
  <1>1. job[l] \in JobRow
    BY DEF IInv, Types
  <1>2. ASSUME NEW t \in Technician \cup {None}, PlanJob(l, t) PROVE IInv'
    <2>1. [status |-> "planned", technician |-> t] \in JobRow
      BY DEF JobRow
    <2> QED BY <1>2, <2>1, JobSet DEF PlanJob
  <1>3. ASSUME NEW t \in Technician, Assign(l, t) PROVE IInv'
    <2> DEFINE s == IF job[l].status = "planned" THEN "assigned" ELSE job[l].status
               r == [job[l] EXCEPT !.technician = t, !.status = s]
    <2>1. r \in JobRow
      BY <1>1 DEF JobRow
    <2>2. job' = [job EXCEPT ![l] = r]
      BY <1>3 DEF Assign
    <2> HIDE DEF r
    <2> QED BY <1>3, <2>1, <2>2, JobSet DEF Assign
  <1>4. ASSUME NEW next \in {"assigned", "completed", "cancelled"}, StepJob(l, next) PROVE IInv'
    <2>1. [job[l] EXCEPT !.status = next] \in JobRow
      BY <1>1 DEF JobRow
    <2>2. job' = [job EXCEPT ![l] = [job[l] EXCEPT !.status = next]]
      BY <1>4 DEF StepJob
    <2> QED BY <1>4, <2>1, <2>2, JobSet DEF StepJob
  <1> QED BY <1>2, <1>3, <1>4

\* sessions change, of orders that are not stopped or as they were
LEMMA SessionsStep ==
  ASSUME IInv, Types', Answers, UNCHANGED <<order, money, parts>>, OneActiveSession',
         DOMAIN sessions \subseteq DOMAIN sessions',
         \A s \in DOMAIN sessions' :
            \/ order[Of[sessions'[s].job]].status \notin Stopped
            \/ s \in DOMAIN sessions /\ sessions'[s].job = sessions[s].job,
         \A l \in Labor : job'[l].status \in Open =>
            job[l].status \in Open \/ order[Of[l]].status \notin Stopped
  PROVE  IInv'
  <1>1. Requests'
    BY RequestsFrame DEF IInv
  <1>2. ConfirmedAllocates'
    <2>1. \A o \in Order : CoverKept(o)
      BY DEF CoverKept, money, parts
    <2> QED BY <2>1, ConfirmedFrame DEF IInv
  <1>3. StoppedHoldsNothing'
    <2> SUFFICES ASSUME NEW o \in Order, order[o].status \in Stopped
                 PROVE  Reserved(o)' = {} /\ OpenJobs(o)' = {} /\ SessionsOf(o)' = {}
      BY DEF StoppedHoldsNothing, Stopped
    <2>1. Reserved(o) = {} /\ OpenJobs(o) = {} /\ SessionsOf(o) = {}
      BY DEF IInv, StoppedHoldsNothing, Stopped
    <2>2. Reserved(o)' = {}
      BY <2>1 DEF Reserved, parts
    <2>3. OpenJobs(o)' = {}
      BY <2>1 DEF OpenJobs, LinesOf, Open
    <2>4. SessionsOf(o)' = {}
      BY <2>1 DEF SessionsOf
    <2> QED BY <2>2, <2>3, <2>4
  <1> QED BY <1>1, <1>2, <1>3 DEF IInv

LEMMA StartStep ==
  ASSUME IInv, NEW l \in Labor, NEW t \in Technician, NEW b \in Bay \cup {None}, Start(l, t, b)
  PROVE  IInv'
  <1> DEFINE new == [job |-> l, technician |-> t, bay |-> b, status |-> "running"]
             r == [job[l] EXCEPT !.status = "in_progress"]
  <1>1. Types /\ sessions \in Seq(SessionRow) /\ DOMAIN sessions = 1..Len(sessions) /\ Len(sessions) \in Nat
    BY SessionsType DEF IInv, Types
  <1>2. /\ sessions' = Append(sessions, new) /\ job' = [job EXCEPT ![l] = r]
        /\ UNCHANGED <<order, money, estimate, parts, request>>
        /\ order[Of[l]].status = "in_progress" /\ ~ Occupied(t, b)
    BY DEF Start, Starting
  <1>3. new \in SessionRow /\ r \in JobRow /\ r.status = "in_progress"
    BY <1>1 DEF SessionRow, Types, JobRow
  <1>4. /\ sessions' \in Seq(SessionRow) /\ Len(sessions') = Len(sessions) + 1
        /\ \A s \in 1..Len(sessions) : sessions'[s] = sessions[s]
        /\ sessions'[Len(sessions) + 1] = new
    BY <1>1, <1>2, <1>3, AppendProperties
  <1>5. DOMAIN sessions' = DOMAIN sessions \cup {Len(sessions) + 1} /\ Len(sessions) + 1 \notin DOMAIN sessions
    BY <1>1, <1>4, LenProperties
  <1>6. new.job = l /\ new.technician = t /\ new.bay = b
    OBVIOUS
  <1> HIDE DEF new, r
  <1>7. Types'
    BY <1>1, <1>2, <1>3, <1>4 DEF Types, money, parts
  <1>8. OneActiveSession'
    <2>1. \A s \in DOMAIN sessions : Underway(s) =>
             sessions[s].technician # t /\ (sessions[s].bay = b => b = None)
      BY <1>2 DEF Occupied
    <2>2. \A s \in DOMAIN sessions : sessions'[s] = sessions[s] /\ (Underway(s)' <=> Underway(s))
      BY <1>1, <1>4 DEF Underway
    <2> QED BY <1>4, <1>5, <1>6, <2>1, <2>2 DEF IInv, OneActiveSession
  <1>9. order[Of[l]].status \notin Stopped
    BY <1>2 DEF Stopped
  <1>10. \A s \in DOMAIN sessions' :
            \/ order[Of[sessions'[s].job]].status \notin Stopped
            \/ s \in DOMAIN sessions /\ sessions'[s].job = sessions[s].job
    BY <1>1, <1>4, <1>5, <1>6, <1>9
  <1>11. \A k \in Labor : job'[k].status \in Open =>
            job[k].status \in Open \/ order[Of[k]].status \notin Stopped
    BY <1>1, <1>2, <1>9 DEF Types
  <1> QED BY <1>2, <1>5, <1>7, <1>8, <1>10, <1>11, SessionsStep DEF Answers

\* a session changes its status; nobody is active who was not, unless he may
LEMMA SessionSet ==
  ASSUME IInv, NEW s \in DOMAIN sessions, NEW v \in {"running", "paused", "completed"},
         sessions' = [sessions EXCEPT ![s].status = v], v = "completed" \/ Underway(s),
         UNCHANGED <<order, money, parts>>, Answers,
         job' = job \/ job' = [job EXCEPT ![sessions[s].job].status = "in_progress"]
  PROVE  IInv'
  <1> DEFINE l == sessions[s].job
  <1>1. Types /\ sessions[s] \in SessionRow
    BY SessionsType DEF IInv
  <1>2. /\ sessions' \in Seq(SessionRow) /\ DOMAIN sessions' = DOMAIN sessions
        /\ \A r \in DOMAIN sessions : /\ r # s => sessions'[r] = sessions[r]
                                      /\ sessions'[r].job = sessions[r].job
                                      /\ sessions'[r].technician = sessions[r].technician
                                      /\ sessions'[r].bay = sessions[r].bay
        /\ sessions'[s].status = v
    BY <1>1, SessionStatus
  <1>3. l \in Labor /\ Of[l] \in Order
    BY <1>1, Lines DEF SessionRow
  <1>4. job' \in [Labor -> JobRow]
    BY <1>1, <1>3, ZenonT(60) DEF Types, JobRow
  <1>5. Types'
    BY <1>1, <1>2, <1>4 DEF Types, money, parts
  <1>6. \A r \in DOMAIN sessions : Underway(r)' => Underway(r)
    BY <1>2 DEF Underway
  <1>7. OneActiveSession'
    BY <1>2, <1>6 DEF IInv, OneActiveSession
  <1>8. order[Of[l]].status \notin Stopped
    <2>1. s \in SessionsOf(Of[l])
      BY DEF SessionsOf
    <2> QED BY <1>3, <2>1 DEF IInv, StoppedHoldsNothing, Stopped
  <1>9. \A k \in Labor : job'[k].status \in Open =>
            job[k].status \in Open \/ order[Of[k]].status \notin Stopped
    BY <1>1, <1>3, <1>8 DEF Types
  <1> QED BY <1>2, <1>5, <1>7, <1>9, SessionsStep

LEMMA SessionStep ==
  ASSUME IInv, \/ \E s \in DOMAIN sessions : Pause(s)
               \/ \E c \in Clerk : WriteResume(c) \/ WriteStop(c)
  PROVE  IInv'
  <1>1. ASSUME NEW s \in DOMAIN sessions, Pause(s) PROVE IInv'
    <2>1. Underway(s) /\ Answers
      BY <1>1 DEF Pause, Underway, Answers
    <2> QED BY <1>1, <2>1, SessionSet DEF Pause
  <1>2. ASSUME NEW c \in Clerk, WriteResume(c) PROVE IInv'
    <2> DEFINE s == request[c].session
    <2>1. Answers /\ s \in DOMAIN sessions
      BY <1>2, ReadSound DEF WriteResume, RequestSound
    <2>2. Underway(s)
      BY <1>2 DEF WriteResume, Underway
    <2>3. sessions' = [sessions EXCEPT ![s].status = "running"] /\ job' = job
          /\ UNCHANGED <<order, money, parts>>
      BY <1>2 DEF WriteResume
    <2> HIDE DEF s
    <2> QED BY <2>1, <2>2, <2>3, SessionSet
  <1>3. ASSUME NEW c \in Clerk, WriteStop(c) PROVE IInv'
    <2> DEFINE s == request[c].session
    <2>1. Answers /\ s \in DOMAIN sessions
      BY <1>3, ReadSound DEF WriteStop, RequestSound
    <2>2. /\ sessions' = [sessions EXCEPT ![s].status = "completed"]
          /\ job' = [job EXCEPT ![sessions[s].job].status = "in_progress"]
          /\ UNCHANGED <<order, money, parts>>
      BY <1>3 DEF WriteStop
    <2> HIDE DEF s
    <2> QED BY <2>1, <2>2, SessionSet, ZenonT(60)
  <1> QED BY <1>1, <1>2, <1>3

-----------------------------------------------------------------------------
(* What a clerk reads.                                                     *)

LEMMA ReadStep1 ==
  ASSUME IInv, NEW c \in Clerk, NEW late, Reads(c, late), RequestSound(late)
  PROVE  IInv'
  <1>1. UNCHANGED <<order, money, work, parts>> /\ request' = [request EXCEPT ![c] = late]
    BY DEF Reads
  <1>2. Types'
    BY <1>1 DEF IInv, Types, money, work, parts
  <1>3. Requests'
    BY <1>1, RequestsRead DEF IInv, work
  <1>4. OneActiveSession'
    BY <1>1, SameSessions DEF IInv, work
  <1>5. \A o \in Order : CoverKept(o)
    BY <1>1 DEF CoverKept, money, parts
  <1>6. \A o \in Order : order'[o].status \in Stopped => HoldsLess(o)
    BY <1>1 DEF HoldsLess, work, parts
  <1>7. ConfirmedAllocates'
    BY <1>5, ConfirmedFrame DEF IInv
  <1>8. StoppedHoldsNothing'
    BY <1>1, <1>6, StoppedFrame DEF IInv, work
  <1> QED BY <1>2, <1>3, <1>4, <1>7, <1>8 DEF IInv

LEMMA ReadStatusStep ==
  ASSUME IInv, NEW c \in Clerk, NEW o \in Order, NEW next, ReadStatus(c, o, next)
  PROVE  IInv'
  <1> DEFINE late == [op |-> "status", order |-> o, from |-> order[o].status, next |-> next]
  <1>1. Reads(c, late)
    BY DEF ReadStatus
  <1>2. RequestSound(late)
    BY DEF ReadStatus, RequestSound
  <1> HIDE DEF late
  <1> QED BY <1>1, <1>2, ReadStep1

LEMMA ReadWarrantyStep ==
  ASSUME IInv, NEW c \in Clerk, NEW o \in Order,
         NEW op \in {"warranty", "decision", "shares", "confirmation"}, ReadWarranty(c, o, op)
  PROVE  IInv'
  <1> DEFINE late == [op |-> op, order |-> o, version |-> warranty[o].version]
  <1>1. Reads(c, late)
    BY DEF ReadWarranty
  <1>2. RequestSound(late)
    BY DEF RequestSound
  <1> HIDE DEF late
  <1> QED BY <1>1, <1>2, ReadStep1

LEMMA ReadOrderStep ==
  ASSUME IInv, NEW c \in Clerk, NEW o \in Order, ReadInspection(c, o) \/ ReadDiagnostic(c, o)
  PROVE  IInv'
  <1>1. PICK op \in {"inspection", "diagnostic"} : Reads(c, [op |-> op, order |-> o])
    BY DEF ReadInspection, ReadDiagnostic
  <1> DEFINE late == [op |-> op, order |-> o]
  <1>2. RequestSound(late)
    BY DEF RequestSound
  <1> HIDE DEF late
  <1> QED BY <1>1, <1>2, ReadStep1 DEF late

LEMMA ReadReservationStep ==
  ASSUME IInv, NEW c \in Clerk, NEW l \in Free, ReadReservation(c, l)
  PROVE  IInv'
  <1> DEFINE late == [op |-> "reservation", line |-> l]
  <1>1. Reads(c, late)
    BY DEF ReadReservation
  <1>2. RequestSound(late)
    BY DEF RequestSound
  <1> HIDE DEF late
  <1> QED BY <1>1, <1>2, ReadStep1

LEMMA ReadEditStep ==
  ASSUME IInv, NEW c \in Clerk, NEW l \in Line, NEW q \in 0..item[l].quantity + 1, ReadEdit(c, l, q)
  PROVE  IInv'
  <1> DEFINE late == [op |-> "edit", line |-> l, quantity |-> q]
  <1>1. Reads(c, late)
    BY DEF ReadEdit
  <1>2. q \in Nat
    OBVIOUS
  <1>3. RequestSound(late)
    BY <1>2 DEF RequestSound
  <1> HIDE DEF late
  <1> QED BY <1>1, <1>3, ReadStep1

LEMMA ReadSessionStep ==
  ASSUME IInv, NEW c \in Clerk, NEW s \in DOMAIN sessions, ReadResume(c, s) \/ ReadStop(c, s)
  PROVE  IInv'
  <1>1. PICK op \in {"resume", "stop"} : Reads(c, [op |-> op, session |-> s])
    BY DEF ReadResume, ReadStop
  <1> DEFINE late == [op |-> op, session |-> s]
  <1>2. RequestSound(late)
    BY DEF RequestSound
  <1> HIDE DEF late
  <1> QED BY <1>1, <1>2, ReadStep1 DEF late

\* a request dropped, or nothing at all
LEMMA IdleStep ==
  ASSUME IInv, UNCHANGED vars \/ \E c \in Clerk : Drop(c)
  PROVE  IInv'
  <1>1. UNCHANGED <<order, money, work, parts>> /\ Answers
    BY DEF Drop, Answers, vars
  <1>2. order' \in [Order -> OrderRow]
    BY <1>1 DEF IInv, Types
  <1>3. \A o \in Order : order'[o].status \in Stopped => order[o].status \in Stopped
    BY <1>1
  <1> QED BY <1>1, <1>2, <1>3, OrderOnly

-----------------------------------------------------------------------------
(* The invariant, from the first state on.                                 *)

LEMMA Initially == Init => IInv
  <1> SUFFICES ASSUME Init PROVE IInv
    OBVIOUS
  <1>1. sessions = << >> /\ sessions \in Seq(SessionRow) /\ DOMAIN sessions = {}
    BY DEF Init
  <1>2. Types
    <2>1. order \in [Order -> OrderRow]
      BY DEF Init, OrderRow, Status
    <2>2. warranty \in Warranties({0})
      BY DEF Init, Warranties
    <2>3. job \in [Labor -> JobRow]
      BY DEF Init, JobRow
    <2>4. reservation \in [Part \cup Free -> ReservationRow]
      BY DEF Init, ReservationRow
    <2>5. item \in [Line -> ItemRow]
      BY DEF Init, ItemRow
    <2> QED BY <1>1, <2>1, <2>2, <2>3, <2>4, <2>5 DEF Types
  <1>3. Requests
    BY DEF Init, Requests
  <1>4. OneActiveSession
    BY <1>1 DEF OneActiveSession
  <1>5. ConfirmedAllocates
    BY DEF Init, ConfirmedAllocates
  <1>6. StoppedHoldsNothing
    BY DEF Init, StoppedHoldsNothing
  <1> QED BY <1>2, <1>3, <1>4, <1>5, <1>6 DEF IInv

\* IInv holds of every reachable state.
THEOREM Invariance == Spec => []IInv
  <1>1. ASSUME IInv, Next PROVE IInv'
    <2>1. CASE OrderStep
      <3>1. PICK o \in Order : \/ \E yes \in BOOLEAN : Create(o, yes) \/ Approve(o, yes) \/ Control(o, yes)
                               \/ Abandon(o) \/ Finalize(o) \/ Invoice(o) \/ ManualInvoice(o) \/ Handover(o)
        BY <2>1 DEF OrderStep
      <3>2. CASE \E yes \in BOOLEAN : Create(o, yes)
        BY <1>1, <3>2, CreateStep
      <3>3. CASE \E yes \in BOOLEAN : Approve(o, yes)
        BY <1>1, <3>3, ApproveStep, GivingUpSteps
      <3>4. CASE (\E yes \in BOOLEAN : Control(o, yes)) \/ Abandon(o) \/ Handover(o)
        BY <1>1, <3>4, OrderSteps
      <3>5. CASE Finalize(o)
        BY <1>1, <3>5, GivingUpSteps
      <3>6. CASE Invoice(o)
        BY <1>1, <3>6, InvoiceKept
      <3>7. CASE ManualInvoice(o)
        BY <1>1, <3>7, InvoicingSteps
      <3> QED BY <3>1, <3>2, <3>3, <3>4, <3>5, <3>6, <3>7
    <2>2. CASE InvoiceStep
      BY <1>1, <2>2, InvoicingSteps DEF InvoiceStep
    <2>3. CASE PartStep
      <3>1. CASE \E l \in Labor \cup Part : AddEstimate(l) \/ RemoveEstimate(l)
        BY <1>1, <3>1, EstimateSteps
      <3>2. CASE (\E l \in Part : Reserve(l)) \/ \E l \in Part \cup Free : Release(l)
        BY <1>1, <3>2, ReservationSteps
      <3>3. CASE \/ \E l \in Part \cup Free : \E q \in 1..Quantity[l] : Consume(l, q)
                 \/ \E l \in Extra : PutPart(l)
        BY <1>1, <3>3, ItemSteps
      <3>4. CASE \E current \in 0..MaxStock : ChangeStock(current)
        BY <1>1, <3>4, StockStep
      <3> QED BY <2>3, <3>1, <3>2, <3>3, <3>4 DEF PartStep
    <2>4. CASE WorkStep
      <3>1. CASE \E l \in Labor : PutLabor(l)
        BY <1>1, <3>1, ItemSteps
      <3>2. ASSUME NEW l \in Labor,
                   \/ \E t \in Technician \cup {None} : PlanJob(l, t)
                   \/ \E t \in Technician : Assign(l, t)
                   \/ \E next \in {"assigned", "completed", "cancelled"} : StepJob(l, next)
            PROVE  IInv'
        BY <1>1, <3>2, JobStep
      <3>3. CASE \E l \in Labor : \E t \in Technician, b \in Bay \cup {None} : Start(l, t, b)
        BY <1>1, <3>3, StartStep
      <3>4. CASE \E s \in DOMAIN sessions : Pause(s)
        BY <1>1, <3>4, SessionStep
      <3> QED BY <2>4, <3>1, <3>2, <3>3, <3>4 DEF WorkStep
    <2>5. CASE ReadStep
      BY <1>1, <2>5, ReadStatusStep, ReadWarrantyStep, ReadOrderStep, ReadReservationStep,
         ReadEditStep, ReadSessionStep DEF ReadStep
    <2>6. ASSUME NEW c \in Clerk, WriteCancelled(c) PROVE IInv'
      <3>1. request[c].order \in Order
        BY <1>1, <2>6, ReadSound DEF WriteCancelled, RequestSound
      <3> QED BY <1>1, <2>6, <3>1, GivingUpSteps
    <2>7. CASE WriteStep
      <3>1. PICK c \in Clerk :
               \/ WriteStatus(c) \/ WriteCancelled(c) \/ WriteInspection(c) \/ WriteDiagnostic(c)
               \/ WriteWarranty(c) \/ \E yes \in BOOLEAN : WriteDecision(c, yes)
               \/ \E covered \in SUBSET Line : WriteShares(c, covered)
               \/ WriteConfirmation(c) \/ WriteReservation(c) \/ WriteEdit(c)
               \/ WriteResume(c) \/ WriteStop(c) \/ Drop(c)
        BY <2>7 DEF WriteStep
      <3>2. CASE WriteStatus(c) \/ WriteInspection(c) \/ WriteDiagnostic(c)
        BY <1>1, <3>2, OrderWrites
      <3>3. CASE WriteCancelled(c)
        BY <2>6, <3>3
      <3>4. CASE WriteWarranty(c)
        BY <1>1, <3>4, WriteWarrantyStep
      <3>5. CASE \E yes \in BOOLEAN : WriteDecision(c, yes)
        BY <1>1, <3>5, WriteDecisionStep
      <3>6. CASE \E covered \in SUBSET Line : WriteShares(c, covered)
        BY <1>1, <3>6, WriteSharesStep
      <3>7. CASE WriteConfirmation(c)
        BY <1>1, <3>7, WriteConfirmationStep
      <3>8. CASE WriteReservation(c)
        BY <1>1, <3>8, ReservationSteps
      <3>9. CASE WriteEdit(c)
        BY <1>1, <3>9, ItemSteps
      <3>10. CASE WriteResume(c) \/ WriteStop(c)
        BY <1>1, <3>10, SessionStep
      <3>11. CASE Drop(c)
        BY <1>1, <3>11, IdleStep
      <3> QED BY <3>1, <3>2, <3>3, <3>4, <3>5, <3>6, <3>7, <3>8, <3>9, <3>10, <3>11
    <2> QED BY <1>1, <2>1, <2>2, <2>3, <2>4, <2>5, <2>7 DEF Next
  <1>2. ASSUME IInv, UNCHANGED vars PROVE IInv'
    BY <1>2, IdleStep
  <1> QED BY <1>1, <1>2, Initially, PTL DEF Spec

\* However many technicians start, pause, resume and stop, each of them and each
\* bay is in one session at a time.
THEOREM OneSession == Spec => []OneActiveSession
  <1>1. IInv => OneActiveSession
    BY DEF IInv
  <1> QED BY <1>1, Invariance, PTL

\* A warranty that was confirmed keeps a share for every active line, whatever
\* is edited, consumed or put on the order meanwhile.
THEOREM ConfirmationHolds == Spec => []ConfirmedAllocates
  <1>1. IInv => ConfirmedAllocates
    BY DEF IInv
  <1> QED BY <1>1, Invariance, PTL

\* An order that was given up holds no part and no open intervention, and nobody
\* worked on it.
THEOREM GivenUpClean == Spec => []StoppedHoldsNothing
  <1>1. IInv => StoppedHoldsNothing
    BY DEF IInv
  <1> QED BY <1>1, Invariance, PTL

-----------------------------------------------------------------------------
(* The parts. A finite number of lines was ever touched, so that what the  *)
(* reservations hold and what the lines took can be added up; rows stands  *)
(* for the reservations or the lines, before a step or after it.           *)

LiveIn(rows) == {l \in Part \cup Free : rows[l].status = "reserved"}
HeldBy(rows) == [l \in Part \cup Free |->
                    IF rows[l].status = "reserved" THEN Quantity[l] - rows[l].consumed ELSE 0]
KeptIn(rows) ==
    SumFunctionOnSet([l \in LiveIn(rows) |-> Quantity[l] - rows[l].consumed], LiveIn(rows))
Booked(rows) == {l \in Part \cup Free : rows[l].status # "none"}

FittedIn(rows) == {l \in Line \ Labor : rows[l].status = "active"}
TakenBy(rows) == [l \in Line \ Labor |-> IF rows[l].status = "active" THEN rows[l].quantity ELSE 0]
BilledIn(rows) == SumFunctionOnSet([l \in FittedIn(rows) |-> rows[l].quantity], FittedIn(rows))
Handled(rows) == {l \in Line : rows[l].status # "none"}

\* nothing is consumed beyond what was reserved, nor of what was not
WellBooked(rows) ==
    /\ rows \in [Part \cup Free -> ReservationRow]
    /\ IsFiniteSet(Booked(rows))
    /\ \A l \in Part \cup Free : /\ rows[l].consumed <= Quantity[l]
                                 /\ rows[l].status = "none" => rows[l].consumed = 0
WellHandled(rows) ==
    /\ rows \in [Line -> ItemRow]
    /\ IsFiniteSet(Handled(rows))
    /\ \A l \in Line : rows[l].status = "none" => rows[l].quantity = 0

Tallied ==
    /\ WellBooked(reservation) /\ WellHandled(item)
    /\ stock \in [current : Nat, reserved : Nat, supplied : Int]
    /\ stock.reserved = KeptIn(reservation)
    /\ stock.reserved <= stock.current
    /\ stock.current + BilledIn(item) <= stock.supplied

LEMMA TalliedOnce ==
  ASSUME Tallied
  PROVE  PartsOnce
  <1>1. UNION {Reserved(o) : o \in Order} = LiveIn(reservation)
    BY Lines DEF Reserved, LinesOf, LiveIn
  <1>2. UNION {ActiveItems(o) \ Labor : o \in Order} = FittedIn(item)
    BY Lines DEF ActiveItems, LinesOf, FittedIn
  <1> QED BY <1>1, <1>2 DEF Tallied, PartsOnce, Kept, KeptIn, Remaining, Billed, BilledIn

LEMMA HeldNat ==
  ASSUME NEW rows, WellBooked(rows), NEW l \in Part \cup Free
  PROVE  HeldBy(rows)[l] \in Nat
  <1>1. rows[l] \in ReservationRow /\ Quantity[l] \in Nat /\ rows[l].consumed <= Quantity[l]
    BY Lines DEF WellBooked
  <1> QED BY <1>1 DEF HeldBy, ReservationRow

LEMMA KeptSum ==
  ASSUME NEW rows, WellBooked(rows), NEW S, IsFiniteSet(S), S \subseteq Part \cup Free,
         LiveIn(rows) \subseteq S
  PROVE  KeptIn(rows) = SumFunctionOnSet(HeldBy(rows), S) /\ KeptIn(rows) \in Nat
  <1>1. IsFiniteSet(LiveIn(rows))
    BY FS_Subset
  <1>2. KeptIn(rows) = SumFunctionOnSet(HeldBy(rows), LiveIn(rows))
    BY <1>1, SumSame DEF KeptIn, HeldBy, LiveIn
  <1>3. /\ \A l \in LiveIn(rows) : HeldBy(rows)[l] \in Nat
        /\ \A l \in S \ LiveIn(rows) : HeldBy(rows)[l] = 0
    BY HeldNat DEF HeldBy, LiveIn
  <1>4. SumFunctionOnSet(HeldBy(rows), S) = SumFunctionOnSet(HeldBy(rows), LiveIn(rows))
    BY <1>3, SumSupport
  <1>5. SumFunctionOnSet(HeldBy(rows), LiveIn(rows)) \in Nat
    BY <1>1, <1>3, SumNat
  <1> QED BY <1>2, <1>4, <1>5

\* one reservation changes
LEMMA KeptSet ==
  ASSUME NEW rows, WellBooked(rows), NEW l \in Part \cup Free, NEW r \in ReservationRow,
         r.consumed <= Quantity[l], r.status # "none",
         NEW next, next = [rows EXCEPT ![l] = r]
  PROVE  /\ WellBooked(next)
         /\ KeptIn(next) \in Nat /\ KeptIn(rows) \in Nat
         /\ HeldBy(next)[l] \in Nat /\ HeldBy(rows)[l] \in Nat
         /\ HeldBy(rows)[l] <= KeptIn(rows)
         /\ KeptIn(next) = KeptIn(rows) + (HeldBy(next)[l] - HeldBy(rows)[l])
  <1> DEFINE S == Booked(rows) \cup {l}
  <1>1. IsFiniteSet(S) /\ S \subseteq Part \cup Free /\ l \in S
    BY FS_AddElement DEF WellBooked, Booked
  <1>2. /\ next \in [Part \cup Free -> ReservationRow] /\ next[l] = r
        /\ \A k \in (Part \cup Free) \ {l} : next[k] = rows[k]
    BY DEF WellBooked
  <1>3. Booked(next) \subseteq S
    BY <1>2 DEF Booked
  <1>4. WellBooked(next)
    BY <1>1, <1>2, <1>3, FS_Subset DEF WellBooked
  <1>5. LiveIn(rows) \subseteq S /\ LiveIn(next) \subseteq S
    BY <1>3 DEF LiveIn, Booked
  <1> DEFINE f == HeldBy(rows)
             g == HeldBy(next)
  <1>6. \A k \in S : f[k] \in Nat /\ g[k] \in Nat
    BY <1>1, <1>4, HeldNat
  <1>7. \A k \in S : k # l => f[k] = g[k]
    BY <1>1, <1>2 DEF HeldBy
  <1>8. /\ KeptIn(rows) = SumFunctionOnSet(f, S) /\ KeptIn(rows) \in Nat
        /\ KeptIn(next) = SumFunctionOnSet(g, S) /\ KeptIn(next) \in Nat
    BY <1>1, <1>4, <1>5, KeptSum
  <1> HIDE DEF f, g, S
  <1>9. SumFunctionOnSet(g, S) = SumFunctionOnSet(f, S) + (g[l] - f[l])
    BY <1>1, <1>6, <1>7, SumUpdate
  <1>10. f[l] <= SumFunctionOnSet(f, S)
    <2>1. SumFunctionOnSet(f, S) = f[l] + SumFunctionOnSet(f, S \ {l})
      BY <1>1, <1>6, SumSplit
    <2>2. SumFunctionOnSet(f, S \ {l}) \in Nat
      BY <1>1, <1>6, FS_Subset, SumNat
    <2> QED BY <1>1, <1>6, <2>1, <2>2
  <1> QED BY <1>1, <1>4, <1>6, <1>8, <1>9, <1>10 DEF f, g

\* some of them are released
LEMMA KeptLess ==
  ASSUME NEW rows, WellBooked(rows), NEW R \in SUBSET LiveIn(rows), NEW next,
         next = [l \in Part \cup Free |-> IF l \in R THEN [rows[l] EXCEPT !.status = "released"]
                                          ELSE rows[l]]
  PROVE  /\ WellBooked(next) /\ KeptIn(next) \in Nat
         /\ KeptIn(rows) = KeptIn(next)
                + SumFunctionOnSet([l \in R |-> Quantity[l] - rows[l].consumed], R)
         /\ SumFunctionOnSet([l \in R |-> Quantity[l] - rows[l].consumed], R) \in Nat
  <1>1. \A l \in Part \cup Free : /\ rows[l] \in ReservationRow
                                  /\ [rows[l] EXCEPT !.status = "released"] \in ReservationRow
                                  /\ [rows[l] EXCEPT !.status = "released"].status = "released"
                                  /\ [rows[l] EXCEPT !.status = "released"].consumed = rows[l].consumed
    BY DEF WellBooked, ReservationRow
  <1>2. Booked(next) = Booked(rows)
    BY <1>1 DEF Booked, LiveIn
  <1>3. WellBooked(next)
    BY <1>1, <1>2 DEF WellBooked
  <1>4. LiveIn(next) = LiveIn(rows) \ R
    BY <1>1 DEF LiveIn
  <1>5. IsFiniteSet(LiveIn(rows)) /\ IsFiniteSet(LiveIn(next)) /\ IsFiniteSet(R)
    <2>1. LiveIn(rows) \subseteq Booked(rows)
      BY DEF LiveIn, Booked
    <2> QED BY <1>4, <2>1, FS_Subset DEF WellBooked
  <1>6. KeptIn(next) \in Nat
    BY <1>3, <1>5, KeptSum DEF LiveIn
  <1> DEFINE f == HeldBy(rows)
             g == [l \in R |-> Quantity[l] - rows[l].consumed]
  <1>7. \A l \in LiveIn(rows) : f[l] \in Nat
    BY HeldNat DEF LiveIn
  <1>8. KeptIn(rows) = SumFunctionOnSet(f, LiveIn(rows))
    BY <1>5, KeptSum DEF LiveIn
  <1>9. KeptIn(next) = SumFunctionOnSet(f, LiveIn(next))
    <2>1. KeptIn(next) = SumFunctionOnSet(HeldBy(next), LiveIn(next))
      BY <1>3, <1>5, KeptSum DEF LiveIn
    <2>2. \A l \in LiveIn(next) : HeldBy(next)[l] = f[l]
      BY <1>1, <1>4 DEF HeldBy, LiveIn
    <2> HIDE DEF f
    <2> QED BY <1>5, <2>1, <2>2, SumSame
  <1>10. SumFunctionOnSet(g, R) = SumFunctionOnSet(f, R)
    <2>1. \A l \in R : g[l] = f[l]
      BY DEF HeldBy, LiveIn
    <2> HIDE DEF f, g
    <2> QED BY <1>5, <2>1, SumSame
  <1> HIDE DEF f, g
  <1>11. SumFunctionOnSet(f, R) \in Nat
    BY <1>5, <1>7, SumNat
  <1>12. SumFunctionOnSet(f, LiveIn(rows)) = SumFunctionOnSet(f, LiveIn(next)) + SumFunctionOnSet(f, R)
    <2> DEFINE A == LiveIn(next)
               B == LiveIn(rows)
    <2>1. A \cup R = B /\ A \cap R = {} /\ IsFiniteSet(A) /\ IsFiniteSet(R)
      BY <1>4, <1>5
    <2>2. \A l \in B : f[l] \in Int
      BY <1>7
    <2> HIDE DEF A, B
    <2>3. \A l \in A \cup R : f[l] \in Int
      BY <2>1, <2>2
    <2>4. SumFunctionOnSet(f, A \cup R) = SumFunctionOnSet(f, A) + SumFunctionOnSet(f, R)
      BY <2>1, <2>3, SumDisjoint
    <2> QED BY <2>1, <2>4 DEF A, B
  <1> QED BY <1>3, <1>6, <1>8, <1>9, <1>10, <1>11, <1>12 DEF g

LEMMA TakenNat ==
  ASSUME NEW rows, WellHandled(rows), NEW l \in Line \ Labor
  PROVE  TakenBy(rows)[l] \in Nat
  BY DEF TakenBy, WellHandled, ItemRow

LEMMA BilledSum ==
  ASSUME NEW rows, WellHandled(rows), NEW S, IsFiniteSet(S), S \subseteq Line \ Labor,
         FittedIn(rows) \subseteq S
  PROVE  BilledIn(rows) = SumFunctionOnSet(TakenBy(rows), S) /\ BilledIn(rows) \in Nat
  <1>1. IsFiniteSet(FittedIn(rows))
    BY FS_Subset
  <1>2. BilledIn(rows) = SumFunctionOnSet(TakenBy(rows), FittedIn(rows))
    BY <1>1, SumSame DEF BilledIn, TakenBy, FittedIn
  <1>3. /\ \A l \in FittedIn(rows) : TakenBy(rows)[l] \in Nat
        /\ \A l \in S \ FittedIn(rows) : TakenBy(rows)[l] = 0
    BY TakenNat DEF TakenBy, FittedIn
  <1>4. SumFunctionOnSet(TakenBy(rows), S) = SumFunctionOnSet(TakenBy(rows), FittedIn(rows))
    BY <1>3, SumSupport
  <1>5. SumFunctionOnSet(TakenBy(rows), FittedIn(rows)) \in Nat
    BY <1>1, <1>3, SumNat
  <1> QED BY <1>2, <1>4, <1>5

\* one line changes, which counts only if it is one of parts
LEMMA BilledSet ==
  ASSUME NEW rows, WellHandled(rows), NEW l \in Line, NEW r \in ItemRow, r.status # "none",
         NEW next, next = [rows EXCEPT ![l] = r]
  PROVE  /\ WellHandled(next) /\ BilledIn(next) \in Nat /\ BilledIn(rows) \in Nat
         /\ l \in Labor => BilledIn(next) = BilledIn(rows)
         /\ l \notin Labor => /\ TakenBy(next)[l] \in Nat /\ TakenBy(rows)[l] \in Nat
                              /\ BilledIn(next) = BilledIn(rows) + (TakenBy(next)[l] - TakenBy(rows)[l])
  <1> DEFINE T == Handled(rows) \cup {l}
             S == T \ Labor
  <1>1. IsFiniteSet(T) /\ IsFiniteSet(S) /\ S \subseteq Line \ Labor /\ l \in T /\ (l \notin Labor => l \in S)
    BY FS_AddElement, FS_Subset DEF WellHandled, Handled
  <1>2. /\ next \in [Line -> ItemRow] /\ next[l] = r
        /\ \A k \in Line \ {l} : next[k] = rows[k]
    BY DEF WellHandled
  <1>3. Handled(next) \subseteq T
    BY <1>2 DEF Handled
  <1>4. WellHandled(next)
    BY <1>1, <1>2, <1>3, FS_Subset DEF WellHandled
  <1>5. FittedIn(rows) \subseteq S /\ FittedIn(next) \subseteq S
    BY <1>3 DEF FittedIn, Handled
  <1> DEFINE f == TakenBy(rows)
             g == TakenBy(next)
  <1>6. \A k \in S : f[k] \in Nat /\ g[k] \in Nat
    BY <1>1, <1>4, TakenNat
  <1>7. \A k \in S : k # l => f[k] = g[k]
    BY <1>1, <1>2 DEF TakenBy
  <1>8. /\ BilledIn(rows) = SumFunctionOnSet(f, S) /\ BilledIn(rows) \in Nat
        /\ BilledIn(next) = SumFunctionOnSet(g, S) /\ BilledIn(next) \in Nat
    BY <1>1, <1>4, <1>5, BilledSum
  <1> HIDE DEF f, g, T
  <1>9. CASE l \in Labor
    <2>1. \A k \in S : f[k] = g[k]
      BY <1>7, <1>9
    <2> HIDE DEF S
    <2>2. SumFunctionOnSet(f, S) = SumFunctionOnSet(g, S)
      BY <1>1, <2>1, SumSame
    <2> QED BY <1>4, <1>8, <1>9, <2>2
  <1>10. CASE l \notin Labor
    <2> HIDE DEF S
    <2>1. SumFunctionOnSet(g, S) = SumFunctionOnSet(f, S) + (g[l] - f[l])
      BY <1>1, <1>6, <1>7, <1>10, SumUpdate
    <2> QED BY <1>1, <1>4, <1>6, <1>8, <1>10, <2>1 DEF f, g
  <1> QED BY <1>9, <1>10

LEMMA StockRow ==
  ASSUME Tallied
  PROVE  /\ stock.current \in Nat /\ stock.reserved \in Nat /\ stock.supplied \in Int
         /\ stock.reserved <= stock.current
  BY DEF Tallied

LEMMA ReservingTallied ==
  ASSUME Tallied, NEW l \in Part \cup Free, Reserving(l), item' = item
  PROVE  Tallied'
  <1> DEFINE r == [reservation[l] EXCEPT !.status = "reserved"]
  <1>1. reservation[l] \in ReservationRow /\ reservation[l].consumed = 0 /\ Quantity[l] \in Nat
    BY Lines DEF Tallied, WellBooked, Reserving
  <1>2. r \in ReservationRow /\ r.status = "reserved" /\ r.consumed = 0
    BY <1>1 DEF ReservationRow
  <1>3. /\ reservation' = [reservation EXCEPT ![l] = r]
        /\ reservation[l].status = "none" /\ stock.current - stock.reserved >= Quantity[l]
        /\ stock' = [stock EXCEPT !.reserved = @ + Quantity[l]]
    BY DEF Reserving, Available
  <1> HIDE DEF r
  <1>4. /\ WellBooked(reservation') /\ KeptIn(reservation') \in Nat
        /\ KeptIn(reservation') = KeptIn(reservation) + (HeldBy(reservation')[l] - HeldBy(reservation)[l])
    <2>1. WellBooked(reservation) /\ r.consumed <= Quantity[l] /\ r.status # "none"
      BY <1>1, <1>2 DEF Tallied
    <2> QED BY <1>2, <1>3, <2>1, KeptSet
  <1>5. HeldBy(reservation')[l] = Quantity[l] /\ HeldBy(reservation)[l] = 0
    BY <1>1, <1>2, <1>3 DEF HeldBy, Tallied, WellBooked
  <1>6. /\ stock' \in [current : Nat, reserved : Nat, supplied : Int]
        /\ stock'.current = stock.current /\ stock'.supplied = stock.supplied
        /\ stock'.reserved = stock.reserved + Quantity[l]
    BY <1>1, <1>3, StockRow DEF Tallied
  <1> QED BY <1>1, <1>3, <1>4, <1>5, <1>6, StockRow DEF Tallied

LEMMA ReleaseTallied ==
  ASSUME Tallied, NEW l \in Part \cup Free, Release(l)
  PROVE  Tallied'
  <1> DEFINE r == [reservation[l] EXCEPT !.status = "released"]
  <1>1. reservation[l] \in ReservationRow /\ reservation[l].consumed <= Quantity[l]
        /\ Quantity[l] \in Nat
    BY Lines DEF Tallied, WellBooked
  <1>2. r \in ReservationRow /\ r.status = "released" /\ r.consumed = reservation[l].consumed
    BY <1>1 DEF ReservationRow
  <1>3. /\ reservation' = [reservation EXCEPT ![l] = r] /\ item' = item
        /\ reservation[l].status = "reserved"
        /\ stock' = [stock EXCEPT !.reserved = @ - (Quantity[l] - reservation[l].consumed)]
    BY DEF Release, Remaining
  <1> HIDE DEF r
  <1>4. /\ WellBooked(reservation') /\ KeptIn(reservation') \in Nat
        /\ KeptIn(reservation') = KeptIn(reservation) + (HeldBy(reservation')[l] - HeldBy(reservation)[l])
    BY <1>1, <1>2, <1>3, KeptSet DEF Tallied
  <1> DEFINE left == Quantity[l] - reservation[l].consumed
  <1>5. HeldBy(reservation')[l] = 0 /\ HeldBy(reservation)[l] = left
    BY <1>1, <1>2, <1>3 DEF HeldBy, Tallied, WellBooked
  <1>6. left \in Nat
    BY <1>1 DEF ReservationRow
  <1>7. /\ stock' = [stock EXCEPT !.reserved = stock.reserved - left]
        /\ stock \in [current : Nat, reserved : Nat, supplied : Int]
    BY <1>3 DEF Tallied
  <1> HIDE DEF left
  <1>8. KeptIn(reservation') = stock.reserved - left
    BY <1>4, <1>5, <1>6, <1>7 DEF Tallied
  <1>9. /\ stock' \in [current : Nat, reserved : Nat, supplied : Int]
        /\ stock'.current = stock.current /\ stock'.supplied = stock.supplied
        /\ stock'.reserved = stock.reserved - left
    BY <1>4, <1>7, <1>8
  <1> QED BY <1>3, <1>4, <1>6, <1>8, <1>9, StockRow DEF Tallied

LEMMA CleanupTallied ==
  ASSUME Tallied, NEW o \in Order, Cleanup(o), item' = item
  PROVE  Tallied'
  <1> DEFINE R == Reserved(o)
             left == SumFunctionOnSet([l \in R |-> Quantity[l] - reservation[l].consumed], R)
  <1>1. R \in SUBSET LiveIn(reservation)
    BY DEF Reserved, LiveIn
  <1>2. reservation' = [l \in Part \cup Free |-> IF l \in R THEN [reservation[l] EXCEPT !.status = "released"]
                                                 ELSE reservation[l]]
    BY DEF Cleanup
  <1>3. stock' = [stock EXCEPT !.reserved = @ - left]
    BY DEF Cleanup, Kept, Remaining
  <1> HIDE DEF R
  <1>4. /\ WellBooked(reservation') /\ KeptIn(reservation') \in Nat
        /\ KeptIn(reservation) = KeptIn(reservation') + left /\ left \in Nat
    BY <1>1, <1>2, KeptLess DEF Tallied
  <1>5. /\ stock' = [stock EXCEPT !.reserved = stock.reserved - left]
        /\ stock \in [current : Nat, reserved : Nat, supplied : Int]
    BY <1>3 DEF Tallied
  <1> HIDE DEF left
  <1>6. KeptIn(reservation') = stock.reserved - left
    BY <1>4, <1>5 DEF Tallied
  <1>7. /\ stock' \in [current : Nat, reserved : Nat, supplied : Int]
        /\ stock'.current = stock.current /\ stock'.supplied = stock.supplied
        /\ stock'.reserved = stock.reserved - left
    BY <1>4, <1>5, <1>6
  <1> QED BY <1>4, <1>6, <1>7, StockRow DEF Tallied

LEMMA ConsumeTallied ==
  ASSUME Tallied, NEW l \in Part \cup Free, NEW q \in 1..Quantity[l], Consume(l, q)
  PROVE  Tallied'
  <1> DEFINE consumed == reservation[l].consumed + q
             state == IF consumed = Quantity[l] THEN "consumed" ELSE "reserved"
             r == [status |-> state, consumed |-> consumed]
             kept == IF item[l].status = "none" THEN "active" ELSE item[l].status
             i == [status |-> kept, quantity |-> item[l].quantity + q]
  <1>1. /\ reservation[l] \in ReservationRow /\ reservation[l].consumed <= Quantity[l]
        /\ Quantity[l] \in Nat /\ q \in Nat /\ l \in Line /\ l \notin Labor
        /\ item[l] \in ItemRow /\ (item[l].status = "none" => item[l].quantity = 0)
    BY Lines, WorkshopAssumption DEF Tallied, WellBooked, WellHandled
  <1>2. /\ reservation[l].status = "reserved" /\ q <= Quantity[l] - reservation[l].consumed
        /\ reservation' = [reservation EXCEPT ![l] = r] /\ item' = [item EXCEPT ![l] = i]
        /\ stock' = [stock EXCEPT !.reserved = @ - q, !.current = @ - q]
    BY DEF Consume, Remaining
  <1>3. /\ r \in ReservationRow /\ r.consumed <= Quantity[l] /\ r.status # "none"
        /\ r.consumed = reservation[l].consumed + q
        /\ r.status # "reserved" => r.consumed = Quantity[l]
    BY <1>1, <1>2 DEF ReservationRow
  <1>4. /\ i \in ItemRow /\ i.status # "none" /\ i.quantity = item[l].quantity + q
        /\ i.status = IF item[l].status = "none" THEN "active" ELSE item[l].status
    BY <1>1 DEF ItemRow
  <1> HIDE DEF r, i
  <1>5. /\ WellBooked(reservation') /\ KeptIn(reservation') \in Nat /\ KeptIn(reservation) \in Nat
        /\ KeptIn(reservation') = KeptIn(reservation) + (HeldBy(reservation')[l] - HeldBy(reservation)[l])
    <2>1. WellBooked(reservation) /\ reservation' = [reservation EXCEPT ![l] = r]
      BY <1>2 DEF Tallied
    <2>2. r \in ReservationRow /\ r.consumed <= Quantity[l] /\ r.status # "none"
      BY <1>3
    <2> QED BY <2>1, <2>2, KeptSet
  <1>6. HeldBy(reservation)[l] = Quantity[l] - reservation[l].consumed
    BY <1>2 DEF HeldBy
  <1>7. HeldBy(reservation')[l] = Quantity[l] - (reservation[l].consumed + q)
    <2>1. reservation'[l] = r
      BY <1>2 DEF Tallied, WellBooked
    <2> QED BY <1>1, <1>3, <2>1 DEF HeldBy
  <1>8. KeptIn(reservation') = stock.reserved - q
    BY <1>1, <1>5, <1>6, <1>7 DEF Tallied, ReservationRow
  <1>9. /\ WellHandled(item') /\ BilledIn(item') \in Nat /\ BilledIn(item) \in Nat
        /\ TakenBy(item')[l] \in Nat /\ TakenBy(item)[l] \in Nat
        /\ BilledIn(item') = BilledIn(item) + (TakenBy(item')[l] - TakenBy(item)[l])
    <2>1. WellHandled(item) /\ item' = [item EXCEPT ![l] = i]
      BY <1>2 DEF Tallied
    <2>2. l \in Line /\ l \notin Labor /\ i \in ItemRow /\ i.status # "none"
      BY <1>1, <1>4
    <2> QED BY <2>1, <2>2, BilledSet
  <1>10. TakenBy(item')[l] - TakenBy(item)[l] <= q
    <2>1. item'[l] = i
      BY <1>1, <1>2 DEF Tallied, WellHandled
    <2>2. /\ TakenBy(item')[l] = IF i.status = "active" THEN i.quantity ELSE 0
          /\ TakenBy(item)[l] = IF item[l].status = "active" THEN item[l].quantity ELSE 0
      BY <1>1, <2>1 DEF TakenBy
    <2> QED BY <1>1, <1>4, <2>2 DEF ItemRow
  <1>11. stock.current - q \in Nat /\ stock.reserved - q \in Nat
    BY <1>1, <1>5, <1>8, StockRow
  <1>12. /\ stock' = [stock EXCEPT !.reserved = stock.reserved - q, !.current = stock.current - q]
         /\ stock \in [current : Nat, reserved : Nat, supplied : Int]
    BY <1>2 DEF Tallied
  <1>13. /\ stock' \in [current : Nat, reserved : Nat, supplied : Int]
         /\ stock'.current = stock.current - q /\ stock'.supplied = stock.supplied
         /\ stock'.reserved = stock.reserved - q
    BY <1>11, <1>12
  <1>14. stock'.current + BilledIn(item') <= stock'.supplied
    <2>1. stock.current + BilledIn(item) <= stock.supplied
      BY DEF Tallied
    <2> QED BY <1>1, <1>9, <1>10, <1>13, <2>1, StockRow
  <1> QED BY <1>1, <1>5, <1>8, <1>9, <1>13, <1>14, StockRow DEF Tallied

\* a line is put on an order or edited, the stock gives or takes the difference
LEMMA ItemTallied ==
  ASSUME Tallied, NEW l \in Line, NEW i \in ItemRow, i.status # "none",
         item' = [item EXCEPT ![l] = i], reservation' = reservation,
         NEW delta \in Int, l \notin Labor => TakenBy(item')[l] - TakenBy(item)[l] = delta,
         l \notin Labor => stock.current - stock.reserved >= delta,
         stock' = IF l \in Labor THEN stock ELSE [stock EXCEPT !.current = @ - delta]
  PROVE  Tallied'
  <1>1. /\ WellHandled(item') /\ BilledIn(item') \in Nat /\ BilledIn(item) \in Nat
        /\ l \in Labor => BilledIn(item') = BilledIn(item)
        /\ l \notin Labor => /\ TakenBy(item')[l] \in Nat /\ TakenBy(item)[l] \in Nat
                             /\ BilledIn(item') = BilledIn(item) + (TakenBy(item')[l] - TakenBy(item)[l])
    BY BilledSet, ZenonT(60) DEF Tallied
  <1>2. CASE l \in Labor
    BY <1>1, <1>2 DEF Tallied
  <1>3. CASE l \notin Labor
    <2>1. stock.current - delta \in Nat /\ stock.current - delta >= stock.reserved
      BY <1>3, StockRow
    <2>2. /\ stock' = [stock EXCEPT !.current = stock.current - delta]
          /\ stock \in [current : Nat, reserved : Nat, supplied : Int]
      BY <1>3 DEF Tallied
    <2>3. /\ stock' \in [current : Nat, reserved : Nat, supplied : Int]
          /\ stock'.current = stock.current - delta /\ stock'.supplied = stock.supplied
          /\ stock'.reserved = stock.reserved
      BY <2>1, <2>2
    <2>4. stock.current + BilledIn(item) <= stock.supplied
      BY DEF Tallied
    <2>5. stock'.current + BilledIn(item') <= stock'.supplied
      BY <1>1, <1>3, <2>3, <2>4, StockRow
    <2> QED BY <1>1, <2>1, <2>3, <2>5 DEF Tallied
  <1> QED BY <1>2, <1>3

LEMMA LineTallied ==
  ASSUME Tallied, \/ \E l \in Labor : PutLabor(l)
                  \/ \E l \in Extra : PutPart(l)
                  \/ \E c \in Clerk : WriteEdit(c) /\ request[c].line \in Line
                                                   /\ request[c].quantity \in Nat
  PROVE  Tallied'
  <1>1. \A l \in Line : /\ item[l] \in ItemRow /\ Quantity[l] \in Nat
                        /\ item[l].status = "none" => item[l].quantity = 0
    BY Lines DEF Tallied, WellHandled
  <1>2. ASSUME NEW l \in Line, NEW i, item' = [item EXCEPT ![l] = i], l \notin Labor
        PROVE  /\ TakenBy(item')[l] = IF i.status = "active" THEN i.quantity ELSE 0
               /\ TakenBy(item)[l] = IF item[l].status = "active" THEN item[l].quantity ELSE 0
    BY <1>2 DEF TakenBy, Tallied, WellHandled
  <1>3. ASSUME NEW l \in Line, PutLabor(l) \/ PutPart(l), l \in Labor <=> PutLabor(l)
        PROVE  Tallied'
    <2> DEFINE i == [status |-> "active", quantity |-> Quantity[l]]
    <2>1. i \in ItemRow /\ i.status = "active" /\ i.quantity = Quantity[l]
      BY <1>1 DEF ItemRow
    <2>2. item' = [item EXCEPT ![l] = i] /\ reservation' = reservation /\ item[l].status = "none"
      BY <1>3 DEF PutLabor, PutPart
    <2>3. /\ l \notin Labor => stock.current - stock.reserved >= Quantity[l]
          /\ stock' = IF l \in Labor THEN stock ELSE [stock EXCEPT !.current = @ - Quantity[l]]
      BY <1>3 DEF PutLabor, PutPart, Available
    <2> HIDE DEF i
    <2>4. l \notin Labor => TakenBy(item')[l] - TakenBy(item)[l] = Quantity[l]
      <3>1. ASSUME l \notin Labor
            PROVE  TakenBy(item')[l] = i.quantity /\ TakenBy(item)[l] = 0
        BY <1>2, <2>1, <2>2, <3>1
      <3> QED BY <1>1, <2>1, <3>1
    <2>5. Quantity[l] \in Int /\ i.status # "none"
      BY <1>1, <2>1
    <2> QED BY <2>1, <2>2, <2>3, <2>4, <2>5, ItemTallied
  <1>4. ASSUME NEW c \in Clerk, WriteEdit(c), request[c].line \in Line, request[c].quantity \in Nat
        PROVE  Tallied'
    <2> DEFINE l == request[c].line
               q == request[c].quantity
               delta == q - item[l].quantity
               i == IF q = 0 THEN [item[l] EXCEPT !.status = "cancelled"]
                    ELSE [item[l] EXCEPT !.quantity = q]
    <2>1. l \in Line /\ q \in Nat /\ item[l] \in ItemRow /\ delta \in Int
      BY <1>1, <1>4 DEF ItemRow
    <2>2. /\ item[l].status = "active" /\ item' = [item EXCEPT ![l] = i] /\ reservation' = reservation
          /\ l \notin Labor /\ delta > 0 => stock.current - stock.reserved >= delta
          /\ stock' = IF l \in Labor THEN stock ELSE [stock EXCEPT !.current = @ - delta]
      BY <1>4 DEF WriteEdit, Available
    <2>3. /\ i \in ItemRow /\ i.status # "none"
          /\ (IF i.status = "active" THEN i.quantity ELSE 0) = q
      BY <2>1, <2>2 DEF ItemRow
    <2> HIDE DEF l, q, i
    <2>4. l \notin Labor => TakenBy(item')[l] - TakenBy(item)[l] = delta
      BY <1>2, <2>1, <2>2, <2>3
    <2> HIDE DEF delta
    <2>5. l \notin Labor => stock.current - stock.reserved >= delta
      BY <2>1, <2>2, StockRow
    <2> QED BY <2>1, <2>2, <2>3, <2>4, <2>5, ItemTallied
  <1>5. ASSUME NEW l \in Labor, PutLabor(l) PROVE Tallied'
    BY <1>3, <1>5, Lines
  <1>6. ASSUME NEW l \in Extra, PutPart(l) PROVE Tallied'
    <2>1. l \in Line /\ l \notin Labor
      BY Lines, WorkshopAssumption
    <2>2. ~ PutLabor(l)
      BY <2>1 DEF PutLabor
    <2> QED BY <1>3, <1>6, <2>1, <2>2
  <1> QED BY <1>4, <1>5, <1>6

LEMMA StockTallied ==
  ASSUME Tallied, NEW current \in 0..MaxStock, ChangeStock(current)
  PROVE  Tallied'
  <1>1. /\ stock' = [stock EXCEPT !.current = current, !.supplied = stock.supplied + current - stock.current]
        /\ stock \in [current : Nat, reserved : Nat, supplied : Int]
        /\ reservation' = reservation /\ item' = item /\ current >= stock.reserved
    BY DEF ChangeStock, Tallied
  <1>2. current \in Nat /\ stock.supplied + current - stock.current \in Int
    BY <1>1, WorkshopAssumption
  <1>3. /\ stock' \in [current : Nat, reserved : Nat, supplied : Int]
        /\ stock'.current = current /\ stock'.supplied = stock.supplied + current - stock.current
        /\ stock'.reserved = stock.reserved
    BY <1>1, <1>2
  <1>4. BilledIn(item) \in Nat
    <2>1. IsFiniteSet(FittedIn(item))
      <3>1. FittedIn(item) \subseteq Handled(item)
        BY DEF FittedIn, Handled
      <3> QED BY <3>1, FS_Subset DEF Tallied, WellHandled
    <2> QED BY <2>1, BilledSum DEF Tallied, FittedIn
  <1>5. stock.current + BilledIn(item) <= stock.supplied
    BY DEF Tallied
  <1>6. stock'.current + BilledIn(item) <= stock'.supplied
    BY <1>2, <1>3, <1>4, <1>5, StockRow
  <1> QED BY <1>1, <1>3, <1>6 DEF Tallied

-----------------------------------------------------------------------------
(* Who writes what, of all the steps.                                      *)

LEMMA WorkWritten ==
  ASSUME WorkStep
  PROVE  \/ \E l \in Labor : PutLabor(l)
         \/ UNCHANGED <<order, money, parts, request>>
  <1>1. CASE \E s \in DOMAIN sessions : Pause(s)
    BY <1>1 DEF Pause
  <1>2. ASSUME NEW l \in Labor, \/ \E t \in Technician \cup {None} : PlanJob(l, t)
                                \/ \E t \in Technician : Assign(l, t)
        PROVE  UNCHANGED <<order, money, parts, request>>
    BY <1>2 DEF PlanJob, Assign
  <1>3. ASSUME NEW l \in Labor, NEW next, StepJob(l, next)
        PROVE  UNCHANGED <<order, money, parts, request>>
    BY <1>3 DEF StepJob
  <1>4. ASSUME NEW l \in Labor, NEW t, NEW b, Start(l, t, b)
        PROVE  UNCHANGED <<order, money, parts, request>>
    BY <1>4 DEF Start, Starting
  <1> QED BY <1>1, <1>2, <1>3, <1>4 DEF WorkStep

\* what a clerk remembers of the shares has the version that stands, and the
\* order is in the works
LEMMA ReadWritten ==
  ASSUME IInv, ReadStep
  PROVE  \E c \in Clerk, late \in Late :
            /\ Reads(c, late)
            /\ late.op \in {"shares", "confirmation"} =>
                  /\ late.version = warranty[late.order].version
                  /\ order[late.order].status = "in_progress"
  <1> DEFINE Sound(c, late) == /\ late \in Late /\ Reads(c, late)
                               /\ late.op \in {"shares", "confirmation"} =>
                                     /\ late.version = warranty[late.order].version
                                     /\ order[late.order].status = "in_progress"
  <1>0. Types
    BY DEF IInv
  <1>1. ASSUME NEW c \in Clerk, NEW o \in Order, NEW next \in Status, ReadStatus(c, o, next)
        PROVE  \E late : Sound(c, late)
    <2> DEFINE late == [op |-> "status", order |-> o, from |-> order[o].status, next |-> next]
    <2>1. order[o].status \in Status
      <3>1. order[o].status \in Status \cup {"none"}
        BY <1>0 DEF Types, OrderRow
      <3>2. <<order[o].status, next>> \in Transitions \/ order[o].status # "none"
        BY <1>1 DEF ReadStatus
      <3>3. <<order[o].status, next>> \in Transitions => order[o].status # "none"
        BY DEF Transitions
      <3> QED BY <3>1, <3>2, <3>3
    <2>2. late \in Late /\ late.op = "status" /\ Reads(c, late)
      BY <1>1, <2>1 DEF Late, ReadStatus
    <2> HIDE DEF late
    <2> QED BY <2>2
  <1>2. ASSUME NEW c \in Clerk, NEW o \in Order,
               NEW op \in {"warranty", "decision", "shares", "confirmation"}, ReadWarranty(c, o, op)
        PROVE  \E late : Sound(c, late)
    <2> DEFINE late == [op |-> op, order |-> o, version |-> warranty[o].version]
    <2>1. warranty[o].version \in Nat
      BY <1>0, WarrantyTyped
    <2>2. op \in {"shares", "confirmation"} => order[o].status = "in_progress"
      BY <1>2 DEF ReadWarranty
    <2>3. late \in Late /\ late.op = op /\ late.order = o /\ late.version = warranty[o].version
      BY <2>1 DEF Late
    <2>4. Reads(c, late)
      BY <1>2 DEF ReadWarranty
    <2> HIDE DEF late
    <2> QED BY <2>2, <2>3, <2>4
  <1>3. ASSUME NEW c \in Clerk, NEW o \in Order, ReadInspection(c, o) \/ ReadDiagnostic(c, o)
        PROVE  \E late : Sound(c, late)
    <2>1. PICK op \in {"inspection", "diagnostic"} : Reads(c, [op |-> op, order |-> o])
      BY <1>3 DEF ReadInspection, ReadDiagnostic
    <2> DEFINE late == [op |-> op, order |-> o]
    <2>2. late \in Late /\ late.op = op
      BY DEF Late
    <2>3. Reads(c, late)
      BY <2>1
    <2> HIDE DEF late
    <2> QED BY <2>2, <2>3
  <1>4. ASSUME NEW c \in Clerk, NEW l \in Free, ReadReservation(c, l)
        PROVE  \E late : Sound(c, late)
    <2> DEFINE late == [op |-> "reservation", line |-> l]
    <2>1. late \in Late /\ late.op = "reservation" /\ Reads(c, late)
      BY <1>4 DEF Late, ReadReservation
    <2> HIDE DEF late
    <2> QED BY <2>1
  <1>5. ASSUME NEW c \in Clerk, NEW l \in Line, NEW q \in Nat, ReadEdit(c, l, q)
        PROVE  \E late : Sound(c, late)
    <2> DEFINE late == [op |-> "edit", line |-> l, quantity |-> q]
    <2>1. late \in Late /\ late.op = "edit" /\ Reads(c, late)
      BY <1>5 DEF Late, ReadEdit
    <2> HIDE DEF late
    <2> QED BY <2>1
  <1>6. ASSUME NEW c \in Clerk, NEW s \in DOMAIN sessions, ReadResume(c, s) \/ ReadStop(c, s)
        PROVE  \E late : Sound(c, late)
    <2>1. PICK op \in {"resume", "stop"} : Reads(c, [op |-> op, session |-> s])
      BY <1>6 DEF ReadResume, ReadStop
    <2> DEFINE late == [op |-> op, session |-> s]
    <2>2. s \in Nat
      BY <1>0, SessionsType
    <2>3. late \in Late /\ late.op = op
      BY <2>2 DEF Late
    <2>4. Reads(c, late)
      BY <2>1
    <2> HIDE DEF late
    <2> QED BY <2>3, <2>4
  <1>7. \A l \in Line : \A q \in 0..item[l].quantity + 1 : q \in Nat
    OBVIOUS
  <1> HIDE DEF Sound
  <1>8. \E c \in Clerk : \E late : Sound(c, late)
    BY <1>1, <1>2, <1>3, <1>4, <1>5, <1>6, <1>7 DEF ReadStep
  <1> QED BY <1>8 DEF Sound

LEMMA PartsWritten ==
  ASSUME IInv, Next
  PROVE  \/ UNCHANGED parts
         \/ \E o \in Order : Cleanup(o) /\ item' = item
         \/ \E l \in Part \cup Free : \/ Reserving(l) /\ item' = item
                                      \/ Release(l)
                                      \/ \E q \in 1..Quantity[l] : Consume(l, q)
         \/ \E l \in Labor : PutLabor(l)
         \/ \E l \in Extra : PutPart(l)
         \/ \E c \in Clerk : WriteEdit(c) /\ request[c].line \in Line /\ request[c].quantity \in Nat
         \/ \E current \in 0..MaxStock : ChangeStock(current)
  <1>1. CASE OrderStep
    <2>1. PICK o \in Order : \/ \E yes \in BOOLEAN : Create(o, yes) \/ Approve(o, yes) \/ Control(o, yes)
                             \/ Abandon(o) \/ Finalize(o) \/ Invoice(o) \/ ManualInvoice(o) \/ Handover(o)
      BY <1>1 DEF OrderStep
    <2>2. UNCHANGED parts \/ (Cleanup(o) /\ item' = item)
      BY <2>1 DEF Create, Approve, Control, Abandon, Finalize, Invoice, ManualInvoice, Invoicing,
                  Handover, parts
    <2> QED BY <2>2
  <1>2. CASE InvoiceStep
    BY <1>2 DEF InvoiceStep, Pay, Void, Invoicing
  <1>3. CASE PartStep
    <2>1. CASE \E l \in Labor \cup Part : AddEstimate(l) \/ RemoveEstimate(l)
      BY <2>1 DEF AddEstimate, RemoveEstimate
    <2>2. CASE \E l \in Part : Reserve(l)
      BY <2>2 DEF Reserve
    <2> QED BY <1>3, <2>1, <2>2 DEF PartStep
  <1>4. CASE WorkStep
    <2>1. (\E l \in Labor : PutLabor(l)) \/ UNCHANGED parts
      BY <1>4, WorkWritten
    <2> QED BY <2>1
  <1>5. CASE ReadStep
    <2>1. UNCHANGED parts
      BY <1>5, ReadWritten DEF Reads
    <2> QED BY <2>1
  <1>6. CASE WriteStep
    <2>1. PICK c \in Clerk :
             \/ WriteStatus(c) \/ WriteCancelled(c) \/ WriteInspection(c) \/ WriteDiagnostic(c)
             \/ WriteWarranty(c) \/ \E yes \in BOOLEAN : WriteDecision(c, yes)
             \/ \E covered \in SUBSET Line : WriteShares(c, covered)
             \/ WriteConfirmation(c) \/ WriteReservation(c) \/ WriteEdit(c)
             \/ WriteResume(c) \/ WriteStop(c) \/ Drop(c)
      BY <1>6 DEF WriteStep
    <2>2. CASE WriteCancelled(c)
      <3>1. request[c].order \in Order
        BY <2>2, ReadSound DEF WriteCancelled, RequestSound
      <3> QED BY <2>2, <3>1 DEF WriteCancelled
    <2>3. CASE WriteReservation(c)
      <3>1. request[c].line \in Free
        BY <2>3, ReadSound DEF WriteReservation, RequestSound
      <3> QED BY <2>3, <3>1 DEF WriteReservation
    <2>4. CASE WriteEdit(c)
      <3>1. request[c].line \in Line /\ request[c].quantity \in Nat
        BY <2>4, ReadSound DEF WriteEdit, RequestSound
      <3> QED BY <2>4, <3>1
    <2>5. CASE \/ WriteStatus(c) \/ WriteInspection(c) \/ WriteDiagnostic(c)
               \/ WriteWarranty(c) \/ \E yes \in BOOLEAN : WriteDecision(c, yes)
               \/ \E covered \in SUBSET Line : WriteShares(c, covered)
               \/ WriteConfirmation(c) \/ WriteResume(c) \/ WriteStop(c) \/ Drop(c)
      <3>1. UNCHANGED parts
        BY <2>5 DEF WriteStatus, WriteInspection, WriteDiagnostic, WriteWarranty, WriteDecision,
                    WriteShares, WriteConfirmation, WriteResume, WriteStop, Drop
      <3> QED BY <3>1
    <2> QED BY <2>1, <2>2, <2>3, <2>4, <2>5
  <1> QED BY <1>1, <1>2, <1>3, <1>4, <1>5, <1>6 DEF Next

\* one line changes, its warranty is looked at again
LineStep ==
    \E l \in Line : /\ Invalidate(Of[l])
                    /\ \A k \in Line \ {l} : item'[k] = item[k]
                    /\ UNCHANGED <<order, share, invoices>>

LEMMA MoneyWritten ==
  ASSUME IInv, Next
  PROVE  \/ UNCHANGED <<warranty, share, item>>
         \/ \E o \in Order : (\E yes \in BOOLEAN : Create(o, yes)) \/ Invoice(o)
         \/ LineStep
         \/ \E c \in Clerk : /\ request[c].order \in Order
                             /\ \/ WriteWarranty(c) \/ \E yes \in BOOLEAN : WriteDecision(c, yes)
                                \/ \E covered \in SUBSET Line : WriteShares(c, covered)
                                \/ WriteConfirmation(c)
  <1>1. CASE OrderStep
    <2>1. PICK o \in Order : \/ \E yes \in BOOLEAN : Create(o, yes) \/ Approve(o, yes) \/ Control(o, yes)
                             \/ Abandon(o) \/ Finalize(o) \/ Invoice(o) \/ ManualInvoice(o) \/ Handover(o)
      BY <1>1 DEF OrderStep
    <2>2. \/ UNCHANGED <<warranty, share, item>>
          \/ (\E yes \in BOOLEAN : Create(o, yes)) \/ Invoice(o)
      BY <2>1 DEF Approve, Control, Abandon, Finalize, ManualInvoice, Invoicing, Handover, money, parts
    <2> QED BY <2>2
  <1>2. CASE InvoiceStep
    BY <1>2 DEF InvoiceStep, Pay, Void, Invoicing, parts
  <1> DEFINE Changed(l) == /\ Invalidate(Of[l]) /\ \E i : item' = [item EXCEPT ![l] = i]
                           /\ UNCHANGED <<order, share, invoices>>
  <1>3. ASSUME NEW l \in Line, Changed(l) PROVE LineStep
    <2>1. \A k \in Line \ {l} : item'[k] = item[k]
      BY <1>3 DEF IInv, Types
    <2> QED BY <1>3, <2>1 DEF LineStep
  <1>4. CASE PartStep
    <2>1. CASE \E l \in Labor \cup Part : AddEstimate(l) \/ RemoveEstimate(l)
      BY <2>1 DEF AddEstimate, RemoveEstimate, money, parts
    <2>2. CASE (\E l \in Part : Reserve(l)) \/ \E l \in Part \cup Free : Release(l)
      BY <2>2 DEF Reserve, Release, money
    <2>3. ASSUME NEW l \in Part \cup Free, NEW q \in 1..Quantity[l], Consume(l, q) PROVE LineStep
      BY <1>3, <2>3, Lines DEF Consume
    <2>4. ASSUME NEW l \in Extra, PutPart(l) PROVE LineStep
      BY <1>3, <2>4, Lines DEF PutPart
    <2>5. CASE \E current \in 0..MaxStock : ChangeStock(current)
      BY <2>5 DEF ChangeStock, money
    <2> QED BY <1>4, <2>1, <2>2, <2>3, <2>4, <2>5 DEF PartStep
  <1>5. CASE WorkStep
    <2>1. ASSUME NEW l \in Labor, PutLabor(l) PROVE LineStep
      BY <1>3, <2>1, Lines DEF PutLabor
    <2>2. (\E l \in Labor : PutLabor(l)) \/ UNCHANGED <<order, money, parts>>
      BY <1>5, WorkWritten
    <2>3. UNCHANGED <<order, money, parts>> => UNCHANGED <<warranty, share, item>>
      BY DEF money, parts
    <2> QED BY <2>1, <2>2, <2>3
  <1>6. CASE ReadStep
    <2>1. UNCHANGED <<money, parts>>
      BY <1>6, ReadWritten DEF Reads
    <2> QED BY <2>1 DEF money, parts
  <1>7. CASE WriteStep
    <2>1. PICK c \in Clerk :
             \/ WriteStatus(c) \/ WriteCancelled(c) \/ WriteInspection(c) \/ WriteDiagnostic(c)
             \/ WriteWarranty(c) \/ \E yes \in BOOLEAN : WriteDecision(c, yes)
             \/ \E covered \in SUBSET Line : WriteShares(c, covered)
             \/ WriteConfirmation(c) \/ WriteReservation(c) \/ WriteEdit(c)
             \/ WriteResume(c) \/ WriteStop(c) \/ Drop(c)
      BY <1>7 DEF WriteStep
    <2>2. CASE \/ WriteStatus(c) \/ WriteCancelled(c) \/ WriteInspection(c) \/ WriteDiagnostic(c)
               \/ WriteReservation(c) \/ WriteResume(c) \/ WriteStop(c) \/ Drop(c)
      BY <2>2 DEF WriteStatus, WriteCancelled, WriteInspection, WriteDiagnostic, WriteReservation,
                  WriteResume, WriteStop, Drop, money, parts
    <2>3. CASE WriteEdit(c)
      <3>1. request[c].line \in Line
        BY <2>3, ReadSound DEF WriteEdit, RequestSound
      <3>2. \E i : item' = [item EXCEPT ![request[c].line] = i]
        BY <2>3 DEF WriteEdit
      <3>3. Changed(request[c].line)
        BY <2>3, <3>2 DEF WriteEdit
      <3> QED BY <1>3, <3>1, <3>3
    <2>4. CASE \/ WriteWarranty(c) \/ \E yes \in BOOLEAN : WriteDecision(c, yes)
               \/ \E covered \in SUBSET Line : WriteShares(c, covered)
               \/ WriteConfirmation(c)
      <3>1. request[c].order \in Order
        BY <2>4, ReadSound DEF WriteWarranty, WriteDecision, WriteShares, WriteConfirmation,
                               SameVersion, RequestSound
      <3> QED BY <2>4, <3>1
    <2> QED BY <2>1, <2>2, <2>3, <2>4
  <1> QED BY <1>1, <1>2, <1>4, <1>5, <1>6, <1>7 DEF Next

LEMMA OrderWritten ==
  ASSUME IInv, Next, NEW o \in Order
  PROVE  \/ order'[o].status = order[o].status
         \/ order'[o].status \in {"abandonment_pending", "abandoned", "cancelled"}
         \/ (\E yes \in BOOLEAN : Create(o, yes)) \/ Invoice(o) \/ Handover(o)
         \/ /\ <<order[o].status, order'[o].status>> \in Transitions
            /\ order'[o].status = "quality_control" => ReadyForControl(o)
  <1>1. /\ order \in [Order -> OrderRow]
        /\ \A p \in Order : order[p] \in OrderRow
    BY DEF IInv, Types
  <1>2. ASSUME NEW p \in Order, NEW next, Moves(p, next)
        PROVE  order'[o].status = IF o = p THEN next ELSE order[o].status
    BY <1>1, <1>2 DEF Moves, OrderRow
  <1>3. CASE OrderStep
    <2>1. PICK p \in Order : \/ \E yes \in BOOLEAN : Create(p, yes) \/ Approve(p, yes) \/ Control(p, yes)
                             \/ Abandon(p) \/ Finalize(p) \/ Invoice(p) \/ ManualInvoice(p) \/ Handover(p)
      BY <1>3 DEF OrderStep
    <2>2. CASE Create(p, TRUE) \/ Create(p, FALSE)
      BY <1>2, <2>2 DEF Create
    <2>3. CASE Invoice(p)
      BY <1>2, <2>3 DEF Invoice
    <2>4. CASE Handover(p)
      BY <1>2, <2>4 DEF Handover
    <2>5. CASE Abandon(p)
      BY <1>2, <2>5 DEF Abandon
    <2>6. CASE Finalize(p)
      BY <1>2, <2>6 DEF Finalize
    <2>7. ASSUME NEW yes \in BOOLEAN, Approve(p, yes)
          PROVE  order'[o].status \in {order[o].status, "cancelled"}
      BY <1>1, <2>7, ZenonT(60) DEF Approve, OrderRow
    <2>8. ASSUME NEW yes \in BOOLEAN, Control(p, yes)
          PROVE  order'[o].status = order[o].status
      BY <1>1, <2>8 DEF Control, OrderRow
    <2>9. CASE ManualInvoice(p)
      BY <2>9 DEF ManualInvoice, Invoicing
    <2>10. CASE \E yes \in BOOLEAN : Create(p, yes)
      BY <2>2, <2>10
    <2> QED BY <2>1, <2>3, <2>4, <2>5, <2>6, <2>7, <2>8, <2>9, <2>10
  <1>4. CASE InvoiceStep
    BY <1>4 DEF InvoiceStep, Pay, Void, Invoicing
  <1>5. CASE PartStep
    <2>1. order' = order
      BY <1>5 DEF PartStep, AddEstimate, RemoveEstimate, Reserve, Release, Consume, PutPart, ChangeStock
    <2> QED BY <2>1
  <1>6. CASE WorkStep
    <2>1. order' = order
      BY <1>6, WorkWritten DEF PutLabor
    <2> QED BY <2>1
  <1>7. CASE ReadStep
    <2>1. order' = order
      BY <1>7, ReadWritten DEF Reads
    <2> QED BY <2>1
  <1>8. CASE WriteStep
    <2>1. PICK c \in Clerk :
             \/ WriteStatus(c) \/ WriteCancelled(c) \/ WriteInspection(c) \/ WriteDiagnostic(c)
             \/ WriteWarranty(c) \/ \E yes \in BOOLEAN : WriteDecision(c, yes)
             \/ \E covered \in SUBSET Line : WriteShares(c, covered)
             \/ WriteConfirmation(c) \/ WriteReservation(c) \/ WriteEdit(c)
             \/ WriteResume(c) \/ WriteStop(c) \/ Drop(c)
      BY <1>8 DEF WriteStep
    <2>2. CASE WriteStatus(c)
      <3> DEFINE p == request[c].order
                 next == request[c].next
      <3>1. /\ p \in Order /\ <<order[p].status, next>> \in Transitions
            /\ next = "quality_control" => ReadyForControl(p)
        BY <2>2, ReadSound DEF WriteStatus, RequestSound
      <3>2. \E r : order' = [order EXCEPT ![p] = r] /\ r.status = next
        <4> DEFINE r == [order[p] EXCEPT !.status = next,
                     !.entries = IF next = "quality_control" THEN @ + 1 ELSE @]
        <4>1. order' = [order EXCEPT ![p] = r]
          BY <2>2 DEF WriteStatus
        <4>2. order[p] \in OrderRow
          BY <1>1, <3>1
        <4>3. r.status = next
          BY <4>2 DEF OrderRow
        <4> HIDE DEF r
        <4> QED BY <4>1, <4>3
      <3>3. order'[o].status = IF o = p THEN next ELSE order[o].status
        BY <1>1, <3>1, <3>2
      <3> QED BY <3>1, <3>3
    <2>3. CASE WriteCancelled(c)
      <3>1. request[c].order \in Order
        BY <2>3, ReadSound DEF WriteCancelled, RequestSound
      <3>2. Moves(request[c].order, "cancelled")
        BY <2>3 DEF WriteCancelled
      <3> QED BY <1>2, <3>1, <3>2
    <2>4. CASE WriteInspection(c) \/ WriteDiagnostic(c)
      <3>1. request[c].order \in Order
        BY <2>4, ReadSound DEF WriteInspection, WriteDiagnostic, RequestSound
      <3> QED BY <1>1, <2>4, <3>1 DEF WriteInspection, WriteDiagnostic, OrderRow
    <2>5. CASE \/ WriteWarranty(c) \/ \E yes \in BOOLEAN : WriteDecision(c, yes)
               \/ \E covered \in SUBSET Line : WriteShares(c, covered)
               \/ WriteConfirmation(c) \/ WriteReservation(c) \/ WriteEdit(c)
               \/ WriteResume(c) \/ WriteStop(c) \/ Drop(c)
      <3>1. order' = order
        BY <2>5 DEF WriteWarranty, WriteDecision, WriteShares, WriteConfirmation, WriteReservation,
                    WriteEdit, WriteResume, WriteStop, Drop
      <3> QED BY <3>1
    <2> QED BY <2>1, <2>2, <2>3, <2>4, <2>5
  <1> QED BY <1>3, <1>4, <1>5, <1>6, <1>7, <1>8 DEF Next

LEMMA RequestWritten ==
  ASSUME IInv, Next
  PROVE  \/ Answers
         \/ \E c \in Clerk, late \in Late :
               /\ Reads(c, late)
               /\ late.op \in {"shares", "confirmation"} =>
                     /\ late.version = warranty[late.order].version
                     /\ order[late.order].status = "in_progress"
  <1>1. CASE OrderStep
    BY <1>1 DEF OrderStep, Create, Approve, Control, Abandon, Finalize, Invoice, ManualInvoice,
                Invoicing, Handover, Answers
  <1>2. CASE InvoiceStep
    BY <1>2 DEF InvoiceStep, Pay, Void, Invoicing, Answers
  <1>3. CASE PartStep
    BY <1>3 DEF PartStep, AddEstimate, RemoveEstimate, Reserve, Release, Consume, PutPart, ChangeStock,
                Answers
  <1>4. CASE WorkStep
    BY <1>4, WorkWritten DEF PutLabor, Answers
  <1>5. CASE ReadStep
    BY <1>5, ReadWritten
  <1>6. CASE WriteStep
    <2>1. PICK c \in Clerk :
             \/ WriteStatus(c) \/ WriteCancelled(c) \/ WriteInspection(c) \/ WriteDiagnostic(c)
             \/ WriteWarranty(c) \/ \E yes \in BOOLEAN : WriteDecision(c, yes)
             \/ \E covered \in SUBSET Line : WriteShares(c, covered)
             \/ WriteConfirmation(c) \/ WriteReservation(c) \/ WriteEdit(c)
             \/ WriteResume(c) \/ WriteStop(c) \/ Drop(c)
      BY <1>6 DEF WriteStep
    <2>2. request' = [request EXCEPT ![c] = None]
      BY <2>1 DEF WriteStatus, WriteCancelled, WriteInspection, WriteDiagnostic, WriteWarranty,
                  WriteDecision, WriteShares, WriteConfirmation, WriteReservation, WriteEdit,
                  WriteResume, WriteStop, Drop, SameVersion, Doing
    <2> QED BY <2>2 DEF Answers
  <1> QED BY <1>1, <1>2, <1>3, <1>4, <1>5, <1>6 DEF Next

LEMMA EstimateWritten ==
  ASSUME IInv, Next
  PROVE  \/ estimate' = estimate
         \/ \E l \in Labor \cup Part : AddEstimate(l) \/ RemoveEstimate(l)
  <1>1. CASE OrderStep
    BY <1>1 DEF OrderStep, Create, Approve, Control, Abandon, Finalize, Invoice, ManualInvoice,
                Invoicing, Handover, work
  <1>2. CASE InvoiceStep
    BY <1>2 DEF InvoiceStep, Pay, Void, Invoicing, work
  <1>3. CASE PartStep
    BY <1>3 DEF PartStep, Reserve, Release, Consume, PutPart, ChangeStock, work
  <1>4. CASE WorkStep
    <2>1. ASSUME NEW l \in Labor, \/ PutLabor(l)
                                  \/ \E t \in Technician \cup {None} : PlanJob(l, t)
                                  \/ \E t \in Technician : Assign(l, t)
                                  \/ \E next \in {"assigned", "completed", "cancelled"} : StepJob(l, next)
                                  \/ \E t \in Technician, b \in Bay \cup {None} : Start(l, t, b)
          PROVE  estimate' = estimate
      BY <2>1 DEF PutLabor, PlanJob, Assign, StepJob, Start, Starting, work
    <2>2. CASE \E s \in DOMAIN sessions : Pause(s)
      BY <2>2 DEF Pause
    <2> QED BY <1>4, <2>1, <2>2 DEF WorkStep
  <1>5. CASE ReadStep
    BY <1>5, ReadWritten DEF Reads, work
  <1>6. CASE WriteStep
    <2>1. PICK c \in Clerk :
             \/ WriteStatus(c) \/ WriteCancelled(c) \/ WriteInspection(c) \/ WriteDiagnostic(c)
             \/ WriteWarranty(c) \/ \E yes \in BOOLEAN : WriteDecision(c, yes)
             \/ \E covered \in SUBSET Line : WriteShares(c, covered)
             \/ WriteConfirmation(c) \/ WriteReservation(c) \/ WriteEdit(c)
             \/ WriteResume(c) \/ WriteStop(c) \/ Drop(c)
      BY <1>6 DEF WriteStep
    <2>2. estimate' = estimate
      BY <2>1 DEF WriteStatus, WriteCancelled, WriteInspection, WriteDiagnostic, WriteWarranty,
                  WriteDecision, WriteShares, WriteConfirmation, WriteReservation, WriteEdit,
                  WriteResume, WriteStop, Drop, work
    <2> QED BY <2>2
  <1> QED BY <1>1, <1>2, <1>3, <1>4, <1>5, <1>6 DEF Next

LEMMA PlanWritten ==
  ASSUME Next
  PROVE  plan' = plan \/ \E errand \in Errand : Does(errand)
  <1>1. \A errand \in {"warranty", "removal", "edit", "job", "session", "pause", "release", "stock",
                       "void", "manual", "abandon", "failure", "cancellation"} : errand \in Errand
    BY DEF Errand
  <1>2. CASE OrderStep
    BY <1>1, <1>2 DEF OrderStep, Create, Approve, Control, Abandon, Finalize, Invoice, ManualInvoice,
                Invoicing, Handover
  <1>3. CASE InvoiceStep
    BY <1>1, <1>3 DEF InvoiceStep, Pay, Void, Invoicing
  <1>4. CASE PartStep
    BY <1>1, <1>4 DEF PartStep, AddEstimate, RemoveEstimate, Reserve, Release, Consume, PutPart, ChangeStock
  <1>5. CASE WorkStep
    <2>1. ASSUME NEW l \in Labor, \/ PutLabor(l)
                                  \/ \E t \in Technician \cup {None} : PlanJob(l, t)
                                  \/ \E t \in Technician : Assign(l, t)
                                  \/ \E next \in {"assigned", "completed", "cancelled"} : StepJob(l, next)
                                  \/ \E t \in Technician, b \in Bay \cup {None} : Start(l, t, b)
          PROVE  plan' = plan \/ \E errand \in Errand : Does(errand)
      BY <1>1, <2>1 DEF PutLabor, PlanJob, Assign, StepJob, Start, Starting
    <2>2. CASE \E s \in DOMAIN sessions : Pause(s)
      BY <1>1, <2>2 DEF Pause
    <2> QED BY <1>5, <2>1, <2>2 DEF WorkStep
  <1>6. CASE ReadStep
    <2>1. PICK c \in Clerk :
             \/ \E o \in Order : \/ \E next \in Status : ReadStatus(c, o, next)
                        \/ \E op \in {"warranty", "decision", "shares", "confirmation"} :
                               ReadWarranty(c, o, op)
                        \/ ReadInspection(c, o) \/ ReadDiagnostic(c, o)
             \/ \E l \in Free : ReadReservation(c, l)
             \/ \E l \in Line, q \in Nat : ReadEdit(c, l, q)
             \/ \E s \in DOMAIN sessions : ReadResume(c, s) \/ ReadStop(c, s)
      <3>1. \A l \in Line : \A q \in 0..item[l].quantity + 1 : q \in Nat
        OBVIOUS
      <3> QED BY <1>6, <3>1 DEF ReadStep
    <2> QED BY <1>1, <2>1 DEF ReadStatus, ReadWarranty, ReadInspection, ReadDiagnostic,
                ReadReservation, ReadEdit, ReadResume, ReadStop
  <1>7. CASE WriteStep
    <2>1. PICK c \in Clerk :
             \/ WriteStatus(c) \/ WriteCancelled(c) \/ WriteInspection(c) \/ WriteDiagnostic(c)
             \/ WriteWarranty(c) \/ \E yes \in BOOLEAN : WriteDecision(c, yes)
             \/ \E covered \in SUBSET Line : WriteShares(c, covered)
             \/ WriteConfirmation(c) \/ WriteReservation(c) \/ WriteEdit(c)
             \/ WriteResume(c) \/ WriteStop(c) \/ Drop(c)
      BY <1>7 DEF WriteStep
    <2>2. plan' = plan
      BY <2>1 DEF WriteStatus, WriteCancelled, WriteInspection, WriteDiagnostic, WriteWarranty,
                  WriteDecision, WriteShares, WriteConfirmation, WriteReservation, WriteEdit,
                  WriteResume, WriteStop, Drop
    <2> QED BY <2>2
  <1> QED BY <1>2, <1>3, <1>4, <1>5, <1>6, <1>7 DEF Next

LEMMA InvoicesWritten ==
  ASSUME IInv, Next
  PROVE  \/ invoices' = invoices
         \/ \E o \in Order : Invoice(o) \/ ManualInvoice(o)
         \/ \E i \in DOMAIN invoices : Pay(i) \/ Void(i)
  <1>1. CASE OrderStep
    BY <1>1 DEF OrderStep, Create, Approve, Control, Abandon, Finalize, Handover, money
  <1>2. CASE InvoiceStep
    BY <1>2 DEF InvoiceStep
  <1>3. CASE PartStep
    BY <1>3 DEF PartStep, AddEstimate, RemoveEstimate, Reserve, Release, Consume, PutPart, ChangeStock,
                money
  <1>4. CASE WorkStep
    BY <1>4, WorkWritten DEF PutLabor, money
  <1>5. CASE ReadStep
    BY <1>5, ReadWritten DEF Reads, money
  <1>6. CASE WriteStep
    <2>1. PICK c \in Clerk :
             \/ WriteStatus(c) \/ WriteCancelled(c) \/ WriteInspection(c) \/ WriteDiagnostic(c)
             \/ WriteWarranty(c) \/ \E yes \in BOOLEAN : WriteDecision(c, yes)
             \/ \E covered \in SUBSET Line : WriteShares(c, covered)
             \/ WriteConfirmation(c) \/ WriteReservation(c) \/ WriteEdit(c)
             \/ WriteResume(c) \/ WriteStop(c) \/ Drop(c)
      BY <1>6 DEF WriteStep
    <2>2. invoices' = invoices
      BY <2>1 DEF WriteStatus, WriteCancelled, WriteInspection, WriteDiagnostic, WriteWarranty,
                  WriteDecision, WriteShares, WriteConfirmation, WriteReservation, WriteEdit,
                  WriteResume, WriteStop, Drop, money
    <2> QED BY <2>2
  <1> QED BY <1>1, <1>2, <1>3, <1>4, <1>5, <1>6 DEF Next

-----------------------------------------------------------------------------
(* The claim on the manufacturer. Once an order is past its works nobody   *)
(* reads its shares any more, and a version is only ever used up: what is  *)
(* still pending was read under the version that stands, or an older one,  *)
(* and after the first change under an older one. So an order whose        *)
(* warranty is confirmed has the shares its invoice was made with.         *)

Past == {"quality_control", "ready", "invoiced"}
Early == Writable \cup {"none", "quality_control", "ready"}

Sharing(c, o) ==
    /\ request[c] # None /\ request[c].op \in {"shares", "confirmation"}
    /\ request[c].order = o

Account(o) ==
    /\ \A c \in Clerk : Sharing(c, o) =>
           request[c].version \in Nat /\ request[c].version <= warranty[o].version
    /\ order[o].status \in Past /\ warranty[o].decision = "APPROVED" /\ warranty[o].allocation # "CONFIRMED" =>
           \A c \in Clerk : Sharing(c, o) => request[c].version # warranty[o].version
    /\ order[o].status \in Early => warranty[o].claim = 0
    /\ order[o].status = "invoiced" /\ warranty[o].decision = "APPROVED" /\ warranty[o].allocation = "CONFIRMED" =>
           warranty[o].claim = Claimed(ActiveItems(o))

\* the rest of the types
Typed ==
    /\ warranty \in [Order -> WarrantyRow]
    /\ share \in [Line -> Nat \cup {None}]
    /\ estimate \subseteq Labor \cup Part
    /\ invoices \in Seq(InvoiceRow)
    /\ request \in [Clerk -> Late \cup {None}]
    /\ plan \in Plan

Books == Typed /\ Tallied /\ \A o \in Order : Account(o)

LEMMA ActiveFinite ==
  ASSUME Tallied, NEW o \in Order, NEW S \in SUBSET ActiveItems(o)
  PROVE  IsFiniteSet(S) /\ S \subseteq Line
  <1>1. S \subseteq Handled(item) /\ S \subseteq Line
    BY DEF ActiveItems, Handled, LinesOf
  <1> QED BY <1>1, FS_Subset DEF Tallied, WellHandled

LEMMA ClaimedNat ==
  ASSUME Typed, Tallied, NEW o \in Order
  PROVE  Claimed(ActiveItems(o)) \in Nat
  <1>1. IsFiniteSet(Shared(ActiveItems(o))) /\ Shared(ActiveItems(o)) \subseteq Line
    BY ActiveFinite DEF Shared
  <1>2. \A l \in Shared(ActiveItems(o)) : share[l] \in Nat
    BY <1>1 DEF Typed, Shared
  <1> QED BY <1>1, <1>2, SumNat DEF Claimed

LEMMA ClaimedSame ==
  ASSUME Tallied, NEW o \in Order,
         \A l \in LinesOf(o) : item'[l] = item[l] /\ share'[l] = share[l]
  PROVE  Claimed(ActiveItems(o))' = Claimed(ActiveItems(o))
  <1> DEFINE S == Shared(ActiveItems(o))
  <1>1. Shared(ActiveItems(o))' = S
    BY DEF Shared, ActiveItems, LinesOf
  <1>2. IsFiniteSet(S) /\ \A l \in S : share'[l] = share[l]
    BY ActiveFinite DEF Shared, ActiveItems
  <1>3. Claimed(ActiveItems(o))' = SumFunctionOnSet(share', S)
    BY <1>1 DEF Claimed
  <1>4. Claimed(ActiveItems(o)) = SumFunctionOnSet(share, S)
    BY DEF Claimed
  <1> HIDE DEF S
  <1>5. SumFunctionOnSet(share', S) = SumFunctionOnSet(share, S)
    BY <1>2, SumSame
  <1> QED BY <1>3, <1>4, <1>5

\* the shares and the warranty of an order stay as they are
LEMMA AccountKept ==
  ASSUME NEW o \in Order, Account(o), warranty'[o] = warranty[o], warranty[o].version \in Nat,
         Claimed(ActiveItems(o))' = Claimed(ActiveItems(o)),
         \A c \in Clerk : Sharing(c, o)' =>
            \/ Sharing(c, o) /\ request'[c] = request[c]
            \/ request'[c].version = warranty[o].version /\ order'[o].status = "in_progress",
         order'[o].status \in Past =>
            order[o].status \in Past \/ (warranty[o].decision = "APPROVED" => warranty[o].allocation = "CONFIRMED"),
         order'[o].status \in Early => order[o].status \in Early,
         order'[o].status = "invoiced" => order[o].status = "invoiced"
  PROVE  Account(o)'
  <1>1. "in_progress" \notin Past
    BY DEF Past
  <1> QED BY <1>1 DEF Account

\* its warranty changes and is not confirmed, or not any more
LEMMA AccountTurned ==
  ASSUME NEW o \in Order, Account(o), order' = order, warranty[o].version \in Nat,
         \A c \in Clerk : Sharing(c, o)' => Sharing(c, o) /\ request'[c] = request[c],
         warranty'[o].claim = warranty[o].claim,
         \/ warranty'[o].version = warranty[o].version + 1
         \/ warranty'[o].version = warranty[o].version /\ warranty'[o].decision # "APPROVED"
         \/ warranty'[o] = warranty[o],
         ~ (warranty'[o].decision = "APPROVED" /\ warranty'[o].allocation = "CONFIRMED")
  PROVE  Account(o)'
  <1>1. \A c \in Clerk : Sharing(c, o)' =>
           request'[c].version \in Nat /\ request'[c].version <= warranty'[o].version
    BY DEF Account
  <1>2. order'[o].status \in Past /\ warranty'[o].decision = "APPROVED" =>
           \A c \in Clerk : Sharing(c, o)' => request'[c].version # warranty'[o].version
    <2>1. CASE warranty'[o].version = warranty[o].version + 1
      BY <2>1 DEF Account
    <2>2. CASE warranty'[o].version = warranty[o].version /\ warranty'[o].decision # "APPROVED"
      BY <2>2
    <2>3. CASE warranty'[o] = warranty[o]
      BY <2>3 DEF Account
    <2> QED BY <2>1, <2>2, <2>3
  <1>3. order'[o].status \in Early => warranty'[o].claim = 0
    BY DEF Account
  <1> QED BY <1>1, <1>2, <1>3 DEF Account

LEMMA SharingAnswered ==
  ASSUME IInv, Answers, NEW o \in Order
  PROVE  \A c \in Clerk : Sharing(c, o)' => Sharing(c, o) /\ request'[c] = request[c]
  <1>1. \A c \in Clerk : request'[c] = request[c] \/ request'[c] = None
    BY DEF Answers, IInv, Requests
  <1> QED BY <1>1 DEF Sharing

LEMMA EarlyBefore ==
  ASSUME NEW from, NEW next, <<from, next>> \in Transitions
  PROVE  /\ next \in Early => from \in Early
         /\ next # "invoiced" /\ next # "delivered" /\ next # "none"
         /\ next \in Past => next = "quality_control" \/ from \in Past
  BY DEF Transitions, Early, Past, Writable

\* nothing of the warranty, the shares and the lines changes
LEMMA QuietAccount ==
  ASSUME IInv, Books, Next, NEW o \in Order, UNCHANGED <<warranty, share, item>>,
         ~ (\E yes \in BOOLEAN : Create(o, yes)), ~ Invoice(o)
  PROVE  Account(o)'
  <1>1. Claimed(ActiveItems(o))' = Claimed(ActiveItems(o))
    BY DEF Claimed, Shared, ActiveItems
  <1>2. /\ order'[o].status \in Past =>
              order[o].status \in Past \/ (warranty[o].decision = "APPROVED" => warranty[o].allocation = "CONFIRMED")
        /\ order'[o].status \in Early => order[o].status \in Early
        /\ order'[o].status = "invoiced" => order[o].status = "invoiced"
    <2>1. CASE order'[o].status = order[o].status
      BY <2>1
    <2>2. CASE order'[o].status \in {"abandonment_pending", "abandoned", "cancelled", "delivered"}
      BY <2>2 DEF Past, Early, Writable
    <2>3. CASE /\ <<order[o].status, order'[o].status>> \in Transitions
               /\ order'[o].status = "quality_control" => ReadyForControl(o)
      BY <2>3, EarlyBefore DEF ReadyForControl
    <2>4. Handover(o) => order'[o].status = "delivered"
      BY DEF Handover, Moves, IInv, Types, OrderRow
    <2> QED BY <2>1, <2>2, <2>3, <2>4, OrderWritten
  <1>3. \A c \in Clerk : Sharing(c, o)' =>
            \/ Sharing(c, o) /\ request'[c] = request[c]
            \/ request'[c].version = warranty[o].version /\ order'[o].status = "in_progress"
    <2>1. CASE Answers
      BY <2>1, SharingAnswered
    <2>2. ASSUME NEW c \in Clerk, NEW late \in Late, Reads(c, late),
                 late.op \in {"shares", "confirmation"} =>
                     /\ late.version = warranty[late.order].version
                     /\ order[late.order].status = "in_progress"
          PROVE  \A d \in Clerk : Sharing(d, o)' =>
                    \/ Sharing(d, o) /\ request'[d] = request[d]
                    \/ request'[d].version = warranty[o].version /\ order'[o].status = "in_progress"
      <3>1. order' = order /\ \A d \in Clerk : request'[d] = IF d = c THEN late ELSE request[d]
        BY <2>2 DEF Reads, IInv, Requests
      <3> QED BY <2>2, <3>1 DEF Sharing
    <2> QED BY <2>1, <2>2, RequestWritten
  <1>4. Account(o) /\ warranty[o].version \in Nat
    BY DEF Books, Typed, WarrantyRow
  <1> QED BY <1>1, <1>2, <1>3, <1>4, AccountKept

\* another order's warranty
LEMMA OtherAccount ==
  ASSUME IInv, Books, Answers, NEW o \in Order, warranty'[o] = warranty[o],
         order'[o] = order[o], \A l \in LinesOf(o) : item'[l] = item[l] /\ share'[l] = share[l]
  PROVE  Account(o)'
  <1>1. Claimed(ActiveItems(o))' = Claimed(ActiveItems(o))
    BY ClaimedSame DEF Books
  <1>2. Account(o) /\ warranty[o].version \in Nat
    BY DEF Books, Typed, WarrantyRow
  <1> QED BY <1>1, <1>2, SharingAnswered, AccountKept

LEMMA CreateAccount ==
  ASSUME IInv, Books, NEW p \in Order, NEW yes \in BOOLEAN, Create(p, yes), NEW o \in Order
  PROVE  Account(o)'
  <1>1. Answers /\ UNCHANGED <<share, item>> /\ warranty[o] \in WarrantyRow /\ Account(o)
    BY DEF Create, Answers, parts, Books, Typed
  <1>2. CASE o # p
    <2>1. warranty'[o] = warranty[o] /\ order'[o] = order[o]
      BY <1>2 DEF Create, Moves, IInv, Types, Books, Typed
    <2> QED BY <1>1, <2>1, OtherAccount
  <1>3. CASE o = p
    <2>1. order[o].status = "none" /\ order'[o].status = "planned"
      BY <1>3 DEF Create, Moves, IInv, Types, OrderRow
    <2>2. warranty'[o].claim = warranty[o].claim /\ warranty'[o].version = warranty[o].version
      BY <1>1, <1>3 DEF Create, Books, Typed, WarrantyRow
    <2>3. "planned" \notin Past /\ "none" \in Early
      BY DEF Past, Early
    <2>4. warranty[o].claim = 0
      BY <1>1, <2>1, <2>3 DEF Account
    <2> QED BY <1>1, <2>1, <2>2, <2>3, <2>4, SharingAnswered DEF Account
  <1> QED BY <1>2, <1>3

LEMMA InvoiceAccount ==
  ASSUME IInv, Books, NEW p \in Order, Invoice(p), NEW o \in Order
  PROVE  Account(o)'
  <1>1. Answers /\ UNCHANGED <<share, item>> /\ warranty[o] \in WarrantyRow /\ Account(o)
    BY DEF Invoice, Answers, parts, Books, Typed
  <1>2. CASE o # p
    <2>1. warranty'[o] = warranty[o] /\ order'[o] = order[o]
      BY <1>2 DEF Invoice, Moves, IInv, Types, Books, Typed
    <2> QED BY <1>1, <2>1, OtherAccount
  <1>3. CASE o = p
    <2> DEFINE k == Claimed(ActiveItems(o))
               claim == IF warranty[o].decision = "APPROVED" THEN k ELSE 0
    <2>1. order[o].status \in {"ready", "invoiced"} /\ order'[o].status = "invoiced"
      BY <1>3 DEF Invoice, Moves, IInv, Types, OrderRow
    <2>2. /\ warranty' = [warranty EXCEPT ![o] = [warranty[o] EXCEPT
                              !.claim = IF claim > 0 THEN claim ELSE warranty[o].claim]]
          /\ claim > 0 => warranty[o].claim = 0
      BY <1>3 DEF Invoice
    <2>3. /\ warranty'[o].version = warranty[o].version
          /\ warranty'[o].decision = warranty[o].decision
          /\ warranty'[o].allocation = warranty[o].allocation
          /\ warranty'[o].claim = IF claim > 0 THEN claim ELSE warranty[o].claim
      BY <1>1, <2>2 DEF Books, Typed, WarrantyRow
    <2>4. k \in Nat /\ k' = k
      BY <1>1, ClaimedNat DEF Books, Claimed, Shared, ActiveItems
    <2>5. /\ {"ready", "invoiced"} \subseteq Past /\ "ready" \in Early /\ "invoiced" \notin Early
      BY DEF Past, Early, Writable
    <2>6. order[o].status = "ready" => warranty[o].claim = 0
      BY <1>1, <2>5 DEF Account
    <2>7. ASSUME warranty[o].decision = "APPROVED", warranty[o].allocation = "CONFIRMED"
          PROVE  warranty'[o].claim = k
      <3>1. order[o].status = "invoiced" => warranty[o].claim = k
        BY <1>1, <2>7 DEF Account
      <3>2. claim = k
        BY <2>7
      <3> HIDE DEF k, claim
      <3> QED BY <2>1, <2>2, <2>3, <2>4, <2>6, <3>1, <3>2
    <2>8. \A c \in Clerk : Sharing(c, o)' =>
             request'[c].version \in Nat /\ request'[c].version <= warranty'[o].version
      BY <1>1, <2>3, SharingAnswered DEF Account
    <2>9. warranty'[o].decision = "APPROVED" /\ warranty'[o].allocation # "CONFIRMED" =>
             \A c \in Clerk : Sharing(c, o)' => request'[c].version # warranty'[o].version
      BY <1>1, <2>1, <2>3, <2>5, SharingAnswered DEF Account
    <2> QED BY <2>1, <2>3, <2>4, <2>5, <2>7, <2>8, <2>9 DEF Account
  <1> QED BY <1>2, <1>3

LEMMA LineAccount ==
  ASSUME IInv, Books, Answers, LineStep, NEW o \in Order
  PROVE  Account(o)'
  <1>1. PICK l \in Line : /\ Invalidate(Of[l]) /\ \A k \in Line \ {l} : item'[k] = item[k]
                          /\ UNCHANGED <<order, share, invoices>>
    BY DEF LineStep
  <1>2. Of[l] \in Order /\ warranty[o] \in WarrantyRow /\ warranty \in [Order -> WarrantyRow] /\ Account(o)
    BY Lines DEF Books, Typed
  <1>3. CASE o # Of[l]
    <2>1. warranty'[o] = warranty[o]
      BY <1>1, <1>2, <1>3 DEF Invalidate
    <2>2. \A k \in LinesOf(o) : item'[k] = item[k] /\ share'[k] = share[k]
      BY <1>1, <1>3 DEF LinesOf
    <2> QED BY <1>1, <2>1, <2>2, OtherAccount
  <1>4. CASE o = Of[l]
    <2>1. warranty'[o] = Invalidated(o)
      BY <1>1, <1>2, <1>4 DEF Invalidate
    <2>2. /\ warranty'[o].claim = warranty[o].claim
          /\ warranty'[o].version = warranty[o].version + 1 \/ warranty'[o] = warranty[o]
          /\ ~ (warranty'[o].decision = "APPROVED" /\ warranty'[o].allocation = "CONFIRMED")
      <3>1. CASE warranty[o].allocation # "CONFIRMED"
        BY <2>1, <3>1 DEF Invalidated
      <3>2. CASE warranty[o].allocation = "CONFIRMED"
        <4> DEFINE a == IF warranty[o].decision = "APPROVED" THEN "DRAFT" ELSE warranty[o].allocation
        <4>1. warranty'[o] = [warranty[o] EXCEPT !.version = warranty[o].version + 1, !.allocation = a]
          BY <2>1, <3>2 DEF Invalidated
        <4>2. warranty[o].decision = "APPROVED" => a = "DRAFT"
          OBVIOUS
        <4> HIDE DEF a
        <4> QED BY <1>2, <4>1, <4>2 DEF WarrantyRow
      <3> QED BY <3>1, <3>2
    <2>3. warranty[o].version \in Nat
      BY <1>2 DEF WarrantyRow
    <2> QED BY <1>1, <1>2, <2>2, <2>3, SharingAnswered, AccountTurned
  <1> QED BY <1>3, <1>4

LEMMA WarrantyAccount ==
  ASSUME IInv, Books, NEW c \in Clerk, request[c].order \in Order,
         \/ WriteWarranty(c) \/ \E yes \in BOOLEAN : WriteDecision(c, yes)
         \/ \E covered \in SUBSET Line : WriteShares(c, covered)
         \/ WriteConfirmation(c),
         NEW o \in Order
  PROVE  Account(o)'
  <1> DEFINE p == request[c].order
  <1>1. Answers /\ order' = order /\ item' = item
    BY ReadSound, ZenonT(60) DEF WriteWarranty, WriteDecision, WriteShares, WriteConfirmation, SameVersion, parts
  <1>2. PICK v : warranty' = [warranty EXCEPT ![p] = v]
    BY DEF WriteWarranty, WriteDecision, WriteShares, WriteConfirmation
  <1>3. \A l \in Line : Of[l] # p => share'[l] = share[l]
    <2>1. CASE WriteWarranty(c) \/ WriteConfirmation(c)
      BY <2>1 DEF WriteWarranty, WriteConfirmation
    <2>2. CASE \E yes \in BOOLEAN : WriteDecision(c, yes)
      BY <2>2 DEF WriteDecision
    <2>3. CASE \E covered \in SUBSET Line : WriteShares(c, covered)
      BY <2>3 DEF WriteShares, ActiveItems, LinesOf
    <2> QED BY <2>1, <2>2, <2>3
  <1>4. warranty \in [Order -> WarrantyRow] /\ warranty[p] \in WarrantyRow /\ Account(o)
        /\ warranty[p].version \in Nat
    BY DEF Books, Typed, WarrantyRow
  <1>5. CASE o # p
    <2>1. warranty'[o] = warranty[o]
      BY <1>2, <1>5
    <2>2. \A l \in LinesOf(o) : item'[l] = item[l] /\ share'[l] = share[l]
      BY <1>1, <1>3, <1>5 DEF LinesOf
    <2> QED BY <1>1, <2>1, <2>2, OtherAccount
  <1>6. ASSUME warranty'[p].claim = warranty[p].claim,
               \/ warranty'[p].version = warranty[p].version + 1
               \/ warranty'[p].version = warranty[p].version /\ warranty'[p].decision # "APPROVED",
               ~ (warranty'[p].decision = "APPROVED" /\ warranty'[p].allocation = "CONFIRMED"),
               o = p
        PROVE  Account(o)'
    <2> HIDE DEF p
    <2> QED BY <1>1, <1>4, <1>6, SharingAnswered, AccountTurned
  <1>7. CASE o = p /\ WriteWarranty(c)
    <2>1. CASE warranty[p].decision = "none"
      <3>1. warranty' = [warranty EXCEPT ![p] = [warranty[p] EXCEPT !.decision = "PENDING"]]
        BY <1>7, <2>1 DEF WriteWarranty
      <3> HIDE DEF p
      <3>2. warranty'[p] = [warranty[p] EXCEPT !.decision = "PENDING"]
        BY <1>4, <1>7, <3>1
      <3> QED BY <1>4, <1>6, <1>7, <3>2 DEF WarrantyRow
    <2>2. CASE warranty[p].decision # "none"
      <3>1. warranty' = [warranty EXCEPT ![p] = [warranty[p] EXCEPT !.version = warranty[p].version + 1]]
            /\ share' = share
        BY <1>7, <2>2 DEF WriteWarranty
      <3> HIDE DEF p
      <3>2. /\ warranty'[p].version = warranty[p].version + 1
            /\ warranty'[p].decision = warranty[p].decision
            /\ warranty'[p].allocation = warranty[p].allocation
            /\ warranty'[p].claim = warranty[p].claim
        BY <1>4, <1>7, <3>1 DEF WarrantyRow
      <3>3. Claimed(ActiveItems(o))' = Claimed(ActiveItems(o))
        BY <1>1, <3>1 DEF Claimed, Shared, ActiveItems
      <3>4. \A d \in Clerk : Sharing(d, o)' =>
               /\ request'[d].version \in Nat /\ request'[d].version <= warranty'[o].version
               /\ request'[d].version # warranty'[o].version
        BY <1>1, <1>4, <1>7, <3>2, SharingAnswered DEF Account
      <3> QED BY <1>1, <1>4, <1>7, <3>2, <3>3, <3>4 DEF Account
    <2> QED BY <2>1, <2>2
  <1>8. ASSUME NEW yes \in BOOLEAN, WriteDecision(c, yes), o = p PROVE Account(o)'
    <2> DEFINE d == IF yes THEN "APPROVED" ELSE "REJECTED"
               a == IF yes THEN "DRAFT" ELSE "CONFIRMED"
    <2>1. warranty' = [warranty EXCEPT ![p] = [warranty[p] EXCEPT !.version = warranty[p].version + 1,
                          !.decision = d, !.allocation = a]]
      BY <1>8 DEF WriteDecision
    <2>2. d = "REJECTED" \/ a = "DRAFT"
      OBVIOUS
    <2> HIDE DEF p, d, a
    <2>3. warranty'[p].version = warranty[p].version + 1 /\ warranty'[p].decision = d
          /\ warranty'[p].allocation = a /\ warranty'[p].claim = warranty[p].claim
      BY <1>4, <1>8, <2>1 DEF WarrantyRow
    <2> QED BY <1>6, <1>8, <2>2, <2>3
  <1>9. ASSUME NEW covered, WriteShares(c, covered), o = p PROVE Account(o)'
    <2>1. warranty' = [warranty EXCEPT ![p] = [warranty[p] EXCEPT !.allocation = "DRAFT",
                          !.version = warranty[p].version + 1]]
      BY <1>9 DEF WriteShares
    <2> HIDE DEF p
    <2>2. warranty'[p].version = warranty[p].version + 1
          /\ warranty'[p].allocation = "DRAFT" /\ warranty'[p].claim = warranty[p].claim
      BY <1>4, <1>9, <2>1 DEF WarrantyRow
    <2> QED BY <1>6, <1>9, <2>2
  <1>10. CASE o = p /\ WriteConfirmation(c)
    <2>1. /\ warranty' = [warranty EXCEPT ![p] = [warranty[p] EXCEPT !.allocation = "CONFIRMED",
                             !.version = warranty[p].version + 1]]
          /\ share' = share /\ warranty[p].decision = "APPROVED"
          /\ Sharing(c, p) /\ request[c].version = warranty[p].version
      BY <1>10 DEF WriteConfirmation, SameVersion, Doing, Sharing
    <2> HIDE DEF p
    <2>2. /\ warranty'[p].version = warranty[p].version + 1
          /\ warranty'[p].allocation = "CONFIRMED" /\ warranty'[p].claim = warranty[p].claim
      BY <1>4, <1>10, <2>1 DEF WarrantyRow
    <2>3. Claimed(ActiveItems(o))' = Claimed(ActiveItems(o))
      BY <1>1, <2>1 DEF Claimed, Shared, ActiveItems
    <2>4. order[o].status = "invoiced" => warranty[o].allocation = "CONFIRMED"
      BY <1>4, <1>10, <2>1 DEF Account, Past
    <2>5. order[o].status = "invoiced" => warranty[o].claim = Claimed(ActiveItems(o))
      BY <1>4, <1>10, <2>1, <2>4 DEF Account
    <2>6. \A d \in Clerk : Sharing(d, o)' =>
             /\ request'[d].version \in Nat /\ request'[d].version <= warranty'[o].version
      BY <1>1, <1>4, <1>10, <2>2, SharingAnswered DEF Account
    <2> QED BY <1>1, <1>4, <1>10, <2>2, <2>3, <2>5, <2>6 DEF Account
  <1> QED BY <1>5, <1>7, <1>8, <1>9, <1>10

LEMMA AccountStep ==
  ASSUME IInv, Books, Next, NEW o \in Order
  PROVE  Account(o)'
  <1>1. ASSUME NEW p \in Order, (\E yes \in BOOLEAN : Create(p, yes)) \/ Invoice(p)
        PROVE  Account(o)'
    BY <1>1, CreateAccount, InvoiceAccount
  <1>2. CASE UNCHANGED <<warranty, share, item>>
    BY <1>1, <1>2, QuietAccount
  <1>3. CASE LineStep /\ Answers
    BY <1>3, LineAccount
  <1>4. CASE LineStep /\ ~ Answers
    <2>1. PICK d \in Clerk, late \in Late : Reads(d, late)
      BY <1>4, RequestWritten
    <2>2. UNCHANGED <<warranty, share, item>>
      BY <2>1 DEF Reads, money, parts
    <2> QED BY <1>2, <2>2
  <1> QED BY <1>1, <1>2, <1>3, <1>4, MoneyWritten, WarrantyAccount

-----------------------------------------------------------------------------
(* The types, the parts and the claims, from the first state on.           *)

\* an invoice never has a negative amount: the manufacturer takes no more than
\* what the lines are worth
LEMMA ClaimWithin ==
  ASSUME Books, NEW o \in Order,
         \A l \in Shared(ActiveItems(o)) : share[l] <= item[l].quantity
  PROVE  Billed(ActiveItems(o)) - Claimed(ActiveItems(o)) \in Nat
  <1> DEFINE A == ActiveItems(o)
             S == Shared(A)
             f == [l \in A |-> item[l].quantity]
  <1>1. IsFiniteSet(A) /\ IsFiniteSet(S) /\ S \subseteq A /\ A \subseteq Line
    BY ActiveFinite DEF Books, Shared
  <1>2. \A l \in A : f[l] \in Nat
    BY <1>1 DEF Books, Tallied, WellHandled, ItemRow
  <1>3. \A l \in S : share[l] \in Nat /\ share[l] <= f[l]
    BY <1>1 DEF Books, Typed, Shared
  <1>4. Billed(A) = SumFunctionOnSet(f, A) /\ Claimed(A) = SumFunctionOnSet(share, S)
    BY DEF Billed, Claimed
  <1> HIDE DEF A, S, f
  <1>5. \A l \in S : share[l] \in Int /\ f[l] \in Int /\ share[l] <= f[l]
    BY <1>1, <1>2, <1>3
  <1>6. SumFunctionOnSet(share, S) <= SumFunctionOnSet(f, S)
    BY <1>1, <1>5, SumMonotonic
  <1>7. SumFunctionOnSet(f, S) <= SumFunctionOnSet(f, A)
    BY <1>1, <1>2, SumSubset
  <1>8. \A l \in S : f[l] \in Nat
    BY <1>1, <1>2
  <1>9. /\ SumFunctionOnSet(f, A) \in Nat /\ SumFunctionOnSet(f, S) \in Nat
        /\ SumFunctionOnSet(share, S) \in Nat
    BY <1>1, <1>2, <1>3, <1>8, SumNat
  <1>10. Billed(A) - Claimed(A) \in Nat
    BY <1>4, <1>6, <1>7, <1>9
  <1> QED BY <1>10 DEF A

LEMMA BilledNat ==
  ASSUME Books, NEW o \in Order
  PROVE  Billed(ActiveItems(o)) \in Nat
  <1>1. IsFiniteSet(ActiveItems(o)) /\ ActiveItems(o) \subseteq Line
    BY ActiveFinite DEF Books
  <1>2. \A l \in ActiveItems(o) : [k \in ActiveItems(o) |-> item[k].quantity][l] \in Nat
    BY <1>1 DEF Books, Tallied, WellHandled, ItemRow
  <1> QED BY <1>1, <1>2, SumNat DEF Billed

LEMMA InvoicesTyped ==
  ASSUME IInv, Books, Next
  PROVE  invoices' \in Seq(InvoiceRow)
  <1>0. invoices \in Seq(InvoiceRow)
    BY DEF Books, Typed
  <1>1. ASSUME NEW o \in Order, NEW n \in Nat,
               invoices' = Append(invoices, [order |-> o, amount |-> n, paid |-> FALSE, live |-> TRUE])
        PROVE  invoices' \in Seq(InvoiceRow)
    <2>1. [order |-> o, amount |-> n, paid |-> FALSE, live |-> TRUE] \in InvoiceRow
      BY DEF InvoiceRow
    <2> QED BY <1>0, <1>1, <2>1, AppendProperties
  <1>2. ASSUME NEW o \in Order, Invoice(o) PROVE invoices' \in Seq(InvoiceRow)
    <2> DEFINE claim == IF warranty[o].decision = "APPROVED" THEN Claimed(ActiveItems(o)) ELSE 0
               n == Billed(ActiveItems(o)) - claim
    <2>1. invoices' = Append(invoices, [order |-> o, amount |-> n, paid |-> FALSE, live |-> TRUE])
      BY <1>2 DEF Invoice
    <2>2. n \in Nat
      <3>1. CASE warranty[o].decision = "APPROVED"
        <4>1. \A l \in Shared(ActiveItems(o)) : share[l] <= item[l].quantity
          BY <1>2, <3>1 DEF Invoice
        <4> QED BY <3>1, <4>1, ClaimWithin
      <3>2. CASE warranty[o].decision # "APPROVED"
        BY <3>2, BilledNat
      <3> QED BY <3>1, <3>2
    <2> HIDE DEF n
    <2> QED BY <1>1, <2>1, <2>2
  <1>3. ASSUME NEW o \in Order, ManualInvoice(o) PROVE invoices' \in Seq(InvoiceRow)
    <2>1. invoices' = Append(invoices, [order |-> o, amount |-> 1, paid |-> FALSE, live |-> TRUE])
      BY <1>3 DEF ManualInvoice, Invoicing
    <2> QED BY <1>1, <2>1
  <1>4. ASSUME NEW i \in DOMAIN invoices, Pay(i) \/ Void(i) PROVE invoices' \in Seq(InvoiceRow)
    <2>1. i \in 1..Len(invoices)
      BY <1>0, <1>4, LenProperties
    <2>2. invoices[i] \in InvoiceRow
      BY <1>0, <2>1, ElementOfSeq
    <2>3. PICK r \in InvoiceRow : invoices' = [invoices EXCEPT ![i] = r]
      <3>1. /\ [invoices[i] EXCEPT !.paid = TRUE] \in InvoiceRow
            /\ [invoices[i] EXCEPT !.live = FALSE] \in InvoiceRow
        BY <2>2 DEF InvoiceRow
      <3>2. CASE Pay(i)
        BY <3>1, <3>2 DEF Pay, Invoicing
      <3>3. CASE Void(i)
        BY <3>1, <3>3 DEF Void, Invoicing
      <3> QED BY <1>4, <3>2, <3>3
    <2> QED BY <1>0, <2>1, <2>3, ExceptSeq
  <1> QED BY <1>0, <1>2, <1>3, <1>4, InvoicesWritten

LEMMA WarrantyRowTyped ==
  ASSUME IInv, IInv', Books, Next
  PROVE  warranty' \in [Order -> WarrantyRow]
  <1>0. /\ warranty \in [Order -> WarrantyRow] /\ \A o \in Order : warranty[o].claim \in Nat
    BY DEF Books, Typed, WarrantyRow
  <1>1. PICK claims : warranty' \in Warranties(claims)
    BY DEF IInv, Types
  <1> SUFFICES ASSUME NEW o \in Order PROVE warranty'[o].claim \in Nat
    BY <1>1 DEF Warranties, WarrantyRow
  <1>2. CASE UNCHANGED <<warranty, share, item>>
    BY <1>0, <1>2
  <1>3. ASSUME NEW p \in Order, NEW yes \in BOOLEAN, Create(p, yes) PROVE warranty'[o].claim \in Nat
    <2>1. CASE yes
      <3>1. warranty' = [warranty EXCEPT ![p] = [warranty[p] EXCEPT !.decision = "PENDING"]]
        BY <1>3, <2>1 DEF Create
      <3> QED BY <1>0, <3>1 DEF WarrantyRow
    <2> QED BY <1>0, <1>3, <2>1 DEF Create
  <1>4. ASSUME NEW p \in Order, Invoice(p) PROVE warranty'[o].claim \in Nat
    <2> DEFINE claim == IF warranty[p].decision = "APPROVED" THEN Claimed(ActiveItems(p)) ELSE 0
               n == IF claim > 0 THEN claim ELSE warranty[p].claim
    <2>1. warranty' = [warranty EXCEPT ![p] = [warranty[p] EXCEPT !.claim = n]]
      BY <1>4 DEF Invoice
    <2>2. n \in Nat
      BY <1>0, ClaimedNat DEF Books
    <2> HIDE DEF n
    <2> QED BY <1>0, <2>1, <2>2 DEF WarrantyRow
  <1>5. ASSUME NEW p \in Order, NEW v, warranty' = [warranty EXCEPT ![p] = v], v.claim = warranty[p].claim
        PROVE  warranty'[o].claim \in Nat
    BY <1>0, <1>5
  <1>6. CASE LineStep
    <2>1. PICK l \in Line : warranty' = [warranty EXCEPT ![Of[l]] = Invalidated(Of[l])]
      BY <1>6 DEF LineStep, Invalidate
    <2>2. Of[l] \in Order /\ warranty[Of[l]] \in WarrantyRow
      BY <1>0, Lines
    <2>3. Invalidated(Of[l]).claim = warranty[Of[l]].claim
      BY <2>2 DEF Invalidated, WarrantyRow
    <2> QED BY <1>5, <2>1, <2>2, <2>3
  <1>7. ASSUME NEW c \in Clerk, request[c].order \in Order,
               \/ WriteWarranty(c) \/ \E yes \in BOOLEAN : WriteDecision(c, yes)
               \/ \E covered \in SUBSET Line : WriteShares(c, covered)
               \/ WriteConfirmation(c)
        PROVE  warranty'[o].claim \in Nat
    <2> DEFINE p == request[c].order
    <2>1. warranty[p] \in WarrantyRow
      BY <1>0, <1>7
    <2>2. PICK v : warranty' = [warranty EXCEPT ![p] = v]
      <3>1. CASE WriteWarranty(c) \/ WriteConfirmation(c)
        BY <3>1 DEF WriteWarranty, WriteConfirmation
      <3>2. CASE \E yes \in BOOLEAN : WriteDecision(c, yes)
        BY <3>2 DEF WriteDecision
      <3>3. CASE \E covered \in SUBSET Line : WriteShares(c, covered)
        BY <3>3 DEF WriteShares
      <3> QED BY <1>7, <3>1, <3>2, <3>3
    <2>3. warranty'[p].claim = warranty[p].claim
      <3>1. CASE WriteWarranty(c)
        <4>1. CASE warranty[p].decision = "none"
          <5>1. warranty' = [warranty EXCEPT ![p] = [warranty[p] EXCEPT !.decision = "PENDING"]]
            BY <3>1, <4>1 DEF WriteWarranty
          <5> HIDE DEF p
          <5> QED BY <1>0, <2>1, <5>1 DEF WarrantyRow
        <4>2. CASE warranty[p].decision # "none"
          <5>1. warranty' = [warranty EXCEPT ![p] = [warranty[p] EXCEPT !.version = warranty[p].version + 1]]
            BY <3>1, <4>2 DEF WriteWarranty
          <5> HIDE DEF p
          <5> QED BY <1>0, <2>1, <5>1 DEF WarrantyRow
        <4> QED BY <4>1, <4>2
      <3>2. ASSUME NEW yes \in BOOLEAN, WriteDecision(c, yes)
            PROVE  warranty'[p].claim = warranty[p].claim
        <4> DEFINE d == IF yes THEN "APPROVED" ELSE "REJECTED"
                   a == IF yes THEN "DRAFT" ELSE "CONFIRMED"
        <4>1. warranty' = [warranty EXCEPT ![p] = [warranty[p] EXCEPT !.version = warranty[p].version + 1,
                              !.decision = d, !.allocation = a]]
          BY <3>2 DEF WriteDecision
        <4> HIDE DEF p, d, a
        <4> QED BY <1>0, <2>1, <4>1 DEF WarrantyRow
      <3>3. ASSUME NEW covered \in SUBSET Line, WriteShares(c, covered)
            PROVE  warranty'[p].claim = warranty[p].claim
        <4>1. warranty' = [warranty EXCEPT ![p] = [warranty[p] EXCEPT !.allocation = "DRAFT",
                              !.version = warranty[p].version + 1]]
          BY <3>3 DEF WriteShares
        <4> HIDE DEF p
        <4> QED BY <1>0, <2>1, <4>1 DEF WarrantyRow
      <3>4. CASE WriteConfirmation(c)
        <4>1. warranty' = [warranty EXCEPT ![p] = [warranty[p] EXCEPT !.allocation = "CONFIRMED",
                              !.version = warranty[p].version + 1]]
          BY <3>4 DEF WriteConfirmation
        <4> HIDE DEF p
        <4> QED BY <1>0, <2>1, <4>1 DEF WarrantyRow
      <3> QED BY <1>7, <3>1, <3>2, <3>3, <3>4
    <2>4. v.claim = warranty[p].claim
      <3>1. p \in Order
        BY <1>7
      <3> HIDE DEF p
      <3> QED BY <1>0, <2>2, <2>3, <3>1
    <2>5. p \in Order
      BY <1>7
    <2> HIDE DEF p
    <2> QED BY <1>5, <2>2, <2>4, <2>5
  <1> QED BY <1>2, <1>3, <1>4, <1>6, <1>7, MoneyWritten

LEMMA ShareTyped ==
  ASSUME IInv, Books, Next
  PROVE  share' \in [Line -> Nat \cup {None}]
  <1>0. share \in [Line -> Nat \cup {None}] /\ \A l \in Line : item[l].quantity \in Nat
    BY DEF Books, Typed, Tallied, WellHandled, ItemRow
  <1>1. CASE share' = share
    BY <1>0, <1>1
  <1>2. ASSUME NEW c \in Clerk, NEW yes, WriteDecision(c, yes)
        PROVE  share' \in [Line -> Nat \cup {None}]
    BY <1>0, <1>2 DEF WriteDecision
  <1>3. ASSUME NEW c \in Clerk, NEW covered, WriteShares(c, covered)
        PROVE  share' \in [Line -> Nat \cup {None}]
    BY <1>0, <1>3 DEF WriteShares
  <1>4. ASSUME NEW c \in Clerk, WriteWarranty(c) \/ WriteConfirmation(c) PROVE share' = share
    BY <1>4 DEF WriteWarranty, WriteConfirmation
  <1>5. ASSUME NEW o \in Order, (\E yes \in BOOLEAN : Create(o, yes)) \/ Invoice(o) PROVE share' = share
    BY <1>5 DEF Create, Invoice
  <1>6. LineStep => share' = share
    BY DEF LineStep
  <1> QED BY <1>1, <1>2, <1>3, <1>4, <1>5, <1>6, MoneyWritten

LEMMA RowsTyped ==
  ASSUME IInv, Books, Next
  PROVE  /\ estimate' \subseteq Labor \cup Part
         /\ request' \in [Clerk -> Late \cup {None}]
         /\ plan' \in Plan
  <1>1. estimate' \subseteq Labor \cup Part
    BY EstimateWritten DEF AddEstimate, RemoveEstimate, Books, Typed
  <1>2. request' \in [Clerk -> Late \cup {None}]
    <2>1. request \in [Clerk -> Late \cup {None}]
      BY DEF Books, Typed
    <2>2. CASE Answers
      BY <2>1, <2>2 DEF Answers
    <2>3. ASSUME NEW c \in Clerk, NEW late \in Late, Reads(c, late)
          PROVE  request' \in [Clerk -> Late \cup {None}]
      BY <2>1, <2>3 DEF Reads
    <2> QED BY <2>2, <2>3, RequestWritten
  <1>3. plan' \in Plan
    <2>1. plan \in Plan
      BY DEF Books, Typed
    <2>2. ASSUME NEW errand \in Errand, Does(errand) PROVE plan' \in Plan
      <3>1. plan.left \in [Errand -> Nat] /\ plan.left[errand] > 0
        BY <2>1, <2>2 DEF Does, Plan
      <3>2. plan.left[errand] - 1 \in Nat
        BY <3>1
      <3>3. PICK n \in Nat : plan.left[errand] - 1 = n
        BY <3>2
      <3>4. plan' = [plan EXCEPT !.left = [plan.left EXCEPT ![errand] = n]]
        BY <2>2, <3>3 DEF Does
      <3>5. [plan.left EXCEPT ![errand] = n] \in [Errand -> Nat]
        BY <3>1
      <3> QED BY <2>1, <3>4, <3>5 DEF Plan
    <2> QED BY <2>1, <2>2, PlanWritten
  <1> QED BY <1>1, <1>2, <1>3

LEMMA TalliedStep ==
  ASSUME IInv, Tallied, Next
  PROVE  Tallied'
  <1>1. CASE UNCHANGED parts
    BY <1>1 DEF Tallied, parts
  <1>2. CASE \/ \E l \in Labor : PutLabor(l)
             \/ \E l \in Extra : PutPart(l)
             \/ \E c \in Clerk : WriteEdit(c) /\ request[c].line \in Line /\ request[c].quantity \in Nat
    BY <1>2, LineTallied
  <1> QED BY <1>1, <1>2, PartsWritten, CleanupTallied, ReservingTallied, ReleaseTallied,
             ConsumeTallied, StockTallied

LEMMA BooksInitially == Init => Books
  <1> SUFFICES ASSUME Init PROVE Books
    OBVIOUS
  <1>1. Typed
    <2>1. warranty \in [Order -> WarrantyRow]
      BY DEF Init, WarrantyRow
    <2>2. share \in [Line -> Nat \cup {None}] /\ estimate \subseteq Labor \cup Part
          /\ request \in [Clerk -> Late \cup {None}]
      BY DEF Init
    <2>3. invoices \in Seq(InvoiceRow) /\ plan \in Plan
      BY WorkshopAssumption DEF Init
    <2> QED BY <2>1, <2>2, <2>3 DEF Typed
  <1>2. Tallied
    <2>1. /\ reservation \in [Part \cup Free -> ReservationRow] /\ item \in [Line -> ItemRow]
          /\ \A l \in Part \cup Free : reservation[l].consumed = 0 /\ reservation[l].status = "none"
          /\ \A l \in Line : item[l].status = "none" /\ item[l].quantity = 0
      BY DEF Init, ReservationRow, ItemRow
    <2>2. Booked(reservation) = {} /\ Handled(item) = {} /\ LiveIn(reservation) = {} /\ FittedIn(item) = {}
      BY <2>1 DEF Booked, Handled, LiveIn, FittedIn
    <2>3. WellBooked(reservation)
      BY <2>1, <2>2, FS_EmptySet, Lines DEF WellBooked
    <2>4. WellHandled(item)
      BY <2>1, <2>2, FS_EmptySet DEF WellHandled
    <2>5. KeptIn(reservation) = 0 /\ BilledIn(item) = 0
      BY <2>2, SumEmpty DEF KeptIn, BilledIn
    <2>6. /\ stock \in [current : Nat, reserved : Nat, supplied : Int]
          /\ stock.reserved = 0 /\ stock.current = MaxStock /\ stock.supplied = MaxStock
      BY WorkshopAssumption DEF Init
    <2> QED BY <2>3, <2>4, <2>5, <2>6, WorkshopAssumption DEF Tallied
  <1>3. \A o \in Order : Account(o)
    BY DEF Init, Account, Sharing, Past
  <1> QED BY <1>1, <1>2, <1>3 DEF Books

\* Books holds of every reachable state.
THEOREM BooksKept == Spec => []Books
  <1>1. ASSUME IInv, IInv', Books, [Next]_vars PROVE Books'
    <2>1. CASE Next
      <3>1. Typed'
        BY <1>1, <2>1, WarrantyRowTyped, ShareTyped, InvoicesTyped, RowsTyped DEF Typed
      <3>2. Tallied'
        BY <1>1, <2>1, TalliedStep DEF Books
      <3>3. \A o \in Order : Account(o)'
        BY <1>1, <2>1, AccountStep
      <3> QED BY <3>1, <3>2, <3>3 DEF Books
    <2>2. CASE UNCHANGED vars
      <3>1. UNCHANGED <<order, warranty, share, invoices, estimate, reservation, item, stock, request, plan>>
        BY <2>2 DEF vars, money, work, parts
      <3>2. Typed' /\ Tallied'
        BY <1>1, <3>1 DEF Books, Typed, Tallied
      <3>3. \A o \in Order : Claimed(ActiveItems(o))' = Claimed(ActiveItems(o))
        BY <3>1 DEF Claimed, Shared, ActiveItems
      <3>4. \A o \in Order : Account(o)'
        BY <1>1, <3>1, <3>3 DEF Books, Account, Sharing
      <3> QED BY <3>2, <3>4 DEF Books
    <2> QED BY <1>1, <2>1, <2>2
  <1> QED BY <1>1, BooksInitially, Invariance, PTL DEF Spec

\* Every row keeps its type: no stock, share or amount of an invoice is ever
\* negative, and a clerk never writes what is not a request of the routes.
THEOREM TypeCorrect == Spec => []TypeOK
  <1>1. IInv /\ Books => TypeOK
    BY DEF IInv, Types, Books, Typed, Tallied, TypeOK
  <1> QED BY <1>1, Invariance, BooksKept, PTL

\* The reserved stock is what the live reservations still hold, and no part is
\* both on an order and in the stock.
THEOREM PartsCounted == Spec => []PartsOnce
  <1>1. Books => PartsOnce
    BY TalliedOnce DEF Books
  <1> QED BY <1>1, BooksKept, PTL

\* A car leaves with its control passed, an invoice settled, and the claim on the
\* manufacturer equal to what its lines share out.
THEOREM HandoverTrue == Spec => ClaimTrueAtHandover
  <1> DEFINE Leaves(o) ==
        order[o].status # "delivered" /\ order'[o].status = "delivered" =>
           /\ order[o].passed
           /\ \E i \in LiveInvoices(o) : Settled(i)
           /\ warranty[o].decision = "APPROVED" => warranty[o].claim = Claimed(ActiveItems(o))
  <1>1. ASSUME IInv, Books, [Next]_vars, NEW o \in Order PROVE Leaves(o)
    <2> SUFFICES ASSUME order[o].status # "delivered", order'[o].status = "delivered"
                 PROVE  /\ order[o].passed
                        /\ \E i \in LiveInvoices(o) : Settled(i)
                        /\ warranty[o].decision = "APPROVED" => warranty[o].claim = Claimed(ActiveItems(o))
      OBVIOUS
    <2>1. Next
      BY <1>1 DEF vars
    <2>2. ASSUME NEW next, Moves(o, next) PROVE order'[o].status = next
      BY <1>1, <2>2 DEF Moves, IInv, Types, OrderRow
    <2>3. Handover(o)
      <3>1. ~ \E yes \in BOOLEAN : Create(o, yes)
        BY <2>2 DEF Create
      <3>2. ~ Invoice(o)
        BY <2>2 DEF Invoice
      <3>3. <<order[o].status, order'[o].status>> \notin Transitions
        <4> DEFINE from == order[o].status
                   next == order'[o].status
        <4>1. next = "delivered"
          OBVIOUS
        <4> HIDE DEF from, next
        <4>2. <<from, next>> \notin Transitions
          BY <4>1, EarlyBefore
        <4> QED BY <4>2 DEF from, next
      <3> QED BY <1>1, <2>1, <3>1, <3>2, <3>3, OrderWritten
    <2>4. /\ order[o].passed /\ order[o].status = "invoiced"
          /\ LiveInvoices(o) # {} /\ Settled(Max(LiveInvoices(o)))
          /\ warranty[o].decision = "APPROVED" => warranty[o].allocation = "CONFIRMED"
      BY <2>3 DEF Handover
    <2>5. Max(LiveInvoices(o)) \in LiveInvoices(o)
      <3>1. LiveInvoices(o) \subseteq 1..Len(invoices) /\ Len(invoices) \in Nat
        BY <1>1, LenProperties DEF LiveInvoices, Books, Typed
      <3>2. IsFiniteSet(LiveInvoices(o)) /\ \A i \in LiveInvoices(o) : i \in Int
        <4>1. ASSUME NEW n \in Nat PROVE IsFiniteSet(1..n) /\ 1..n \subseteq Int
          BY FS_Interval
        <4> QED BY <3>1, <4>1, FS_Subset
      <3>3. \E i \in LiveInvoices(o) : \A j \in LiveInvoices(o) : i >= j
        BY <2>4, <3>2, Largest
      <3> QED BY <3>3 DEF Max
    <2>6. warranty[o].decision = "APPROVED" => warranty[o].claim = Claimed(ActiveItems(o))
      BY <1>1, <2>4 DEF Books, Account
    <2> QED BY <2>4, <2>5, <2>6
  <1>2. IInv /\ Books /\ [Next]_vars =>
           [\A o \in Order : order[o].status # "delivered" /\ order'[o].status = "delivered" =>
               /\ order[o].passed
               /\ \E i \in LiveInvoices(o) : Settled(i)
               /\ warranty[o].decision = "APPROVED" => warranty[o].claim = Claimed(ActiveItems(o))]_vars
    BY <1>1
  <1> QED BY <1>2, Invariance, BooksKept, PTL DEF Spec, ClaimTrueAtHandover

=============================================================================
