------------------------------ MODULE SalesProofs ------------------------------
(***************************************************************************)
(* What Sales guarantees for every number of cars, clerks, sales, invoices *)
(* and deliveries, all amounts and every plan.                             *)
(***************************************************************************)
EXTENDS Sales, SumTheorems, SequenceTheorems

\* an invoice by itself
InvoiceSound(v) ==
    /\ v.refunded <= v.received /\ v.refunded <= v.credited
    /\ v.credited <= v.total /\ v.received <= v.total
    /\ v.status \in {"issued", "partially_paid", "paid"} =>
           /\ v.paid = Over(v.received, v.refunded)
           /\ v.balance = Over(Over(v.total, v.credited), v.paid)
           /\ v.status = IF v.balance = 0 THEN "paid"
                         ELSE IF v.paid > 0 THEN "partially_paid" ELSE "issued"
    /\ v.status = "draft" => /\ v.received = 0 /\ v.credited = 0 /\ v.paid = 0
                             /\ v.balance = v.total /\ v.total > 0
    /\ v.status = "cancelled" => Over(v.received, v.refunded) = 0 /\ v.balance = 0

\* the invoices of a sale are sound until its return is settled, which may be
\* on a view they were something else in
SettledStatus == {"FINANCIALLY_RESOLVED", "VEHICLE_RECEIVED", "STOCK_DECIDED", "CLOSED"}
Resolved(s) == \E r \in DOMAIN returns : /\ deliveries[returns[r].delivery].sale = s
                                         /\ returns[r].status \in SettledStatus
Money == \A i \in DOMAIN invoices : Resolved(invoices[i].sale) \/ InvoiceSound(invoices[i])

\* a step makes and leaves an invoice sound, unless it misread it
RowsKept ==
    \A i \in DOMAIN invoices' :
        (i \in DOMAIN invoices => InvoiceSound(invoices[i]))
            => InvoiceSound(invoices'[i]) \/ Misread(i)

\* an invoice and its sale
InvoicesOfSales ==
    \A i \in DOMAIN invoices :
        /\ invoices[i].sale \in DOMAIN sales
        /\ sales[invoices[i].sale].status = "cancelled" => invoices[i].status = "cancelled"

\* a delivery and its sale
DeliveriesOfSales ==
    /\ \A d \in DOMAIN deliveries :
          /\ deliveries[d].sale \in DOMAIN sales
          /\ sales[deliveries[d].sale].status \in {"ready_for_delivery", "delivered"}
          /\ deliveries[d].signed => sales[deliveries[d].sale].status = "delivered"
          /\ deliveries[d].status = "delivered" => deliveries[d].signed
    /\ \A d, e \in DOMAIN deliveries :
          deliveries[d].signed /\ deliveries[e].signed /\ deliveries[d].sale = deliveries[e].sale
              => d = e
    /\ \A s \in DOMAIN sales : sales[s].status = "delivered" =>
          \E d \in DOMAIN deliveries : deliveries[d].sale = s /\ deliveries[d].signed

\* a return is of a car handed over, and the only one of its delivery
ReturnsOfDeliveries ==
    /\ \A r \in DOMAIN returns : /\ returns[r].delivery \in DOMAIN deliveries
                                 /\ deliveries[returns[r].delivery].signed
    /\ \A r, q \in DOMAIN returns : returns[r].delivery = returns[q].delivery => r = q

\* a step keeps the returns with their deliveries, and those settled so
ReturnsKept ==
    \A r \in DOMAIN returns : /\ r \in DOMAIN returns' /\ returns'[r].delivery = returns[r].delivery
                              /\ returns[r].status \in SettledStatus =>
                                     returns'[r].status \in SettledStatus

Warranties == \A s \in DOMAIN sales : sales[s].warranty = "ACTIVE" => sales[s].status = "delivered"

\* what a clerk is about to write is about a row that exists
Requests == \A c \in Clerk : request[c] # None =>
    /\ request[c].op \in {"reschedule", "papers"} => request[c].id \in DOMAIN deliveries
    /\ request[c].op = "warranty" => request[c].id \in DOMAIN sales
    /\ request[c].op = "settlement" => request[c].id \in DOMAIN returns

IInv ==
    /\ TypeOK
    /\ Money
    /\ InvoicesOfSales
    /\ DeliveriesOfSales
    /\ ReturnsOfDeliveries
    /\ Warranties
    /\ Requests

-----------------------------------------------------------------------------
(* Rows of a table.                                                        *)

LEMMA TableRows ==
  ASSUME NEW R, NEW q \in Seq(R)
  PROVE  /\ DOMAIN q = 1..Len(q) /\ Len(q) \in Nat /\ IsFiniteSet(DOMAIN q)
         /\ \A i \in DOMAIN q : q[i] \in R
  <1>1. DOMAIN q = 1..Len(q) /\ Len(q) \in Nat
    BY LenProperties
  <1>2. IsFiniteSet(1..Len(q))
    BY <1>1, FS_Interval
  <1> QED BY <1>1, <1>2, ElementOfSeq

LEMMA RowSet ==
  ASSUME NEW R, NEW q \in Seq(R), NEW i \in DOMAIN q, NEW w \in R, NEW p,
         p = [q EXCEPT ![i] = w]
  PROVE  /\ p \in Seq(R) /\ Len(p) = Len(q) /\ DOMAIN p = DOMAIN q
         /\ p[i] = w /\ \A j \in DOMAIN q : j # i => p[j] = q[j]
  <1>1. DOMAIN q = 1..Len(q) /\ i \in 1..Len(q)
    BY TableRows
  <1>2. /\ p \in Seq(R) /\ Len(p) = Len(q)
        /\ \A j \in 1..Len(q) : p[j] = IF j = i THEN w ELSE q[j]
    BY <1>1, ExceptSeq
  <1>3. DOMAIN p = 1..Len(p)
    BY <1>2, LenProperties
  <1> QED BY <1>1, <1>2, <1>3

LEMMA RowAdded ==
  ASSUME NEW R, NEW q \in Seq(R), NEW w \in R, NEW p, p = Append(q, w)
  PROVE  /\ p \in Seq(R) /\ Len(p) = Len(q) + 1
         /\ DOMAIN q \subseteq DOMAIN p /\ DOMAIN p = DOMAIN q \cup {Len(q) + 1}
         /\ Len(q) + 1 \notin DOMAIN q
         /\ p[Len(q) + 1] = w /\ \A j \in DOMAIN q : p[j] = q[j]
  <1>1. DOMAIN q = 1..Len(q) /\ Len(q) \in Nat
    BY TableRows
  <1>2. /\ p \in Seq(R) /\ Len(p) = Len(q) + 1 /\ p[Len(q) + 1] = w
        /\ \A j \in 1..Len(q) : p[j] = q[j]
    BY <1>1, AppendProperties
  <1>3. DOMAIN p = 1..Len(p)
    BY <1>2, LenProperties
  <1>4. 1..Len(p) = (1..Len(q)) \cup {Len(q) + 1} /\ Len(q) + 1 \notin 1..Len(q)
    BY <1>1, <1>2
  <1> QED BY <1>1, <1>2, <1>3, <1>4

-----------------------------------------------------------------------------
(* Invoices by themselves.                                                 *)

LEMMA Amounts ==
  \A a, b \in Nat : /\ Over(a, b) \in Nat /\ (a >= b => Over(a, b) = a - b) /\ (a <= b => Over(a, b) = 0)
                    /\ Least(a, b) \in Nat /\ Least(a, b) <= a /\ Least(a, b) <= b
                    /\ (Least(a, b) = a \/ Least(a, b) = b)
  BY DEF Over, Least

LEMMA RecalculatedSound ==
  ASSUME NEW v \in InvoiceRow
  PROVE  /\ Recalculated(v) \in InvoiceRow
         /\ v.refunded <= v.received /\ v.refunded <= v.credited
            /\ v.credited <= v.total /\ v.received <= v.total =>
                InvoiceSound(Recalculated(v))
         /\ Recalculated(v).sale = v.sale /\ Recalculated(v).total = v.total
         /\ Recalculated(v).type = v.type
         /\ Recalculated(v).received = v.received /\ Recalculated(v).refunded = v.refunded
         /\ Recalculated(v).credited = v.credited
         /\ Recalculated(v).balance = Over(Over(v.total, v.credited), Over(v.received, v.refunded))
         /\ Recalculated(v).status \in {"issued", "partially_paid", "paid"}
         /\ Recalculated(v) = [v EXCEPT !.paid = Recalculated(v).paid,
                                        !.balance = Recalculated(v).balance,
                                        !.status = Recalculated(v).status]
  <1> DEFINE paid == Over(v.received, v.refunded)
             balance == Over(Over(v.total, v.credited), paid)
             status == IF balance = 0 THEN "paid"
                       ELSE IF paid > 0 THEN "partially_paid" ELSE "issued"
             w == [v EXCEPT !.paid = paid, !.balance = balance, !.status = status]
  <1>1. Recalculated(v) = w
    BY DEF Recalculated
  <1>2. v.total \in Nat /\ v.received \in Nat /\ v.refunded \in Nat /\ v.credited \in Nat
    BY DEF InvoiceRow
  <1>3. paid \in Nat /\ balance \in Nat
    BY <1>2, Amounts
  <1>4. status \in {"issued", "partially_paid", "paid"}
    OBVIOUS
  <1>5. /\ w.paid = paid /\ w.balance = balance /\ w.status = status
        /\ w.sale = v.sale /\ w.total = v.total /\ w.type = v.type
        /\ w.received = v.received /\ w.refunded = v.refunded /\ w.credited = v.credited
    BY DEF InvoiceRow
  <1>6. w \in InvoiceRow
    <2> HIDE DEF paid, balance, status
    <2> QED BY <1>3, <1>4 DEF InvoiceRow, InvoiceStatus
  <1>7. ASSUME v.refunded <= v.received, v.refunded <= v.credited, v.credited <= v.total,
               v.received <= v.total
        PROVE  InvoiceSound(w)
    <2> HIDE DEF w
    <2>1. w.status # "draft" /\ w.status # "cancelled"
      BY <1>4, <1>5
    <2> QED BY <1>5, <1>7, <2>1 DEF InvoiceSound
  <1>8. w = [v EXCEPT !.paid = w.paid, !.balance = w.balance, !.status = w.status]
    BY <1>5
  <1> HIDE DEF w
  <1> QED BY <1>1, <1>4, <1>5, <1>6, <1>7, <1>8

\* the fields of a row
LEMMA InvoiceFields ==
  ASSUME NEW v \in InvoiceRow
  PROVE  /\ v.sale \in 1..MaxSale /\ v.type \in {"vehicle", "other"} /\ v.status \in InvoiceStatus
         /\ v.total \in Nat /\ v.paid \in Nat /\ v.balance \in Nat
         /\ v.received \in Nat /\ v.refunded \in Nat /\ v.credited \in Nat
  BY DEF InvoiceRow

LEMMA CancelledSound ==
  ASSUME NEW v \in InvoiceRow, Over(v.received, v.refunded) = 0, NEW w,
         w = [v EXCEPT !.status = "cancelled", !.balance = 0]
  PROVE  /\ w \in InvoiceRow /\ (InvoiceSound(v) => InvoiceSound(w))
         /\ w.sale = v.sale /\ w.status = "cancelled"
  <1>1. w \in InvoiceRow
    BY DEF InvoiceRow, InvoiceStatus
  <1>2. /\ w.status = "cancelled" /\ w.balance = 0 /\ w.sale = v.sale /\ w.total = v.total
        /\ w.received = v.received /\ w.refunded = v.refunded /\ w.credited = v.credited
    BY DEF InvoiceRow
  <1> QED BY <1>1, <1>2 DEF InvoiceSound

LEMMA NewSound ==
  ASSUME NEW s \in 1..MaxSale, NEW type \in {"vehicle", "other"}, NEW status \in {"draft", "issued"},
         NEW total \in Nat, total > 0, NEW w, w = NewInvoice(s, type, status, total)
  PROVE  /\ w \in InvoiceRow /\ InvoiceSound(w) /\ w.sale = s
  <1>1. w \in InvoiceRow
    BY DEF NewInvoice, InvoiceRow, InvoiceStatus
  <1>2. /\ w.sale = s /\ w.status = status /\ w.total = total /\ w.paid = 0 /\ w.balance = total
        /\ w.received = 0 /\ w.refunded = 0 /\ w.credited = 0
    BY DEF NewInvoice
  <1>3. Over(0, 0) = 0 /\ Over(total, 0) = total
    BY Amounts
  <1> QED BY <1>1, <1>2, <1>3 DEF InvoiceSound

LEMMA EditedSound ==
  ASSUME NEW v \in InvoiceRow, v.status = "draft", NEW total \in Nat, total > 0,
         NEW w, w = [v EXCEPT !.total = total, !.balance = total]
  PROVE  /\ w \in InvoiceRow /\ (InvoiceSound(v) => InvoiceSound(w)) /\ w.sale = v.sale
  <1>1. w \in InvoiceRow
    BY DEF InvoiceRow
  <1>2. /\ w.status = "draft" /\ w.sale = v.sale /\ w.total = total /\ w.balance = total
        /\ w.paid = v.paid
        /\ w.received = v.received /\ w.refunded = v.refunded /\ w.credited = v.credited
    BY DEF InvoiceRow
  <1> QED BY <1>1, <1>2, InvoiceFields DEF InvoiceSound

LEMMA IssuedSound ==
  ASSUME NEW v \in InvoiceRow, v.status = "draft",
         NEW w, w = [v EXCEPT !.status = "issued"]
  PROVE  /\ w \in InvoiceRow /\ (InvoiceSound(v) => InvoiceSound(w)) /\ w.sale = v.sale
  <1>1. w \in InvoiceRow
    BY DEF InvoiceRow, InvoiceStatus
  <1>2. /\ w.status = "issued" /\ w.sale = v.sale /\ w.total = v.total /\ w.balance = v.balance
        /\ w.paid = v.paid
        /\ w.received = v.received /\ w.refunded = v.refunded /\ w.credited = v.credited
    BY DEF InvoiceRow
  <1>3. ASSUME InvoiceSound(v) PROVE InvoiceSound(w)
    <2>1. /\ v.received = 0 /\ v.credited = 0 /\ v.refunded = 0 /\ v.paid = 0
          /\ v.balance = v.total /\ v.total > 0 /\ v.total \in Nat
      BY <1>3, InvoiceFields DEF InvoiceSound
    <2>2. Over(0, 0) = 0 /\ Over(v.total, 0) = v.total
      BY <2>1, Amounts
    <2> QED BY <1>1, <1>2, <2>1, <2>2 DEF InvoiceSound
  <1> QED BY <1>1, <1>2, <1>3

LEMMA PaidSound ==
  ASSUME NEW v \in InvoiceRow, v.status \in {"issued", "partially_paid"},
         NEW amount \in Nat, amount > 0, amount <= v.balance,
         NEW status \in {"paid", "partially_paid"}, status = "paid" <=> v.balance - amount = 0,
         NEW w, w = [v EXCEPT !.received = @ + amount, !.paid = @ + amount,
                              !.balance = v.balance - amount, !.status = status]
  PROVE  /\ w \in InvoiceRow /\ (InvoiceSound(v) => InvoiceSound(w)) /\ w.sale = v.sale
         /\ w.status # "cancelled"
  <1> DEFINE balance == v.balance - amount
             due == Over(v.total, v.credited)
             paid == Over(v.received, v.refunded)
  <1>1. /\ v.total \in Nat /\ v.paid \in Nat /\ v.balance \in Nat
        /\ v.received \in Nat /\ v.refunded \in Nat /\ v.credited \in Nat
    BY InvoiceFields
  <1>2. balance \in Nat /\ status \in {"paid", "partially_paid"}
    BY <1>1
  <1>3. w = [v EXCEPT !.received = v.received + amount, !.paid = v.paid + amount,
                      !.balance = balance, !.status = status]
    BY DEF InvoiceRow
  <1>4. /\ w.status = status /\ w.balance = balance /\ w.paid = v.paid + amount
        /\ w.received = v.received + amount /\ w.refunded = v.refunded
        /\ w.credited = v.credited /\ w.total = v.total /\ w.sale = v.sale
    BY <1>3 DEF InvoiceRow
  <1>5. w \in InvoiceRow
    <2>1. v.received + amount \in Nat /\ v.paid + amount \in Nat
      BY <1>1
    <2> HIDE DEF balance
    <2> QED BY <1>2, <1>3, <2>1 DEF InvoiceRow, InvoiceStatus
  <1>6. w.status # "draft" /\ w.status # "cancelled"
    BY <1>2, <1>4
  <1>7. ASSUME InvoiceSound(v) PROVE InvoiceSound(w)
    <2>1. /\ v.paid = paid /\ v.balance = Over(due, paid)
          /\ v.refunded <= v.received /\ v.refunded <= v.credited /\ v.credited <= v.total
      BY <1>7 DEF InvoiceSound
    <2>2. due = v.total - v.credited /\ paid = v.received - v.refunded
      BY <1>1, <2>1, Amounts
    <2>3. v.balance = due - paid
      <3>1. due \in Nat /\ paid \in Nat
        BY <1>1, Amounts
      <3>2. Over(due, paid) > 0
        BY <1>1, <2>1
      <3> HIDE DEF due, paid
      <3> QED BY <2>1, <3>1, <3>2 DEF Over
    <2>4. due \in Nat /\ v.paid = v.received - v.refunded /\ v.paid + amount <= due
      BY <1>1, <2>1, <2>2, <2>3
    <2>5. /\ balance = due - (v.paid + amount) /\ v.refunded <= v.received + amount
          /\ v.received + amount <= v.total
      BY <1>1, <2>1, <2>2, <2>3
    <2>6. Over(v.received + amount, v.refunded) = v.paid + amount
      BY <1>1, <2>4, <2>5 DEF Over
    <2>7. Over(due, v.paid + amount) = balance
      <3> HIDE DEF due, balance
      <3> QED BY <1>1, <2>4, <2>5 DEF Over
    <2>8. status = IF balance = 0 THEN "paid"
                   ELSE IF v.paid + amount > 0 THEN "partially_paid" ELSE "issued"
      BY <1>1
    <2> HIDE DEF balance
    <2> QED BY <1>4, <1>6, <2>1, <2>5, <2>6, <2>7, <2>8 DEF InvoiceSound
  <1> HIDE DEF balance
  <1> QED BY <1>4, <1>5, <1>6, <1>7

LEMMA CreditedSound ==
  ASSUME NEW v \in InvoiceRow, NEW amount \in Nat,
         amount <= v.total - v.credited, NEW w,
         w = Recalculated([v EXCEPT !.credited = @ + amount])
  PROVE  /\ w \in InvoiceRow /\ (InvoiceSound(v) => InvoiceSound(w)) /\ w.sale = v.sale
  <1> DEFINE u == [v EXCEPT !.credited = v.credited + amount]
  <1>1. u \in InvoiceRow /\ u.credited = v.credited + amount /\ u.total = v.total
        /\ u.received = v.received /\ u.refunded = v.refunded /\ u.sale = v.sale
    BY DEF InvoiceRow
  <1>2. w = Recalculated(u)
    OBVIOUS
  <1> HIDE DEF u
  <1>3. InvoiceSound(v) => /\ u.refunded <= u.received /\ u.refunded <= u.credited
                           /\ u.credited <= u.total /\ u.received <= u.total
    BY <1>1, InvoiceFields DEF InvoiceSound
  <1> QED BY <1>1, <1>2, <1>3, RecalculatedSound

LEMMA RefundedSound ==
  ASSUME NEW v \in InvoiceRow, v.refunded < v.received, v.refunded < v.credited,
         NEW w, w = Recalculated([v EXCEPT !.refunded = @ + 1])
  PROVE  /\ w \in InvoiceRow /\ (InvoiceSound(v) => InvoiceSound(w)) /\ w.sale = v.sale
         /\ InvoiceSound(v) => v.status # "cancelled"
  <1> DEFINE u == [v EXCEPT !.refunded = v.refunded + 1]
  <1>1. u \in InvoiceRow /\ u.credited = v.credited /\ u.total = v.total
        /\ u.received = v.received /\ u.refunded = v.refunded + 1 /\ u.sale = v.sale
    BY DEF InvoiceRow
  <1>2. w = Recalculated(u)
    OBVIOUS
  <1> HIDE DEF u
  <1>3. InvoiceSound(v) => /\ u.refunded <= u.received /\ u.refunded <= u.credited
                           /\ u.credited <= u.total /\ u.received <= u.total
    BY <1>1, InvoiceFields DEF InvoiceSound
  <1>4. InvoiceSound(v) => v.status # "cancelled"
    BY InvoiceFields DEF InvoiceSound, Over
  <1> QED BY <1>1, <1>2, <1>3, <1>4, RecalculatedSound

\* an invoice of a return that is settled, of which kept is kept
SettledRow(v, kept) ==
    LET credit == Over(v.total, v.credited) - kept
        refund == Least(credit, Over(Over(v.received, v.refunded), kept))
    IN IF credit = 0 THEN v
       ELSE Recalculated([v EXCEPT !.credited = @ + credit, !.refunded = @ + refund])

LEMMA SettledSound ==
  ASSUME NEW v \in InvoiceRow, InvoiceSound(v), v.status \notin {"draft", "cancelled"},
         NEW kept \in Nat, kept <= Over(v.total, v.credited), kept <= Over(v.received, v.refunded),
         NEW w, w = SettledRow(v, kept)
  PROVE  /\ w \in InvoiceRow /\ InvoiceSound(w) /\ w.sale = v.sale
         /\ w.status # "cancelled"
         /\ w.credited > v.credited => /\ w.balance = 0
                                       /\ Over(w.received, w.refunded) <= kept + v.credited - v.refunded
         /\ Over(w.received, w.refunded) >= kept
         /\ kept = Least(Over(v.total, v.credited), Over(v.received, v.refunded)) =>
                Over(w.received, w.refunded) = Over(v.received, v.refunded)
  <1> DEFINE credit == Over(v.total, v.credited) - kept
             refund == Least(credit, Over(Over(v.received, v.refunded), kept))
  <1>0. w = IF credit = 0 THEN v
            ELSE Recalculated([v EXCEPT !.credited = @ + credit, !.refunded = @ + refund])
    BY DEF SettledRow
  <1> DEFINE held == v.received - v.refunded
             open == v.total - v.credited
  <1>1. /\ v.total \in Nat /\ v.received \in Nat /\ v.refunded \in Nat /\ v.credited \in Nat
        /\ v.refunded <= v.received /\ v.refunded <= v.credited
        /\ v.credited <= v.total /\ v.received <= v.total
    BY InvoiceFields DEF InvoiceSound
  <1>2. /\ Over(v.received, v.refunded) = held /\ Over(v.total, v.credited) = open
        /\ held \in Nat /\ open \in Nat /\ kept <= held /\ kept <= open
    BY <1>1 DEF Over
  <1>3. credit \in Nat /\ credit = open - kept
    BY <1>2
  <1>4. refund \in Nat /\ refund <= credit /\ refund <= held - kept
        /\ (refund = credit \/ refund = held - kept)
    BY <1>2, <1>3 DEF Over, Least
  <1> HIDE DEF credit, refund
  <1>5. CASE credit = 0
    BY <1>0, <1>2, <1>5, InvoiceFields
  <1>6. CASE credit # 0
    <2> DEFINE u == [v EXCEPT !.credited = v.credited + credit, !.refunded = v.refunded + refund]
    <2>1. v.credited + credit \in Nat /\ v.refunded + refund \in Nat
      BY <1>1, <1>3, <1>4
    <2>2. /\ u \in InvoiceRow /\ u.credited = v.credited + credit /\ u.total = v.total
          /\ u.received = v.received /\ u.refunded = v.refunded + refund /\ u.sale = v.sale
      BY <2>1 DEF InvoiceRow
    <2>3. w = Recalculated(u)
      BY <1>0, <1>6
    <2> HIDE DEF u
    <2>4. /\ u.refunded <= u.received /\ u.refunded <= u.credited
          /\ u.credited <= u.total /\ u.received <= u.total
      BY <1>1, <1>3, <1>4, <2>2
    <2>5. /\ w \in InvoiceRow /\ InvoiceSound(w) /\ w.sale = v.sale /\ w.status # "cancelled"
          /\ w.received = u.received /\ w.refunded = u.refunded
          /\ w.balance = Over(Over(u.total, u.credited), Over(u.received, u.refunded))
      BY <2>2, <2>3, <2>4, RecalculatedSound
    <2>6. Over(w.received, w.refunded) = held - refund
      BY <1>1, <1>4, <2>2, <2>5 DEF Over
    <2>7. Over(u.total, u.credited) = kept
      BY <1>1, <1>3, <2>2 DEF Over
    <2>8. w.balance = 0
      BY <1>2, <1>4, <2>5, <2>6, <2>7 DEF Over
    <2>9. held - refund >= kept /\ held - refund <= kept + v.credited - v.refunded
      BY <1>1, <1>2, <1>3, <1>4
    <2>10. kept = Least(open, held) => refund = 0
      BY <1>2, <1>3, <1>4, <1>6 DEF Least
    <2> HIDE DEF held, open
    <2> QED BY <1>1, <1>2, <1>3, <1>4, <2>5, <2>6, <2>8, <2>9, <2>10
  <1> QED BY <1>5, <1>6

-----------------------------------------------------------------------------
(* Tables.                                                                 *)

LEMMA Tables ==
  ASSUME TypeOK
  PROVE  /\ DOMAIN sales = 1..Len(sales) /\ Len(sales) \in Nat
         /\ DOMAIN sales \subseteq 1..MaxSale /\ \A s \in DOMAIN sales : sales[s] \in SaleRow
         /\ DOMAIN invoices = 1..Len(invoices) /\ IsFiniteSet(DOMAIN invoices)
         /\ Len(invoices) \in Nat /\ \A i \in DOMAIN invoices : invoices[i] \in InvoiceRow
         /\ DOMAIN deliveries = 1..Len(deliveries) /\ Len(deliveries) \in Nat
         /\ DOMAIN deliveries \subseteq 1..MaxDelivery
         /\ \A d \in DOMAIN deliveries : deliveries[d] \in DeliveryRow
         /\ \A a \in DOMAIN authorizations : authorizations[a] \in AuthorizationRow
         /\ \A r \in DOMAIN returns : returns[r] \in ReturnRow
         /\ DOMAIN authorizations = 1..Len(authorizations) /\ Len(authorizations) \in Nat
         /\ DOMAIN returns = 1..Len(returns) /\ Len(returns) \in Nat
  <1>1. /\ sales \in Seq(SaleRow) /\ invoices \in Seq(InvoiceRow) /\ deliveries \in Seq(DeliveryRow)
        /\ authorizations \in Seq(AuthorizationRow) /\ returns \in Seq(ReturnRow)
        /\ Len(sales) <= MaxSale /\ Len(deliveries) <= MaxDelivery
    BY DEF TypeOK
  <1>2. DOMAIN sales = 1..Len(sales) /\ Len(sales) \in Nat /\ \A s \in DOMAIN sales : sales[s] \in SaleRow
    BY <1>1, TableRows
  <1>3. DOMAIN deliveries = 1..Len(deliveries) /\ Len(deliveries) \in Nat
        /\ \A d \in DOMAIN deliveries : deliveries[d] \in DeliveryRow
    BY <1>1, TableRows
  <1>4. DOMAIN sales \subseteq 1..MaxSale /\ DOMAIN deliveries \subseteq 1..MaxDelivery
    BY <1>1, <1>2, <1>3, SalesAssumption
  <1>5. DOMAIN invoices = 1..Len(invoices) /\ IsFiniteSet(DOMAIN invoices)
        /\ Len(invoices) \in Nat /\ \A i \in DOMAIN invoices : invoices[i] \in InvoiceRow
    BY <1>1, TableRows
  <1>6. DOMAIN authorizations = 1..Len(authorizations) /\ Len(authorizations) \in Nat
        /\ \A a \in DOMAIN authorizations : authorizations[a] \in AuthorizationRow
    BY <1>1, TableRows
  <1>7. DOMAIN returns = 1..Len(returns) /\ Len(returns) \in Nat
        /\ \A r \in DOMAIN returns : returns[r] \in ReturnRow
    BY <1>1, TableRows
  <1> QED BY <1>2, <1>3, <1>4, <1>5, <1>6, <1>7

LEMMA Planned ==
  ASSUME TypeOK, NEW errand \in Errand, Does(errand)
  PROVE  plan' \in Plan
  BY DEF TypeOK, Plan, Does

-----------------------------------------------------------------------------
(* Billing.                                                                *)

\* the return of a sale stays settled
LEMMA ResolvedStays ==
  ASSUME IInv, ReturnsKept, NEW s, Resolved(s),
         \A d \in DOMAIN deliveries : deliveries'[d].sale = deliveries[d].sale
  PROVE  Resolved(s)'
  <1>1. PICK r \in DOMAIN returns : /\ deliveries[returns[r].delivery].sale = s
                                    /\ returns[r].status \in SettledStatus
    BY DEF Resolved
  <1>2. returns[r].delivery \in DOMAIN deliveries
    BY DEF IInv, ReturnsOfDeliveries
  <1>3. r \in DOMAIN returns' /\ returns'[r].delivery = returns[r].delivery
        /\ returns'[r].status \in SettledStatus
    BY <1>1 DEF ReturnsKept
  <1> QED BY <1>1, <1>2, <1>3 DEF Resolved

\* a step that leaves the invoices alone
LEMMA MoneyStays ==
  ASSUME IInv, ReturnsKept, UNCHANGED invoices,
         \A d \in DOMAIN deliveries : deliveries'[d].sale = deliveries[d].sale
  PROVE  Money'
  <1> SUFFICES ASSUME NEW i \in DOMAIN invoices
               PROVE  Resolved(invoices[i].sale)' \/ InvoiceSound(invoices[i])
    BY DEF Money
  <1> QED BY ResolvedStays DEF IInv, Money

\* the invoices of a sale that is not delivered
LEMMA UndeliveredSound ==
  ASSUME IInv, NEW i \in DOMAIN invoices, sales[invoices[i].sale].status # "delivered"
  PROVE  InvoiceSound(invoices[i])
  <1> SUFFICES ASSUME Resolved(invoices[i].sale) PROVE FALSE
    BY DEF IInv, Money
  <1>1. PICK r \in DOMAIN returns : deliveries[returns[r].delivery].sale = invoices[i].sale
    BY DEF Resolved
  <1>2. returns[r].delivery \in DOMAIN deliveries /\ deliveries[returns[r].delivery].signed
    BY DEF IInv, ReturnsOfDeliveries
  <1> QED BY <1>1, <1>2 DEF IInv, DeliveriesOfSales

\* the invoices of a sale of which the return is approved
LEMMA ApprovedSound ==
  ASSUME IInv, NEW r \in DOMAIN returns, returns[r].status = "APPROVED",
         NEW i \in DOMAIN invoices, invoices[i].sale = deliveries[returns[r].delivery].sale
  PROVE  InvoiceSound(invoices[i])
  <1> SUFFICES ASSUME Resolved(invoices[i].sale) PROVE FALSE
    BY DEF IInv, Money
  <1>1. PICK q \in DOMAIN returns : /\ deliveries[returns[q].delivery].sale = invoices[i].sale
                                    /\ returns[q].status \in SettledStatus
    BY DEF Resolved
  <1>2. \A p \in {q, r} : /\ returns[p].delivery \in DOMAIN deliveries
                          /\ deliveries[returns[p].delivery].signed
    BY DEF IInv, ReturnsOfDeliveries
  <1>3. returns[q].delivery = returns[r].delivery
    BY <1>1, <1>2 DEF IInv, DeliveriesOfSales
  <1>4. q = r
    BY <1>3 DEF IInv, ReturnsOfDeliveries
  <1> QED BY <1>1, <1>4 DEF SettledStatus

LEMMA InvoiceChanged ==
  ASSUME IInv, NEW i \in DOMAIN invoices, NEW w \in InvoiceRow,
         InvoiceSound(invoices[i]) => InvoiceSound(w), w.sale = invoices[i].sale,
         sales[w.sale].status = "cancelled" => w.status = "cancelled",
         invoices' = [invoices EXCEPT ![i] = w], UNCHANGED <<sales, deliveries, returns>>
  PROVE  /\ invoices' \in Seq(InvoiceRow) /\ Len(invoices') <= MaxInvoice
         /\ Money' /\ InvoicesOfSales' /\ RowsKept
  <1>1. invoices \in Seq(InvoiceRow) /\ Len(invoices) <= MaxInvoice
    BY DEF IInv, TypeOK
  <1>2. /\ invoices' \in Seq(InvoiceRow) /\ Len(invoices') = Len(invoices)
        /\ DOMAIN invoices' = DOMAIN invoices /\ invoices'[i] = w
        /\ \A j \in DOMAIN invoices : j # i => invoices'[j] = invoices[j]
    BY <1>1, RowSet
  <1>3. Money'
    BY <1>2 DEF Money, Resolved, IInv
  <1>4. InvoicesOfSales'
    BY <1>2 DEF InvoicesOfSales, IInv
  <1>5. RowsKept
    BY <1>2 DEF RowsKept
  <1> QED BY <1>1, <1>2, <1>3, <1>4, <1>5

LEMMA InvoiceAdded ==
  ASSUME IInv, NEW w \in InvoiceRow, InvoiceSound(w), w.sale \in DOMAIN sales,
         sales[w.sale].status # "cancelled", Len(invoices) < MaxInvoice,
         invoices' = Append(invoices, w), UNCHANGED <<sales, deliveries, returns>>
  PROVE  /\ invoices' \in Seq(InvoiceRow) /\ Len(invoices') <= MaxInvoice
         /\ Money' /\ InvoicesOfSales' /\ RowsKept
  <1>1. invoices \in Seq(InvoiceRow) /\ Len(invoices) \in Nat
    BY Tables DEF IInv, TypeOK
  <1>2. /\ invoices' \in Seq(InvoiceRow) /\ Len(invoices') = Len(invoices) + 1
        /\ DOMAIN invoices' = DOMAIN invoices \cup {Len(invoices) + 1}
        /\ Len(invoices) + 1 \notin DOMAIN invoices
        /\ invoices'[Len(invoices) + 1] = w
        /\ \A j \in DOMAIN invoices : invoices'[j] = invoices[j]
    BY <1>1, RowAdded
  <1>3. Money'
    BY <1>2 DEF Money, Resolved, IInv
  <1>4. InvoicesOfSales'
    BY <1>2 DEF InvoicesOfSales, IInv
  <1>5. Len(invoices') <= MaxInvoice
    BY <1>1, <1>2, SalesAssumption
  <1>6. RowsKept
    BY <1>2 DEF RowsKept
  <1> QED BY <1>2, <1>3, <1>4, <1>5, <1>6

\* a step that changes the invoices and nothing else
LEMMA InvoicesOnly ==
  ASSUME IInv, invoices' \in Seq(InvoiceRow), Len(invoices') <= MaxInvoice,
         Money', InvoicesOfSales', plan' \in Plan,
         UNCHANGED <<vehicle, sales, authorizations, deliveries, returns, request>>
  PROVE  IInv'
  <1>1. TypeOK'
    BY DEF IInv, TypeOK
  <1>2. DeliveriesOfSales' /\ ReturnsOfDeliveries' /\ Warranties' /\ Requests'
    BY DEF IInv, DeliveriesOfSales, ReturnsOfDeliveries, Warranties, Requests
  <1> QED BY <1>1, <1>2 DEF IInv

LEMMA BillingSound ==
  ASSUME IInv, NEW i \in DOMAIN invoices, NEW w \in InvoiceRow,
         InvoiceSound(invoices[i]) => InvoiceSound(w), w.sale = invoices[i].sale,
         sales[w.sale].status = "cancelled" => w.status = "cancelled",
         Billing(i, w), plan' \in Plan
  PROVE  IInv' /\ RowsKept
  <1>1. /\ invoices' = [invoices EXCEPT ![i] = w]
        /\ UNCHANGED <<vehicle, sales, authorizations, deliveries, returns, request>>
    BY DEF Billing
  <1> QED BY <1>1, InvoiceChanged, InvoicesOnly

LEMMA InvoiceAt ==
  ASSUME IInv, NEW i \in DOMAIN invoices
  PROVE  /\ TypeOK /\ plan \in Plan
         /\ invoices[i] \in InvoiceRow
         /\ sales[invoices[i].sale].status = "cancelled" => invoices[i].status = "cancelled"
         /\ Held(i) = Over(invoices[i].received, invoices[i].refunded)
  BY Tables DEF IInv, TypeOK, InvoicesOfSales, Held

LEMMA CreateInvoiceStep ==
  ASSUME IInv, NEW s \in DOMAIN sales, CreateInvoice(s)
  PROVE  IInv' /\ RowsKept
  <1> DEFINE w == NewInvoice(s, "vehicle", "draft", Price)
  <1>1. TypeOK /\ s \in 1..MaxSale /\ plan \in Plan
    BY Tables DEF IInv, TypeOK
  <1>2. w \in InvoiceRow /\ InvoiceSound(w) /\ w.sale = s
    BY <1>1, NewSound, SalesAssumption
  <1>3. /\ Len(invoices) < MaxInvoice /\ sales[s].status # "cancelled"
        /\ invoices' = Append(invoices, w)
        /\ UNCHANGED <<vehicle, sales, authorizations, deliveries, returns, request, plan>>
    BY DEF CreateInvoice
  <1> HIDE DEF w
  <1> QED BY <1>1, <1>2, <1>3, InvoiceAdded, InvoicesOnly

LEMMA AddServiceStep ==
  ASSUME IInv, NEW d \in DOMAIN deliveries, AddService(d)
  PROVE  IInv' /\ RowsKept
  <1> DEFINE s == deliveries[d].sale
             w == NewInvoice(s, "other", "issued", ServicePrice)
  <1>1. /\ TypeOK /\ s \in DOMAIN sales
        /\ sales[s].status \in {"ready_for_delivery", "delivered"}
    BY DEF IInv, DeliveriesOfSales
  <1>2. s \in 1..MaxSale
    BY <1>1, Tables
  <1>3. w \in InvoiceRow /\ InvoiceSound(w) /\ w.sale = s
    BY <1>2, NewSound, SalesAssumption
  <1>4. /\ Len(invoices) < MaxInvoice /\ Does("service") /\ invoices' = Append(invoices, w)
        /\ UNCHANGED <<vehicle, sales, authorizations, deliveries, returns, request>>
    BY DEF AddService
  <1>5. plan' \in Plan
    BY <1>1, <1>4, Planned DEF Errand
  <1>6. sales[s].status # "cancelled"
    BY <1>1
  <1> HIDE DEF w, s
  <1> QED BY <1>1, <1>3, <1>4, <1>5, <1>6, InvoiceAdded, InvoicesOnly

LEMMA InvoiceSteps ==
  ASSUME IInv, NEW i \in DOMAIN invoices, IssueInvoice(i) \/ CancelInvoice(i) \/ Refund(i)
  PROVE  IInv' /\ RowsKept
  <1> DEFINE v == invoices[i]
  <1>1. /\ TypeOK /\ plan \in Plan /\ v \in InvoiceRow
        /\ sales[v.sale].status = "cancelled" => v.status = "cancelled"
        /\ Held(i) = Over(v.received, v.refunded)
    BY InvoiceAt
  <1>2. CASE IssueInvoice(i)
    <2> DEFINE w == [v EXCEPT !.status = "issued"]
    <2>1. v.status = "draft" /\ Billing(i, w) /\ plan' \in Plan
      BY <1>1, <1>2 DEF IssueInvoice
    <2>2. w \in InvoiceRow /\ (InvoiceSound(v) => InvoiceSound(w)) /\ w.sale = v.sale
      BY <1>1, <2>1, IssuedSound
    <2> HIDE DEF w
    <2> QED BY <1>1, <2>1, <2>2, BillingSound
  <1>3. CASE CancelInvoice(i)
    <2> DEFINE w == Cancelled(i)
    <2>1. Does("void") /\ Held(i) = 0 /\ Billing(i, w)
      BY <1>3 DEF CancelInvoice
    <2>2. plan' \in Plan
      BY <1>1, <2>1, Planned DEF Errand
    <2>3. w \in InvoiceRow /\ (InvoiceSound(v) => InvoiceSound(w)) /\ w.sale = v.sale /\ w.status = "cancelled"
      BY <1>1, <2>1, CancelledSound DEF Cancelled
    <2> HIDE DEF w
    <2> QED BY <1>1, <2>1, <2>2, <2>3, BillingSound
  <1>4. CASE Refund(i)
    <2> DEFINE w == Recalculated([v EXCEPT !.refunded = @ + 1])
    <2>1. Does("refund") /\ v.refunded < v.received /\ v.refunded < v.credited /\ Billing(i, w)
      BY <1>4 DEF Refund
    <2>2. plan' \in Plan
      BY <1>1, <2>1, Planned DEF Errand
    <2>3. /\ w \in InvoiceRow /\ (InvoiceSound(v) => InvoiceSound(w)) /\ w.sale = v.sale
          /\ InvoiceSound(v) => v.status # "cancelled"
      BY <1>1, <2>1, RefundedSound
    <2>4. sales[v.sale].status # "cancelled"
      BY <1>1, <2>3, UndeliveredSound
    <2> HIDE DEF w
    <2> QED BY <2>1, <2>2, <2>3, <2>4, BillingSound
  <1> QED BY <1>2, <1>3, <1>4

LEMMA AmountSteps ==
  ASSUME IInv, NEW i \in DOMAIN invoices, NEW a \in Sum,
         Pay(i, a) \/ Credit(i, a) \/ EditInvoice(i, a)
  PROVE  IInv' /\ RowsKept
  <1> DEFINE v == invoices[i]
  <1>1. /\ TypeOK /\ plan \in Plan /\ v \in InvoiceRow
        /\ sales[v.sale].status = "cancelled" => v.status = "cancelled"
        /\ Held(i) = Over(v.received, v.refunded)
    BY InvoiceAt
  <1>2. a \in Nat /\ a > 0
    BY SalesAssumption
  <1>3. CASE Pay(i, a)
    <2> DEFINE status == IF v.balance - a = 0 THEN "paid" ELSE "partially_paid"
               w == [v EXCEPT !.received = @ + a, !.paid = @ + a, !.balance = v.balance - a,
                              !.status = status]
    <2>1. /\ v.status \in {"issued", "partially_paid"} /\ a <= v.balance
          /\ Billing(i, w) /\ UNCHANGED plan
      BY <1>3 DEF Pay
    <2>2. /\ w \in InvoiceRow /\ (InvoiceSound(v) => InvoiceSound(w)) /\ w.sale = v.sale
          /\ w.status # "cancelled"
      <3>1. v.status \in {"issued", "partially_paid"} /\ a <= v.balance
        BY <2>1
      <3>2. status \in {"paid", "partially_paid"} /\ (status = "paid" <=> v.balance - a = 0)
        OBVIOUS
      <3>3. v \in InvoiceRow
        BY <1>1
      <3> HIDE DEF v, status
      <3> QED BY <1>2, <3>1, <3>2, <3>3, PaidSound
    <2> HIDE DEF w
    <2> QED BY <1>1, <2>1, <2>2, BillingSound
  <1>4. CASE Credit(i, a)
    <2> DEFINE w == Recalculated([v EXCEPT !.credited = @ + a])
    <2>1. /\ Does("credit") /\ v.status # "cancelled" /\ a <= v.total - v.credited
          /\ Billing(i, w)
      BY <1>4 DEF Credit
    <2>2. plan' \in Plan
      BY <1>1, <2>1, Planned DEF Errand
    <2>3. w \in InvoiceRow /\ (InvoiceSound(v) => InvoiceSound(w)) /\ w.sale = v.sale
      BY <1>1, <1>2, <2>1, CreditedSound
    <2> HIDE DEF w
    <2> QED BY <1>1, <2>1, <2>2, <2>3, BillingSound
  <1>5. CASE EditInvoice(i, a)
    <2> DEFINE w == [v EXCEPT !.total = a, !.balance = a]
    <2>1. Does("edit") /\ v.status = "draft" /\ Billing(i, w)
      BY <1>5 DEF EditInvoice
    <2>2. plan' \in Plan
      BY <1>1, <2>1, Planned DEF Errand
    <2>3. w \in InvoiceRow /\ (InvoiceSound(v) => InvoiceSound(w)) /\ w.sale = v.sale
      BY <1>1, <1>2, <2>1, EditedSound
    <2> HIDE DEF w
    <2> QED BY <1>1, <2>1, <2>2, <2>3, BillingSound
  <1> QED BY <1>3, <1>4, <1>5

-----------------------------------------------------------------------------
(* Sales.                                                                  *)

\* a table of which every row is written again
LEMMA RowsMade ==
  ASSUME NEW R, NEW q \in Seq(R), NEW p \in [DOMAIN q -> R]
  PROVE  p \in Seq(R) /\ Len(p) = Len(q) /\ DOMAIN p = DOMAIN q
  <1>1. DOMAIN q = 1..Len(q) /\ Len(q) \in Nat
    BY TableRows
  <1>2. p \in [1..Len(q) -> R]
    BY <1>1
  <1>3. p \in Seq(R)
    BY <1>1, <1>2, IsASeq
  <1>4. DOMAIN p = 1..Len(p) /\ Len(p) \in Nat
    BY <1>3, TableRows
  <1>5. DOMAIN p = 1..Len(q)
    BY <1>2
  <1>6. Len(p) = Len(q)
    BY <1>1, <1>4, <1>5
  <1> QED BY <1>1, <1>3, <1>5, <1>6

LEMMA SaleChanged ==
  ASSUME TypeOK, NEW s \in DOMAIN sales, NEW w \in SaleRow, sales' = [sales EXCEPT ![s] = w]
  PROVE  /\ sales' \in Seq(SaleRow) /\ Len(sales') <= MaxSale
         /\ DOMAIN sales' = DOMAIN sales /\ sales'[s] = w
         /\ \A t \in DOMAIN sales : t # s => sales'[t] = sales[t]
  <1>1. sales \in Seq(SaleRow) /\ Len(sales) <= MaxSale
    BY DEF TypeOK
  <1> QED BY <1>1, RowSet

LEMMA SaleFields ==
  ASSUME NEW x \in SaleRow, NEW next \in SaleStatus, NEW w, w = [x EXCEPT !.status = next]
  PROVE  /\ w \in SaleRow /\ w.vehicle = x.vehicle /\ w.warranty = x.warranty /\ w.status = next
         /\ x.vehicle \in Vehicle
  BY DEF SaleRow

\* a delivery is only planned once its sale is ready
LEMMA NotYetPlanned ==
  ASSUME IInv, NEW s \in DOMAIN sales, sales[s].status \notin {"ready_for_delivery", "delivered"}
  PROVE  \A d \in DOMAIN deliveries : deliveries[d].sale # s
  BY DEF IInv, DeliveriesOfSales

LEMMA CreateSaleStep ==
  ASSUME IInv, NEW v \in Vehicle, CreateSale(v)
  PROVE  IInv'
  <1>1. TypeOK /\ plan \in Plan
    BY DEF IInv, TypeOK
  <1>2. PICK k \in Warranty \ {"ACTIVE"} :
            sales' = Append(sales, [vehicle |-> v, status |-> "reserved", warranty |-> k])
    BY DEF CreateSale
  <1> DEFINE w == [vehicle |-> v, status |-> "reserved", warranty |-> k]
             n == Len(sales) + 1
  <1>3. w \in SaleRow /\ w.status = "reserved" /\ w.warranty # "ACTIVE"
    BY DEF SaleRow, SaleStatus
  <1>4. sales \in Seq(SaleRow) /\ Len(sales) \in Nat
    BY <1>1, Tables DEF TypeOK
  <1>5. sales' = Append(sales, w)
    BY <1>2
  <1> HIDE DEF w
  <1>6. /\ sales' \in Seq(SaleRow) /\ Len(sales') = n
        /\ DOMAIN sales' = DOMAIN sales \cup {n} /\ n \notin DOMAIN sales
        /\ sales'[n] = w /\ \A t \in DOMAIN sales : sales'[t] = sales[t]
    BY <1>3, <1>4, <1>5, RowAdded
  <1> HIDE DEF n
  <1>7. /\ Len(sales) < MaxSale /\ Does("sale")
        /\ vehicle' = [vehicle EXCEPT ![v] = "reserved"]
        /\ UNCHANGED <<invoices, authorizations, deliveries, returns, request>>
    BY DEF CreateSale
  <1>8. TypeOK'
    <2>1. Len(sales') <= MaxSale
      BY <1>4, <1>6, <1>7, SalesAssumption DEF n
    <2>2. vehicle' \in [Vehicle -> VehicleStatus]
      BY <1>1, <1>7 DEF TypeOK, VehicleStatus
    <2>3. plan' \in Plan
      BY <1>1, <1>7, Planned DEF Errand
    <2> QED BY <1>1, <1>6, <1>7, <2>1, <2>2, <2>3 DEF TypeOK
  <1>9. Money' /\ ReturnsOfDeliveries'
    BY <1>7 DEF IInv, Money, Resolved, ReturnsOfDeliveries
  <1>10. InvoicesOfSales'
    BY <1>6, <1>7 DEF IInv, InvoicesOfSales
  <1>11. DeliveriesOfSales'
    <2>1. \A d \in DOMAIN deliveries :
              deliveries[d].sale \in DOMAIN sales /\ sales'[deliveries[d].sale] = sales[deliveries[d].sale]
      BY <1>6 DEF IInv, DeliveriesOfSales
    <2>2. \A d \in DOMAIN deliveries' :
              /\ deliveries'[d].sale \in DOMAIN sales'
              /\ sales'[deliveries'[d].sale].status \in {"ready_for_delivery", "delivered"}
              /\ deliveries'[d].signed => sales'[deliveries'[d].sale].status = "delivered"
              /\ deliveries'[d].status = "delivered" => deliveries'[d].signed
      BY <1>6, <1>7, <2>1 DEF IInv, DeliveriesOfSales
    <2>3. \A t \in DOMAIN sales' : sales'[t].status = "delivered" => t \in DOMAIN sales
      BY <1>3, <1>6
    <2>4. \A t \in DOMAIN sales' : sales'[t].status = "delivered" =>
              \E d \in DOMAIN deliveries' : deliveries'[d].sale = t /\ deliveries'[d].signed
      BY <1>6, <1>7, <2>3 DEF IInv, DeliveriesOfSales
    <2>5. \A d, e \in DOMAIN deliveries' :
              deliveries'[d].signed /\ deliveries'[e].signed /\ deliveries'[d].sale = deliveries'[e].sale
                  => d = e
      BY <1>7 DEF IInv, DeliveriesOfSales
    <2> QED BY <2>2, <2>4, <2>5 DEF DeliveriesOfSales
  <1>12. Warranties' /\ Requests'
    BY <1>3, <1>6, <1>7 DEF IInv, Warranties, Requests
  <1> QED BY <1>8, <1>9, <1>10, <1>11, <1>12 DEF IInv

\* a sale of which no delivery was planned takes another status
LEMMA SaleMoves ==
  ASSUME IInv, NEW s \in DOMAIN sales, NEW next \in SaleStatus \ {"delivered"},
         sales[s].status \notin {"ready_for_delivery", "delivered"},
         sales' = [sales EXCEPT ![s].status = next],
         UNCHANGED <<deliveries, returns, request>>
  PROVE  /\ sales' \in Seq(SaleRow) /\ Len(sales') <= MaxSale /\ DOMAIN sales' = DOMAIN sales
         /\ sales'[s].status = next /\ \A t \in DOMAIN sales : t # s => sales'[t] = sales[t]
         /\ DeliveriesOfSales' /\ ReturnsOfDeliveries' /\ Warranties' /\ Requests'
  <1> DEFINE w == [sales[s] EXCEPT !.status = next]
  <1>1. TypeOK /\ sales[s] \in SaleRow
    BY Tables DEF IInv
  <1>2. w \in SaleRow /\ w.status = next /\ w.warranty = sales[s].warranty
    BY <1>1, SaleFields
  <1>3. sales' = [sales EXCEPT ![s] = w]
    OBVIOUS
  <1> HIDE DEF w
  <1>4. /\ sales' \in Seq(SaleRow) /\ Len(sales') <= MaxSale
        /\ DOMAIN sales' = DOMAIN sales /\ sales'[s] = w
        /\ \A t \in DOMAIN sales : t # s => sales'[t] = sales[t]
    BY <1>1, <1>2, <1>3, SaleChanged
  <1>5. \A d \in DOMAIN deliveries : deliveries[d].sale # s
    BY NotYetPlanned
  <1>6. DeliveriesOfSales'
    <2>1. \A d \in DOMAIN deliveries :
              deliveries[d].sale \in DOMAIN sales /\ sales'[deliveries[d].sale] = sales[deliveries[d].sale]
      BY <1>4, <1>5 DEF IInv, DeliveriesOfSales
    <2>2. \A d \in DOMAIN deliveries' :
              /\ deliveries'[d].sale \in DOMAIN sales'
              /\ sales'[deliveries'[d].sale].status \in {"ready_for_delivery", "delivered"}
              /\ deliveries'[d].signed => sales'[deliveries'[d].sale].status = "delivered"
              /\ deliveries'[d].status = "delivered" => deliveries'[d].signed
      BY <1>4, <2>1 DEF IInv, DeliveriesOfSales
    <2>3. \A t \in DOMAIN sales' : sales'[t].status = "delivered" =>
              \E d \in DOMAIN deliveries' : deliveries'[d].sale = t /\ deliveries'[d].signed
      BY <1>2, <1>4 DEF IInv, DeliveriesOfSales
    <2>4. \A d, e \in DOMAIN deliveries' :
              deliveries'[d].signed /\ deliveries'[e].signed /\ deliveries'[d].sale = deliveries'[e].sale
                  => d = e
      BY DEF IInv, DeliveriesOfSales
    <2> QED BY <2>2, <2>3, <2>4 DEF DeliveriesOfSales
  <1>7. ReturnsOfDeliveries'
    BY DEF IInv, ReturnsOfDeliveries
  <1>8. Warranties'
    BY <1>2, <1>4 DEF IInv, Warranties
  <1>9. Requests'
    BY <1>4 DEF IInv, Requests
  <1> QED BY <1>2, <1>4, <1>6, <1>7, <1>8, <1>9

LEMMA AdvanceSaleStep ==
  ASSUME IInv, NEW s \in DOMAIN sales, AdvanceSale(s)
  PROVE  IInv'
  <1> DEFINE next == NextStatus[sales[s].status]
             v == sales[s].vehicle
  <1>1. /\ sales[s].status \in DOMAIN NextStatus
        /\ sales' = [sales EXCEPT ![s].status = next]
        /\ vehicle' = IF next = "confirmed" THEN [vehicle EXCEPT ![v] = "sold"] ELSE vehicle
        /\ UNCHANGED <<invoices, authorizations, deliveries, returns, request, plan>>
    BY DEF AdvanceSale
  <1>2. /\ next \in SaleStatus \ {"delivered", "cancelled"}
        /\ sales[s].status \notin {"ready_for_delivery", "delivered", "cancelled"}
    BY <1>1 DEF NextStatus, SaleStatus
  <1> HIDE DEF next
  <1>3. /\ sales' \in Seq(SaleRow) /\ Len(sales') <= MaxSale /\ DOMAIN sales' = DOMAIN sales
        /\ sales'[s].status = next /\ \A t \in DOMAIN sales : t # s => sales'[t] = sales[t]
        /\ DeliveriesOfSales' /\ ReturnsOfDeliveries' /\ Warranties' /\ Requests'
    BY <1>1, <1>2, SaleMoves
  <1>4. TypeOK'
    <2>1. vehicle \in [Vehicle -> VehicleStatus]
      BY DEF IInv, TypeOK
    <2>2. vehicle' \in [Vehicle -> VehicleStatus]
      BY <1>1, <2>1 DEF VehicleStatus
    <2> QED BY <1>1, <1>3, <2>2 DEF IInv, TypeOK
  <1>5. Money'
    BY <1>1 DEF IInv, Money, Resolved
  <1>6. InvoicesOfSales'
    BY <1>1, <1>2, <1>3 DEF IInv, InvoicesOfSales
  <1> QED BY <1>3, <1>4, <1>5, <1>6 DEF IInv

LEMMA CancelSaleStep ==
  ASSUME IInv, NEW s \in DOMAIN sales, CancelSale(s)
  PROVE  IInv' /\ RowsKept
  <1> DEFINE v == sales[s].vehicle
  <1>1. /\ Does("cancellation")
        /\ sales[s].status \notin {"ready_for_delivery", "delivered", "cancelled"}
        /\ \A i \in Live(s) : Held(i) = 0
        /\ invoices' = [i \in DOMAIN invoices |-> IF i \in Live(s) THEN Cancelled(i) ELSE invoices[i]]
        /\ sales' = [sales EXCEPT ![s].status = "cancelled"]
        /\ vehicle' = IF vehicle[v] \in {"reserved", "sold"}
                      THEN [vehicle EXCEPT ![v] = "available"] ELSE vehicle
        /\ UNCHANGED <<authorizations, deliveries, returns, request>>
    BY DEF CancelSale
  <1>2. TypeOK /\ plan' \in Plan
    BY <1>1, Planned DEF IInv, Errand
  <1>3. /\ sales' \in Seq(SaleRow) /\ Len(sales') <= MaxSale /\ DOMAIN sales' = DOMAIN sales
        /\ sales'[s].status = "cancelled" /\ \A t \in DOMAIN sales : t # s => sales'[t] = sales[t]
        /\ DeliveriesOfSales' /\ ReturnsOfDeliveries' /\ Warranties' /\ Requests'
    BY <1>1, SaleMoves DEF SaleStatus
  <1>4. ASSUME NEW i \in DOMAIN invoices
        PROVE  /\ invoices'[i] \in InvoiceRow
               /\ InvoiceSound(invoices[i]) => InvoiceSound(invoices'[i])
               /\ invoices'[i].sale = invoices[i].sale
               /\ invoices[i].sale = s => invoices'[i].status = "cancelled"
               /\ invoices[i].status = "cancelled" => invoices'[i].status = "cancelled"
    <2>1. /\ invoices[i] \in InvoiceRow
          /\ Held(i) = Over(invoices[i].received, invoices[i].refunded)
      BY InvoiceAt
    <2>2. CASE i \in Live(s)
      <3>1. invoices'[i] = Cancelled(i) /\ Held(i) = 0
        BY <1>1, <2>2
      <3>2. /\ Cancelled(i) \in InvoiceRow
            /\ InvoiceSound(invoices[i]) => InvoiceSound(Cancelled(i))
            /\ Cancelled(i).sale = invoices[i].sale /\ Cancelled(i).status = "cancelled"
        BY <2>1, <3>1, CancelledSound DEF Cancelled
      <3> QED BY <3>1, <3>2
    <2>3. CASE i \notin Live(s)
      <3>1. invoices'[i] = invoices[i]
        BY <1>1, <2>3
      <3> QED BY <2>1, <2>3, <3>1 DEF Live
    <2> QED BY <2>2, <2>3
  <1>5. DOMAIN invoices' = DOMAIN invoices /\ invoices' \in [DOMAIN invoices -> InvoiceRow]
    BY <1>1, <1>4
  <1>6. invoices' \in Seq(InvoiceRow) /\ Len(invoices') <= MaxInvoice
    <2>1. invoices \in Seq(InvoiceRow) /\ Len(invoices) <= MaxInvoice
      BY <1>2 DEF TypeOK
    <2> QED BY <1>5, <2>1, RowsMade
  <1>7. TypeOK'
    <2>1. vehicle' \in [Vehicle -> VehicleStatus]
      BY <1>1, <1>2 DEF TypeOK, VehicleStatus
    <2> QED BY <1>1, <1>2, <1>3, <1>6, <2>1 DEF TypeOK
  <1>8. Money'
    <2> SUFFICES ASSUME NEW i \in DOMAIN invoices
                 PROVE  (Resolved(invoices[i].sale) \/ InvoiceSound(invoices[i]))'
      BY <1>5 DEF Money
    <2>1. Resolved(invoices[i].sale) \/ InvoiceSound(invoices[i])
      BY DEF IInv, Money
    <2>2. \A u : Resolved(u)' <=> Resolved(u)
      BY <1>1 DEF Resolved
    <2> QED BY <1>4, <2>1, <2>2
  <1>9. InvoicesOfSales'
    <2>1. ASSUME NEW i \in DOMAIN invoices'
          PROVE  /\ invoices'[i].sale \in DOMAIN sales'
                 /\ sales'[invoices'[i].sale].status = "cancelled" => invoices'[i].status = "cancelled"
      <3>1. i \in DOMAIN invoices /\ invoices[i].sale \in DOMAIN sales
        BY <1>5 DEF IInv, InvoicesOfSales
      <3> QED BY <1>3, <1>4, <3>1 DEF IInv, InvoicesOfSales
    <2> QED BY <2>1 DEF InvoicesOfSales
  <1>10. RowsKept
    BY <1>4, <1>5 DEF RowsKept
  <1> QED BY <1>3, <1>7, <1>8, <1>9, <1>10 DEF IInv

-----------------------------------------------------------------------------
(* Authorizations.                                                         *)

\* a step that changes the authorizations and nothing else
LEMMA AuthorizationsOnly ==
  ASSUME IInv, authorizations' \in Seq(AuthorizationRow), plan' \in Plan,
         UNCHANGED <<vehicle, sales, invoices, deliveries, returns, request>>
  PROVE  IInv'
  <1>1. TypeOK'
    BY DEF IInv, TypeOK
  <1>2. Money' /\ InvoicesOfSales' /\ ReturnsOfDeliveries'
    BY DEF IInv, Money, Resolved, InvoicesOfSales, ReturnsOfDeliveries
  <1>3. DeliveriesOfSales' /\ Warranties' /\ Requests'
    BY DEF IInv, DeliveriesOfSales, Warranties, Requests
  <1> QED BY <1>1, <1>2, <1>3 DEF IInv

LEMMA AuthorizationFields ==
  ASSUME NEW x \in AuthorizationRow, NEW status \in AuthorizationStatus,
         NEW w, w = [x EXCEPT !.status = status]
  PROVE  /\ w \in AuthorizationRow /\ w.sale = x.sale /\ w.snapshot = x.snapshot
         /\ w.status = status /\ x.snapshot \in Nat
  BY DEF AuthorizationRow

LEMMA ExposureNat ==
  ASSUME TypeOK, NEW s
  PROVE  /\ Exposure(s) \in Nat /\ IsFiniteSet(Billable(s)) /\ Billable(s) \subseteq DOMAIN invoices
  <1>1. IsFiniteSet(DOMAIN invoices) /\ \A i \in DOMAIN invoices : invoices[i].balance \in Nat
    BY Tables, InvoiceFields
  <1>2. Billable(s) \subseteq DOMAIN invoices
    BY DEF Billable, Live
  <1>3. IsFiniteSet(Billable(s))
    BY <1>1, <1>2, FS_Subset
  <1> DEFINE f == [i \in DOMAIN invoices |-> invoices[i].balance]
  <1>4. \A i \in Billable(s) : f[i] \in Nat
    BY <1>1, <1>2
  <1>5. Exposure(s) = SumFunctionOnSet(f, Billable(s))
    BY DEF Exposure
  <1> HIDE DEF f
  <1>6. Exposure(s) \in Nat
    BY <1>3, <1>4, <1>5, SumNat
  <1> QED BY <1>2, <1>3, <1>6

LEMMA AuthorizeStep ==
  ASSUME IInv, NEW s \in DOMAIN sales, Authorize(s)
  PROVE  IInv'
  <1> DEFINE p == [a \in DOMAIN authorizations |->
                      IF a \in Authorized(s) THEN [authorizations[a] EXCEPT !.status = "SUPERSEDED"]
                      ELSE authorizations[a]]
             w == [sale |-> s, snapshot |-> Exposure(s), status |-> "AUTHORIZED"]
  <1>1. TypeOK /\ authorizations \in Seq(AuthorizationRow) /\ s \in 1..MaxSale
    BY Tables DEF IInv, TypeOK
  <1>2. /\ Does("authorization") /\ authorizations' = Append(p, w)
        /\ UNCHANGED <<vehicle, sales, invoices, deliveries, returns, request>>
    BY DEF Authorize
  <1>3. plan' \in Plan
    BY <1>1, <1>2, Planned DEF Errand
  <1>4. w \in AuthorizationRow
    BY <1>1, ExposureNat DEF AuthorizationRow, AuthorizationStatus
  <1>5. p \in [DOMAIN authorizations -> AuthorizationRow]
    <2>1. \A a \in DOMAIN authorizations : authorizations[a] \in AuthorizationRow
      BY <1>1, Tables
    <2>2. \A a \in DOMAIN authorizations :
              [authorizations[a] EXCEPT !.status = "SUPERSEDED"] \in AuthorizationRow
      BY <2>1, AuthorizationFields DEF AuthorizationStatus
    <2> QED BY <2>1, <2>2
  <1> HIDE DEF p, w
  <1>6. p \in Seq(AuthorizationRow)
    BY <1>1, <1>5, RowsMade
  <1>7. authorizations' \in Seq(AuthorizationRow)
    BY <1>2, <1>4, <1>6, RowAdded
  <1> QED BY <1>2, <1>3, <1>7, AuthorizationsOnly

LEMMA RevokeStep ==
  ASSUME IInv, NEW a \in DOMAIN authorizations, Revoke(a)
  PROVE  IInv'
  <1> DEFINE w == [authorizations[a] EXCEPT !.status = "REVOKED"]
  <1>1. TypeOK /\ authorizations \in Seq(AuthorizationRow) /\ authorizations[a] \in AuthorizationRow
    BY Tables DEF IInv, TypeOK
  <1>2. /\ Does("authorization") /\ authorizations' = [authorizations EXCEPT ![a] = w]
        /\ UNCHANGED <<vehicle, sales, invoices, deliveries, returns, request>>
    BY DEF Revoke
  <1>3. plan' \in Plan
    BY <1>1, <1>2, Planned DEF Errand
  <1>4. w \in AuthorizationRow
    BY <1>1, AuthorizationFields DEF AuthorizationStatus
  <1> HIDE DEF w
  <1>5. authorizations' \in Seq(AuthorizationRow)
    BY <1>1, <1>2, <1>4, RowSet
  <1> QED BY <1>2, <1>3, <1>5, AuthorizationsOnly

-----------------------------------------------------------------------------
(* Deliveries.                                                             *)

LEMMA DeliveryFields ==
  ASSUME NEW x \in DeliveryRow
  PROVE  /\ x.sale \in 1..MaxSale /\ x.status \in DeliveryStatus /\ x.checklist \in Checklist
         /\ x.papers \in BOOLEAN /\ x.signed \in BOOLEAN
  BY DEF DeliveryRow

\* a delivery is written, of the same sale and signed as before
LEMMA DeliveryChanged ==
  ASSUME IInv, NEW d \in DOMAIN deliveries, NEW w \in DeliveryRow,
         w.sale = deliveries[d].sale, w.signed = deliveries[d].signed,
         w.status = "delivered" => w.signed,
         deliveries' = [deliveries EXCEPT ![d] = w],
         UNCHANGED <<vehicle, sales, invoices, authorizations, returns>>,
         request' \in [Clerk -> Late \cup {None}], \A c \in Clerk : request'[c] \in {request[c], None},
         plan' \in Plan
  PROVE  IInv'
  <1>1. /\ deliveries' \in Seq(DeliveryRow) /\ Len(deliveries') = Len(deliveries)
        /\ DOMAIN deliveries' = DOMAIN deliveries /\ deliveries'[d] = w
        /\ \A e \in DOMAIN deliveries : e # d => deliveries'[e] = deliveries[e]
    <2>1. deliveries \in Seq(DeliveryRow)
      BY DEF IInv, TypeOK
    <2> QED BY <2>1, RowSet
  <1>2. TypeOK'
    BY <1>1 DEF IInv, TypeOK
  <1>3. InvoicesOfSales' /\ Warranties'
    BY DEF IInv, InvoicesOfSales, Warranties
  <1>4. \A e \in DOMAIN deliveries :
            deliveries'[e].sale = deliveries[e].sale /\ deliveries'[e].signed = deliveries[e].signed
    BY <1>1
  <1>5. \A e \in DOMAIN deliveries : deliveries'[e].status = "delivered" => deliveries'[e].signed
    BY <1>1 DEF IInv, DeliveriesOfSales
  <1>6. DeliveriesOfSales'
    <2>1. DeliveriesOfSales
      BY DEF IInv
    <2>2. \A e \in DOMAIN deliveries' :
              /\ deliveries'[e].sale \in DOMAIN sales'
              /\ sales'[deliveries'[e].sale].status \in {"ready_for_delivery", "delivered"}
              /\ deliveries'[e].signed => sales'[deliveries'[e].sale].status = "delivered"
              /\ deliveries'[e].status = "delivered" => deliveries'[e].signed
      BY <1>1, <1>4, <1>5, <2>1 DEF DeliveriesOfSales
    <2>3. \A t \in DOMAIN sales' : sales'[t].status = "delivered" =>
              \E e \in DOMAIN deliveries' : deliveries'[e].sale = t /\ deliveries'[e].signed
      BY <1>1, <1>4, <2>1 DEF DeliveriesOfSales
    <2>4. \A b, e \in DOMAIN deliveries' :
              deliveries'[b].signed /\ deliveries'[e].signed /\ deliveries'[b].sale = deliveries'[e].sale
                  => b = e
      BY <1>1, <1>4, <2>1 DEF DeliveriesOfSales
    <2> QED BY <2>2, <2>3, <2>4 DEF DeliveriesOfSales
  <1>7. ReturnsOfDeliveries'
    BY <1>1, <1>4 DEF IInv, ReturnsOfDeliveries
  <1>8. Requests'
    BY <1>1 DEF IInv, Requests
  <1>9. Money'
    BY <1>4, MoneyStays DEF ReturnsKept
  <1> QED BY <1>2, <1>3, <1>6, <1>7, <1>8, <1>9 DEF IInv

LEMMA DeliverySound ==
  ASSUME IInv, NEW d \in DOMAIN deliveries, NEW w \in DeliveryRow,
         w.sale = deliveries[d].sale, w.signed = deliveries[d].signed,
         w.status = "delivered" => w.signed,
         Delivery(d, w), plan' \in Plan
  PROVE  IInv'
  <1>1. /\ deliveries' = [deliveries EXCEPT ![d] = w]
        /\ UNCHANGED <<vehicle, sales, invoices, authorizations, returns>>
        /\ request' = request
    BY DEF Delivery
  <1>2. request' \in [Clerk -> Late \cup {None}] /\ \A c \in Clerk : request'[c] \in {request[c], None}
    BY <1>1 DEF IInv, TypeOK
  <1> QED BY <1>1, <1>2, DeliveryChanged

LEMMA DeliveryAt ==
  ASSUME IInv, NEW d \in DOMAIN deliveries
  PROVE  /\ TypeOK /\ plan \in Plan /\ deliveries[d] \in DeliveryRow
         /\ deliveries[d].sale \in DOMAIN sales /\ sales[deliveries[d].sale] \in SaleRow
         /\ deliveries[d].status = "delivered" => deliveries[d].signed
         /\ deliveries[d].signed => sales[deliveries[d].sale].status = "delivered"
         /\ sales[deliveries[d].sale].status \in {"ready_for_delivery", "delivered"}
  BY Tables DEF IInv, TypeOK, DeliveriesOfSales

LEMMA PlanDeliveryStep ==
  ASSUME IInv, NEW s \in DOMAIN sales, PlanDelivery(s)
  PROVE  IInv'
  <1> DEFINE w == [sale |-> s, status |-> "planned", checklist |-> "none",
                   papers |-> TRUE, signed |-> FALSE]
             n == Len(deliveries) + 1
  <1>1. TypeOK /\ s \in 1..MaxSale /\ deliveries \in Seq(DeliveryRow) /\ Len(deliveries) \in Nat
    BY Tables DEF IInv, TypeOK
  <1>2. w \in DeliveryRow /\ w.sale = s /\ ~w.signed /\ w.status = "planned"
    BY <1>1 DEF DeliveryRow, DeliveryStatus, Checklist
  <1>3. /\ Len(deliveries) < MaxDelivery /\ sales[s].status = "ready_for_delivery"
        /\ deliveries' = Append(deliveries, w)
        /\ UNCHANGED <<vehicle, sales, invoices, authorizations, returns, request, plan>>
    BY DEF PlanDelivery
  <1> HIDE DEF w
  <1>4. /\ deliveries' \in Seq(DeliveryRow) /\ Len(deliveries') = n
        /\ DOMAIN deliveries' = DOMAIN deliveries \cup {n} /\ n \notin DOMAIN deliveries
        /\ deliveries'[n] = w /\ \A e \in DOMAIN deliveries : deliveries'[e] = deliveries[e]
    BY <1>1, <1>2, <1>3, RowAdded
  <1>5. Len(deliveries') <= MaxDelivery
    BY <1>1, <1>3, <1>4, SalesAssumption
  <1> HIDE DEF n
  <1>6. TypeOK'
    BY <1>3, <1>4, <1>5 DEF IInv, TypeOK
  <1>7. Money' /\ InvoicesOfSales' /\ Warranties'
    BY <1>3, <1>4, MoneyStays DEF IInv, ReturnsKept, InvoicesOfSales, Warranties
  <1>8. DeliveriesOfSales'
    <2>1. DeliveriesOfSales
      BY DEF IInv
    <2>2. \A e \in DOMAIN deliveries' :
              /\ deliveries'[e].sale \in DOMAIN sales'
              /\ sales'[deliveries'[e].sale].status \in {"ready_for_delivery", "delivered"}
              /\ deliveries'[e].signed => sales'[deliveries'[e].sale].status = "delivered"
              /\ deliveries'[e].status = "delivered" => deliveries'[e].signed
      BY <1>2, <1>3, <1>4, <2>1 DEF DeliveriesOfSales
    <2>3. \A t \in DOMAIN sales' : sales'[t].status = "delivered" =>
              \E e \in DOMAIN deliveries' : deliveries'[e].sale = t /\ deliveries'[e].signed
      BY <1>3, <1>4, <2>1 DEF DeliveriesOfSales
    <2>4. \A b, e \in DOMAIN deliveries' :
              deliveries'[b].signed /\ deliveries'[e].signed /\ deliveries'[b].sale = deliveries'[e].sale
                  => b = e
      BY <1>2, <1>4, <2>1 DEF DeliveriesOfSales
    <2> QED BY <2>2, <2>3, <2>4 DEF DeliveriesOfSales
  <1>9. ReturnsOfDeliveries' /\ Requests'
    BY <1>3, <1>4 DEF IInv, ReturnsOfDeliveries, Requests
  <1> QED BY <1>6, <1>7, <1>8, <1>9 DEF IInv

LEMMA StepDeliveryStep ==
  ASSUME IInv, NEW d \in DOMAIN deliveries, NEW next \in DeliveryStatus, StepDelivery(d, next)
  PROVE  IInv'
  <1> DEFINE x == deliveries[d]
  <1>1. x \in DeliveryRow /\ plan \in Plan /\ x.checklist \in Checklist
    BY DeliveryAt, DeliveryFields
  <1>2. <<x.status, next>> \in Steps /\ UNCHANGED plan
    BY DEF StepDelivery
  <1>3. next # "delivered"
    BY <1>2 DEF Steps
  <1>4. PICK c \in IF x.status = "planned" /\ x.checklist = "none"
                   THEN {"open", "complete"} ELSE {x.checklist} :
            Delivery(d, [x EXCEPT !.status = next, !.checklist = c])
    BY DEF StepDelivery
  <1>5. c \in Checklist
    BY <1>1, <1>4 DEF Checklist
  <1> DEFINE w == [x EXCEPT !.status = next, !.checklist = c]
  <1>6. w \in DeliveryRow /\ w.sale = x.sale /\ w.signed = x.signed /\ w.status = next
    BY <1>1, <1>5 DEF DeliveryRow
  <1>7. Delivery(d, w) /\ plan' \in Plan
    BY <1>1, <1>2, <1>4
  <1> HIDE DEF w
  <1> QED BY <1>3, <1>6, <1>7, DeliverySound

LEMMA CheckItemStep ==
  ASSUME IInv, NEW d \in DOMAIN deliveries, CheckItem(d)
  PROVE  IInv'
  <1> DEFINE x == deliveries[d]
             w == [x EXCEPT !.checklist = IF @ = "open" THEN "complete" ELSE "open"]
  <1>1. x \in DeliveryRow /\ plan \in Plan
    BY DeliveryAt
  <1>2. w \in DeliveryRow /\ w.sale = x.sale /\ w.signed = x.signed /\ w.status = x.status
    BY <1>1 DEF DeliveryRow, Checklist
  <1>3. Delivery(d, w) /\ UNCHANGED plan
    BY DEF CheckItem
  <1> HIDE DEF w
  <1> QED BY <1>1, <1>2, <1>3, DeliveryAt, DeliverySound

LEMMA CancelDeliveryStep ==
  ASSUME IInv, NEW d \in DOMAIN deliveries, CancelDelivery(d)
  PROVE  IInv'
  <1> DEFINE x == deliveries[d]
             w == [x EXCEPT !.status = "cancelled"]
  <1>1. x \in DeliveryRow /\ TypeOK
    BY DeliveryAt
  <1>2. w \in DeliveryRow /\ w.sale = x.sale /\ w.signed = x.signed /\ w.status = "cancelled"
    BY <1>1 DEF DeliveryRow, DeliveryStatus
  <1>3. Delivery(d, w) /\ Does("cancellation")
    BY DEF CancelDelivery
  <1>4. plan' \in Plan
    BY <1>1, <1>3, Planned DEF Errand
  <1> HIDE DEF w
  <1> QED BY <1>2, <1>3, <1>4, DeliverySound

\* the largest of finitely many numbers
LEMMA LargestIsIn ==
  ASSUME NEW S, IsFiniteSet(S), S \subseteq Int, S # {}
  PROVE  Max(S) \in S /\ \A a \in S : a <= Max(S)
  <1>1. \E a \in S : \A c \in S : a >= c
    BY Largest
  <1>2. Max(S) = CHOOSE a \in S : \A c \in S : a >= c
    BY DEF Max
  <1>3. Max(S) \in S /\ \A c \in S : Max(S) >= c
    BY <1>1, <1>2
  <1> QED BY <1>3

\* the authorization in force
LEMMA LastAuthorized ==
  ASSUME TypeOK, NEW s, Authorized(s) # {}
  PROVE  Max(Authorized(s)) \in Authorized(s)
  <1>1. IsFiniteSet(DOMAIN authorizations) /\ DOMAIN authorizations \subseteq Int
    BY Tables, FS_Interval
  <1>2. Authorized(s) \subseteq DOMAIN authorizations
    BY DEF Authorized
  <1>3. IsFiniteSet(Authorized(s)) /\ Authorized(s) \subseteq Int
    BY <1>1, <1>2, FS_Subset
  <1> QED BY <1>3, LargestIsIn

-----------------------------------------------------------------------------
(* The handover.                                                           *)

LEMMA UseAuthorizationRows ==
  ASSUME TypeOK, NEW s, UseAuthorization(s)
  PROVE  authorizations' \in Seq(AuthorizationRow)
  <1>1. authorizations \in Seq(AuthorizationRow)
    BY DEF TypeOK
  <1>2. CASE Exposure(s) = 0 \/ Authorized(s) = {}
    BY <1>1, <1>2 DEF UseAuthorization
  <1>3. CASE ~(Exposure(s) = 0 \/ Authorized(s) = {})
    <2> DEFINE a == Max(Authorized(s))
               w == [authorizations[a] EXCEPT !.status = "USED"]
    <2>1. authorizations' = [authorizations EXCEPT ![a] = w]
      BY <1>3 DEF UseAuthorization
    <2>2. a \in Authorized(s)
      BY <1>3, LastAuthorized
    <2>3. a \in DOMAIN authorizations /\ authorizations[a] \in AuthorizationRow
      BY <2>2, Tables DEF Authorized
    <2> HIDE DEF a
    <2>4. w \in AuthorizationRow
      BY <2>3, AuthorizationFields DEF AuthorizationStatus
    <2> HIDE DEF w
    <2> QED BY <1>1, <2>1, <2>3, <2>4, RowSet
  <1> QED BY <1>2, <1>3

LEMMA HandOverRows ==
  ASSUME IInv, NEW d \in DOMAIN deliveries, HandOver(d), NEW s, s = deliveries[d].sale
  PROVE  /\ s \in DOMAIN sales
         /\ sales' \in Seq(SaleRow) /\ Len(sales') <= MaxSale /\ DOMAIN sales' = DOMAIN sales
         /\ sales'[s].status = "delivered" /\ sales'[s].vehicle = sales[s].vehicle
         /\ sales[s].warranty = "ACTIVE" => sales'[s].warranty = "ACTIVE"
         /\ \A t \in DOMAIN sales : t # s => sales'[t] = sales[t]
         /\ deliveries' \in Seq(DeliveryRow) /\ Len(deliveries') <= MaxDelivery
         /\ DOMAIN deliveries' = DOMAIN deliveries
         /\ deliveries'[d].sale = s /\ deliveries'[d].signed /\ deliveries'[d].status = "delivered"
         /\ \A e \in DOMAIN deliveries : e # d => deliveries'[e] = deliveries[e]
         /\ vehicle' \in [Vehicle -> VehicleStatus]
         /\ UNCHANGED <<invoices, returns, request, plan>>
  <1> DEFINE x == deliveries[d]
             w == [x EXCEPT !.status = "delivered", !.signed = TRUE]
             y == sales[s]
             z == [y EXCEPT !.status = "delivered", !.warranty = Activated(y.warranty)]
  <1>1. /\ TypeOK /\ x \in DeliveryRow /\ s \in DOMAIN sales /\ y \in SaleRow
    BY DeliveryAt
  <1>2. /\ deliveries' = [deliveries EXCEPT ![d].status = "delivered", ![d].signed = TRUE]
        /\ sales' = [sales EXCEPT ![s].status = "delivered", ![s].warranty = Activated(@)]
        /\ vehicle' = [vehicle EXCEPT ![y.vehicle] = "delivered"]
        /\ UNCHANGED <<invoices, returns, request, plan>>
    BY DEF HandOver
  <1>3. /\ w \in DeliveryRow /\ w.sale = s /\ w.signed /\ w.status = "delivered"
    BY <1>1 DEF DeliveryRow, DeliveryStatus
  <1>4. Activated(y.warranty) \in Warranty /\ (y.warranty = "ACTIVE" => Activated(y.warranty) = "ACTIVE")
    BY <1>1 DEF SaleRow, Activated, Warranty
  <1>5. /\ z \in SaleRow /\ z.status = "delivered" /\ z.vehicle = y.vehicle
        /\ z.warranty = Activated(y.warranty)
    <2> DEFINE k == Activated(y.warranty)
    <2> HIDE DEF k
    <2>1. k \in Warranty
      BY <1>4 DEF k
    <2>2. [y EXCEPT !.status = "delivered", !.warranty = k] \in SaleRow
      BY <1>1, <2>1 DEF SaleRow, SaleStatus
    <2>3. z = [y EXCEPT !.status = "delivered", !.warranty = k]
      BY DEF k
    <2>4. z.warranty = k /\ z.status = "delivered" /\ z.vehicle = y.vehicle
      BY <1>1, <2>3 DEF SaleRow
    <2> QED BY <2>2, <2>3, <2>4 DEF k
  <1>6. deliveries \in Seq(DeliveryRow) /\ sales \in Seq(SaleRow) /\ Len(deliveries) <= MaxDelivery
    BY <1>1 DEF TypeOK
  <1>7. deliveries' = [deliveries EXCEPT ![d] = w]
    BY <1>1, <1>2
  <1>8. sales' = [sales EXCEPT ![s] = z]
    BY <1>1, <1>2
  <1>9. vehicle' \in [Vehicle -> VehicleStatus]
    <2>1. vehicle \in [Vehicle -> VehicleStatus] /\ "delivered" \in VehicleStatus
      BY <1>1 DEF TypeOK, VehicleStatus
    <2> QED BY <1>2, <2>1
  <1> HIDE DEF w, z
  <1>10. /\ deliveries' \in Seq(DeliveryRow) /\ Len(deliveries') = Len(deliveries)
         /\ DOMAIN deliveries' = DOMAIN deliveries /\ deliveries'[d] = w
         /\ \A e \in DOMAIN deliveries : e # d => deliveries'[e] = deliveries[e]
    BY <1>3, <1>6, <1>7, RowSet
  <1>11. /\ sales' \in Seq(SaleRow) /\ Len(sales') <= MaxSale
         /\ DOMAIN sales' = DOMAIN sales /\ sales'[s] = z
         /\ \A t \in DOMAIN sales : t # s => sales'[t] = sales[t]
    BY <1>1, <1>5, <1>8, SaleChanged
  <1> QED BY <1>1, <1>2, <1>3, <1>4, <1>5, <1>6, <1>9, <1>10, <1>11

LEMMA SignStep ==
  ASSUME IInv, NEW d \in DOMAIN deliveries, Sign(d)
  PROVE  IInv'
  <1> DEFINE s == deliveries[d].sale
  <1>1. /\ sales[s].status = "ready_for_delivery" /\ UseAuthorization(s) /\ HandOver(d)
    BY DEF Sign
  <1>2. TypeOK
    BY DEF IInv
  <1>3. /\ s \in DOMAIN sales
        /\ sales' \in Seq(SaleRow) /\ Len(sales') <= MaxSale /\ DOMAIN sales' = DOMAIN sales
        /\ sales'[s].status = "delivered"
        /\ \A t \in DOMAIN sales : t # s => sales'[t] = sales[t]
        /\ deliveries' \in Seq(DeliveryRow) /\ Len(deliveries') <= MaxDelivery
        /\ DOMAIN deliveries' = DOMAIN deliveries
        /\ deliveries'[d].sale = s /\ deliveries'[d].signed /\ deliveries'[d].status = "delivered"
        /\ \A e \in DOMAIN deliveries : e # d => deliveries'[e] = deliveries[e]
        /\ vehicle' \in [Vehicle -> VehicleStatus]
        /\ UNCHANGED <<invoices, returns, request, plan>>
    BY <1>1, HandOverRows
  <1>4. authorizations' \in Seq(AuthorizationRow)
    BY <1>1, <1>2, UseAuthorizationRows
  <1>5. DeliveriesOfSales /\ \A e \in DOMAIN deliveries : deliveries[e].sale = s => ~deliveries[e].signed
    BY <1>1 DEF IInv, DeliveriesOfSales
  <1> HIDE DEF s
  <1>6. TypeOK'
    BY <1>2, <1>3, <1>4 DEF TypeOK
  <1>7. Money'
    <2>1. \A e \in DOMAIN deliveries : deliveries'[e].sale = deliveries[e].sale
      BY <1>3 DEF s
    <2> QED BY <1>3, <2>1, MoneyStays DEF ReturnsKept
  <1>8. InvoicesOfSales'
    BY <1>3 DEF IInv, InvoicesOfSales
  <1>9. DeliveriesOfSales'
    <2>1. \A e \in DOMAIN deliveries' :
              /\ deliveries'[e].sale \in DOMAIN sales'
              /\ sales'[deliveries'[e].sale].status \in {"ready_for_delivery", "delivered"}
              /\ deliveries'[e].signed => sales'[deliveries'[e].sale].status = "delivered"
              /\ deliveries'[e].status = "delivered" => deliveries'[e].signed
      <3>1. TAKE e \in DOMAIN deliveries'
      <3>2. e \in DOMAIN deliveries
        BY <1>3
      <3>3. CASE e = d
        BY <1>3, <3>3
      <3>4. CASE e # d
        <4>1. /\ deliveries'[e] = deliveries[e]
              /\ deliveries[e].sale \in DOMAIN sales
              /\ sales[deliveries[e].sale].status \in {"ready_for_delivery", "delivered"}
              /\ deliveries[e].signed => sales[deliveries[e].sale].status = "delivered"
              /\ deliveries[e].status = "delivered" => deliveries[e].signed
          BY <1>3, <1>5, <3>2, <3>4 DEF DeliveriesOfSales
        <4>2. CASE deliveries[e].sale = s
          BY <1>3, <4>1, <4>2
        <4>3. CASE deliveries[e].sale # s
          <5>1. sales'[deliveries[e].sale] = sales[deliveries[e].sale]
            BY <1>3, <4>1, <4>3
          <5> QED BY <1>3, <4>1, <5>1
        <4> QED BY <4>2, <4>3
      <3> QED BY <3>3, <3>4
    <2>2. \A t \in DOMAIN sales' : sales'[t].status = "delivered" =>
              \E e \in DOMAIN deliveries' : deliveries'[e].sale = t /\ deliveries'[e].signed
      <3>1. TAKE t \in DOMAIN sales'
      <3>2. CASE t = s
        BY <1>3, <3>2
      <3>3. CASE t # s /\ sales'[t].status = "delivered"
        <4>1. t \in DOMAIN sales /\ sales[t].status = "delivered"
          BY <1>3, <3>3
        <4>2. PICK e \in DOMAIN deliveries : deliveries[e].sale = t /\ deliveries[e].signed
          BY <1>5, <4>1 DEF DeliveriesOfSales
        <4>3. e # d
          BY <3>3, <4>2 DEF s
        <4> QED BY <1>3, <4>2, <4>3
      <3> QED BY <3>2, <3>3
    <2>3. \A b, e \in DOMAIN deliveries' :
              deliveries'[b].signed /\ deliveries'[e].signed /\ deliveries'[b].sale = deliveries'[e].sale
                  => b = e
      BY <1>3, <1>5 DEF DeliveriesOfSales
    <2> QED BY <2>1, <2>2, <2>3 DEF DeliveriesOfSales
  <1>10. ReturnsOfDeliveries'
    BY <1>3 DEF IInv, ReturnsOfDeliveries
  <1>11. Warranties' /\ Requests'
    BY <1>3 DEF IInv, Warranties, Requests
  <1> QED BY <1>6, <1>7, <1>8, <1>9, <1>10, <1>11 DEF IInv

-----------------------------------------------------------------------------
(* Returns.                                                                *)

\* a step that changes the returns and nothing else
LEMMA ReturnsOnly ==
  ASSUME IInv, returns' \in Seq(ReturnRow), ReturnsOfDeliveries', ReturnsKept, plan' \in Plan,
         vehicle' \in [Vehicle -> VehicleStatus],
         UNCHANGED <<sales, invoices, authorizations, deliveries, request>>
  PROVE  IInv'
  <1>1. TypeOK'
    BY DEF IInv, TypeOK
  <1>2. Money' /\ InvoicesOfSales'
    BY MoneyStays DEF IInv, InvoicesOfSales
  <1>3. DeliveriesOfSales' /\ Warranties' /\ Requests'
    BY DEF IInv, DeliveriesOfSales, Warranties, Requests, ReturnsKept
  <1> QED BY <1>1, <1>2, <1>3 DEF IInv

\* the row of a return is written, of the same delivery
LEMMA ReturnChanged ==
  ASSUME IInv, NEW r \in DOMAIN returns, NEW w \in ReturnRow, w.delivery = returns[r].delivery,
         returns[r].status \in SettledStatus => w.status \in SettledStatus,
         returns' = [returns EXCEPT ![r] = w], UNCHANGED deliveries
  PROVE  returns' \in Seq(ReturnRow) /\ ReturnsOfDeliveries' /\ ReturnsKept
  <1>1. returns \in Seq(ReturnRow)
    BY DEF IInv, TypeOK
  <1>2. /\ returns' \in Seq(ReturnRow) /\ DOMAIN returns' = DOMAIN returns /\ returns'[r] = w
        /\ \A q \in DOMAIN returns : q # r => returns'[q] = returns[q]
    BY <1>1, RowSet
  <1>3. ReturnsKept
    BY <1>2 DEF ReturnsKept
  <1> QED BY <1>2, <1>3 DEF IInv, ReturnsOfDeliveries

LEMMA ReturnFields ==
  ASSUME NEW x \in ReturnRow
  PROVE  /\ x.delivery \in 1..MaxDelivery /\ x.status \in ReturnStatus /\ x.retained \in Nat
         /\ \A next \in ReturnStatus : /\ [x EXCEPT !.status = next] \in ReturnRow
                                       /\ [x EXCEPT !.status = next].delivery = x.delivery
                                       /\ [x EXCEPT !.status = next].status = next
         /\ \A n \in Nat : /\ [x EXCEPT !.retained = n] \in ReturnRow
                           /\ [x EXCEPT !.retained = n].delivery = x.delivery
                           /\ [x EXCEPT !.retained = n].status = x.status
  BY DEF ReturnRow

LEMMA ReturnAt ==
  ASSUME IInv, NEW r \in DOMAIN returns
  PROVE  /\ TypeOK /\ plan \in Plan /\ vehicle \in [Vehicle -> VehicleStatus]
         /\ returns[r] \in ReturnRow /\ returns[r].delivery \in DOMAIN deliveries
         /\ deliveries[returns[r].delivery].signed
  BY Tables DEF IInv, TypeOK, ReturnsOfDeliveries

LEMMA RequestReturnStep ==
  ASSUME IInv, NEW d \in DOMAIN deliveries, RequestReturn(d)
  PROVE  IInv'
  <1> DEFINE w == [delivery |-> d, status |-> "REQUESTED", retained |-> 0]
  <1>1. /\ TypeOK /\ d \in 1..MaxDelivery /\ returns \in Seq(ReturnRow)
        /\ vehicle \in [Vehicle -> VehicleStatus]
    BY Tables DEF IInv, TypeOK
  <1>2. /\ Does("return") /\ deliveries[d].status = "delivered" /\ returns' = Append(returns, w)
        /\ UNCHANGED <<vehicle, sales, invoices, authorizations, deliveries, request>>
    BY DEF RequestReturn
  <1>3. plan' \in Plan
    BY <1>1, <1>2, Planned DEF Errand
  <1>4. w \in ReturnRow /\ w.delivery = d /\ deliveries[d].signed
    BY <1>1, <1>2, DeliveryAt DEF ReturnRow, ReturnStatus
  <1> HIDE DEF w
  <1>5. /\ returns' \in Seq(ReturnRow) /\ DOMAIN returns' = DOMAIN returns \cup {Len(returns) + 1}
        /\ Len(returns) + 1 \notin DOMAIN returns /\ returns'[Len(returns) + 1] = w
        /\ \A q \in DOMAIN returns : returns'[q] = returns[q]
    BY <1>1, <1>2, <1>4, RowAdded
  <1>6. ReturnsOfDeliveries'
    <2>1. \A q \in DOMAIN returns : returns[q].delivery # d
      BY DEF RequestReturn
    <2> QED BY <1>2, <1>4, <1>5, <2>1 DEF IInv, ReturnsOfDeliveries
  <1>7. ReturnsKept
    BY <1>5 DEF ReturnsKept
  <1> QED BY <1>1, <1>2, <1>3, <1>5, <1>6, <1>7, ReturnsOnly

LEMMA StepReturnStep ==
  ASSUME IInv, NEW r \in DOMAIN returns, NEW next \in ReturnStatus, StepReturn(r, next)
  PROVE  IInv'
  <1> DEFINE w == [returns[r] EXCEPT !.status = next]
  <1>1. w \in ReturnRow /\ w.delivery = returns[r].delivery /\ w.status = next
    BY ReturnAt, ReturnFields
  <1>2. /\ returns' = [returns EXCEPT ![r] = w]
        /\ returns[r].status \in SettledStatus => next \in SettledStatus
        /\ UNCHANGED <<vehicle, sales, invoices, authorizations, deliveries, request, plan>>
    BY DEF StepReturn, ReturnSteps, SettledStatus
  <1> HIDE DEF w
  <1> QED BY <1>1, <1>2, ReturnAt, ReturnChanged, ReturnsOnly

LEMMA DeductStep ==
  ASSUME IInv, NEW r \in DOMAIN returns, NEW n \in 0..Price, Deduct(r, n)
  PROVE  IInv'
  <1> DEFINE w == [returns[r] EXCEPT !.retained = n]
  <1>1. n \in Nat
    BY SalesAssumption
  <1>2. w \in ReturnRow /\ w.delivery = returns[r].delivery /\ TypeOK
        /\ w.status = returns[r].status
    BY <1>1, ReturnAt, ReturnFields
  <1>3. /\ Does("deduction") /\ returns' = [returns EXCEPT ![r] = w]
        /\ UNCHANGED <<vehicle, sales, invoices, authorizations, deliveries, request>>
    BY DEF Deduct
  <1>4. plan' \in Plan
    BY <1>2, <1>3, Planned DEF Errand
  <1> HIDE DEF w
  <1> QED BY <1>2, <1>3, <1>4, ReturnAt, ReturnChanged, ReturnsOnly

LEMMA StockDecisionStep ==
  ASSUME IInv, NEW r \in DOMAIN returns, NEW next \in AdministrableVehicleStatus,
         StockDecision(r, next)
  PROVE  IInv'
  <1> DEFINE w == [returns[r] EXCEPT !.status = "STOCK_DECIDED"]
             v == sales[deliveries[returns[r].delivery].sale].vehicle
  <1>1. /\ vehicle' = [vehicle EXCEPT ![v] = next] /\ returns' = [returns EXCEPT ![r] = w]
        /\ UNCHANGED <<sales, invoices, authorizations, deliveries, request, plan>>
    BY DEF StockDecision
  <1>2. w \in ReturnRow /\ w.delivery = returns[r].delivery /\ w.status \in SettledStatus
    BY ReturnAt, ReturnFields DEF ReturnStatus, SettledStatus
  <1>3. vehicle' \in [Vehicle -> VehicleStatus]
    <2>1. next \in VehicleStatus /\ vehicle \in [Vehicle -> VehicleStatus]
      BY ReturnAt DEF AdministrableVehicleStatus, VehicleStatus
    <2> HIDE DEF v
    <2> QED BY <1>1, <2>1
  <1> HIDE DEF w, v
  <1> QED BY <1>1, <1>2, <1>3, ReturnAt, ReturnChanged, ReturnsOnly

\* what is kept of an invoice is part of what the view says was received for it
\* and can still be credited
LEMMA KeptBounds ==
  ASSUME IInv, NEW view \in Seq(InvoiceRow),
         NEW chosen, chosen \subseteq DOMAIN invoices, chosen \subseteq DOMAIN view,
         NEW i \in chosen, NEW retained \in Nat
  PROVE  /\ Kept(i, chosen, retained, view) \in Nat
         /\ Kept(i, chosen, retained, view) <= Creditable(i, view)
         /\ Kept(i, chosen, retained, view) <= Cash(i, view)
         /\ Kept(i, chosen, retained, view) <= retained
         /\ Creditable(i, view) \in Nat /\ Cash(i, view) \in Nat
  <1> DEFINE f == [j \in DOMAIN view |-> Retainable(j, view)]
             earlier == {j \in chosen : Before(j, i)}
             reached == SumFunctionOnSet(f, earlier)
  <1>1. \A j \in chosen : /\ Creditable(j, view) \in Nat /\ Cash(j, view) \in Nat
                          /\ Retainable(j, view) \in Nat
                          /\ Retainable(j, view) <= Creditable(j, view)
                          /\ Retainable(j, view) <= Cash(j, view)
    <2> TAKE j \in chosen
    <2>1. invoices[j] \in InvoiceRow /\ view[j] \in InvoiceRow
      BY InvoiceAt, TableRows
    <2>2. Creditable(j, view) \in Nat /\ Cash(j, view) \in Nat
      BY <2>1, InvoiceFields, Amounts DEF Creditable, Cash
    <2> QED BY <2>2, Amounts DEF Retainable
  <1>2. IsFiniteSet(earlier)
    <2>1. IsFiniteSet(DOMAIN invoices)
      BY Tables DEF IInv
    <2> QED BY <2>1, FS_Subset
  <1>3. \A j \in earlier : f[j] \in Nat
    BY <1>1
  <1>4. Kept(i, chosen, retained, view) = Least(Over(retained, reached), Retainable(i, view))
    BY DEF Kept
  <1> HIDE DEF f, earlier
  <1>5. reached \in Nat
    BY <1>2, <1>3, SumNat
  <1> HIDE DEF reached
  <1>6. Over(retained, reached) \in Nat /\ Over(retained, reached) <= retained
    BY <1>5 DEF Over
  <1> QED BY <1>1, <1>4, <1>6 DEF Least

\* a row credited and refunded, and rebuilt from what was read of it
LEMMA CorrectedRow ==
  ASSUME NEW i \in DOMAIN invoices, invoices[i] \in InvoiceRow,
         NEW view, view[i] \in InvoiceRow, NEW credit \in Nat, NEW refund \in Nat
  PROVE  /\ Corrected(i, credit, refund, view) \in InvoiceRow
         /\ Corrected(i, credit, refund, view).sale = invoices[i].sale
         /\ view[i] = invoices[i] => Corrected(i, credit, refund, view) =
                IF credit = 0 THEN invoices[i]
                ELSE Recalculated([invoices[i] EXCEPT !.credited = @ + credit, !.refunded = @ + refund])
  <1> DEFINE v == invoices[i]
             x == view[i]
             u == [x EXCEPT !.credited = @ + credit, !.refunded = @ + refund]
             y == Recalculated(u)
             w == [v EXCEPT !.credited = @ + credit, !.refunded = @ + refund,
                            !.paid = y.paid, !.balance = y.balance, !.status = y.status]
  <1>1. Corrected(i, credit, refund, view) = IF credit = 0 THEN v ELSE w
    BY DEF Corrected
  <1>2. v \in InvoiceRow /\ x \in InvoiceRow
    OBVIOUS
  <1> HIDE DEF v, x
  <1>3. u \in InvoiceRow
    <2>1. x.credited + credit \in Nat /\ x.refunded + refund \in Nat
      BY <1>2, InvoiceFields
    <2>2. u = [x EXCEPT !.credited = x.credited + credit, !.refunded = x.refunded + refund]
      BY <1>2 DEF InvoiceRow
    <2> QED BY <1>2, <2>1, <2>2 DEF InvoiceRow
  <1>4. /\ y \in InvoiceRow
        /\ y = [u EXCEPT !.paid = y.paid, !.balance = y.balance, !.status = y.status]
    <2> HIDE DEF u
    <2> QED BY <1>3, RecalculatedSound
  <1>5. v = x => y = w
    <2> HIDE DEF y
    <2> QED BY <1>2, <1>4 DEF InvoiceRow
  <1>6. w \in InvoiceRow /\ w.sale = v.sale
    <2>1. v.credited + credit \in Nat /\ v.refunded + refund \in Nat
      BY <1>2, InvoiceFields
    <2>2. y.paid \in Nat /\ y.balance \in Nat /\ y.status \in InvoiceStatus
      BY <1>4, InvoiceFields
    <2> HIDE DEF y
    <2>3. w = [v EXCEPT !.credited = v.credited + credit, !.refunded = v.refunded + refund,
                        !.paid = y.paid, !.balance = y.balance, !.status = y.status]
      BY <1>2 DEF InvoiceRow
    <2> QED BY <1>2, <2>1, <2>2, <2>3 DEF InvoiceRow
  <1> HIDE DEF w
  <1> QED BY <1>1, <1>2, <1>5, <1>6 DEF v, x, y, u

\* the invoices of a settled return
LEMMA SettleRows ==
  ASSUME IInv, NEW r \in DOMAIN returns, NEW chosen \in SUBSET DOMAIN invoices,
         NEW view \in Seq(InvoiceRow), Settle(r, chosen, view), NEW i \in DOMAIN invoices
  PROVE  /\ invoices' \in [DOMAIN invoices -> InvoiceRow]
         /\ invoices'[i].sale = invoices[i].sale
         /\ i \notin chosen => invoices'[i] = invoices[i]
         /\ i \in chosen /\ view[i] = invoices[i] /\ InvoiceSound(invoices[i]) =>
               LET v == invoices[i]
                   w == invoices'[i]
                   kept == Kept(i, chosen, returns[r].retained, view)
               IN /\ InvoiceSound(w)
                  /\ w.credited > v.credited =>
                        /\ w.balance = 0
                        /\ Over(w.received, w.refunded) <= kept + v.credited - v.refunded
                  /\ Over(w.received, w.refunded) >= kept
                  /\ kept = Retainable(i, view) => Over(w.received, w.refunded) = Cash(i, view)
  <1> DEFINE kept(j) == Kept(j, chosen, returns[r].retained, view)
  <1>1. /\ invoices' = [j \in DOMAIN invoices |->
                           IF j \in chosen THEN Settled(j, kept(j), view) ELSE invoices[j]]
        /\ chosen \subseteq Billable(deliveries[returns[r].delivery].sale)
        /\ chosen \subseteq DOMAIN view
    BY DEF Settle
  <1>2. returns[r].retained \in Nat
    BY ReturnAt, ReturnFields
  <1>3. ASSUME NEW j \in chosen
        PROVE  /\ kept(j) \in Nat /\ kept(j) <= Creditable(j, view) /\ kept(j) <= Cash(j, view)
               /\ Creditable(j, view) \in Nat /\ Cash(j, view) \in Nat
    BY <1>1, <1>2, KeptBounds
  <1> HIDE DEF kept
  <1> DEFINE credit(j) == Creditable(j, view) - kept(j)
             refund(j) == Least(credit(j), Over(Cash(j, view), kept(j)))
  <1>4. ASSUME NEW j \in chosen PROVE credit(j) \in Nat /\ refund(j) \in Nat
    <2>1. credit(j) \in Nat
      BY <1>3
    <2> HIDE DEF credit
    <2> QED BY <1>3, <2>1, Amounts
  <1>5. \A j \in chosen : Settled(j, kept(j), view) = Corrected(j, credit(j), refund(j), view)
    BY DEF Settled
  <1> HIDE DEF credit, refund
  <1>6. ASSUME NEW j \in chosen
        PROVE  /\ Settled(j, kept(j), view) \in InvoiceRow
               /\ Settled(j, kept(j), view).sale = invoices[j].sale
               /\ view[j] = invoices[j] => Settled(j, kept(j), view) =
                      IF credit(j) = 0 THEN invoices[j]
                      ELSE Recalculated([invoices[j] EXCEPT !.credited = @ + credit(j),
                                                            !.refunded = @ + refund(j)])
    <2>1. j \in DOMAIN invoices /\ invoices[j] \in InvoiceRow /\ view[j] \in InvoiceRow
      BY <1>1, InvoiceAt, TableRows
    <2>2. \A c, f \in Nat :
              /\ Corrected(j, c, f, view) \in InvoiceRow
              /\ Corrected(j, c, f, view).sale = invoices[j].sale
              /\ view[j] = invoices[j] => Corrected(j, c, f, view) =
                     IF c = 0 THEN invoices[j]
                     ELSE Recalculated([invoices[j] EXCEPT !.credited = @ + c, !.refunded = @ + f])
      BY <2>1, CorrectedRow
    <2>3. /\ credit(j) \in Nat /\ refund(j) \in Nat
          /\ Settled(j, kept(j), view) = Corrected(j, credit(j), refund(j), view)
      BY <1>4, <1>5
    <2>4. /\ Corrected(j, credit(j), refund(j), view) \in InvoiceRow
          /\ Corrected(j, credit(j), refund(j), view).sale = invoices[j].sale
          /\ view[j] = invoices[j] => Corrected(j, credit(j), refund(j), view) =
                 IF credit(j) = 0 THEN invoices[j]
                 ELSE Recalculated([invoices[j] EXCEPT !.credited = @ + credit(j),
                                                       !.refunded = @ + refund(j)])
      BY <2>2, <2>3
    <2> QED BY <2>3, <2>4
  <1>7. invoices' \in [DOMAIN invoices -> InvoiceRow]
    BY <1>1, <1>6, InvoiceAt
  <1>8. CASE i \in chosen
    <2> DEFINE v == invoices[i]
               k == kept(i)
               w == invoices'[i]
    <2>1. w = Settled(i, k, view)
      BY <1>1, <1>8
    <2>2. ASSUME view[i] = v, InvoiceSound(v)
          PROVE  /\ InvoiceSound(w)
                 /\ w.credited > v.credited =>
                        /\ w.balance = 0
                        /\ Over(w.received, w.refunded) <= k + v.credited - v.refunded
                 /\ Over(w.received, w.refunded) >= k
                 /\ k = Retainable(i, view) => Over(w.received, w.refunded) = Cash(i, view)
      <3>1. v \in InvoiceRow /\ v.status \notin {"draft", "cancelled"}
        BY <1>1, <1>8, InvoiceAt DEF Billable, Live
      <3>2. Creditable(i, view) = Over(v.total, v.credited) /\ Cash(i, view) = Over(v.received, v.refunded)
        BY <2>2 DEF Creditable, Cash
      <3>3. k \in Nat /\ k <= Over(v.total, v.credited) /\ k <= Over(v.received, v.refunded)
        BY <1>3, <1>8, <3>2
      <3>4. w = SettledRow(v, k)
        <4>1. /\ credit(i) = Over(v.total, v.credited) - k
              /\ refund(i) = Least(Over(v.total, v.credited) - k, Over(Over(v.received, v.refunded), k))
          BY <3>2 DEF credit, refund
        <4>2. w = IF credit(i) = 0 THEN v
                  ELSE Recalculated([v EXCEPT !.credited = @ + credit(i), !.refunded = @ + refund(i)])
          BY <1>6, <1>8, <2>1, <2>2
        <4> HIDE DEF v, k, w
        <4> QED BY <4>1, <4>2 DEF SettledRow
      <3>5. Retainable(i, view) = Least(Over(v.total, v.credited), Over(v.received, v.refunded))
        BY <3>2 DEF Retainable
      <3> HIDE DEF v, k, w
      <3>6. /\ InvoiceSound(w)
            /\ w.credited > v.credited => /\ w.balance = 0
                                          /\ Over(w.received, w.refunded) <= k + v.credited - v.refunded
            /\ Over(w.received, w.refunded) >= k
            /\ k = Least(Over(v.total, v.credited), Over(v.received, v.refunded)) =>
                   Over(w.received, w.refunded) = Over(v.received, v.refunded)
        BY <2>2, <3>1, <3>3, <3>4, SettledSound
      <3> QED BY <3>2, <3>5, <3>6
    <2> QED BY <1>6, <1>7, <1>8, <2>1, <2>2 DEF kept
  <1>9. CASE i \notin chosen
    BY <1>1, <1>7, <1>9
  <1> QED BY <1>8, <1>9

\* a settlement of which what it misread is known
Seen(chosen, view) == \A i \in chosen : view[i] = invoices[i] \/ Misread(i)

LEMMA SettleStep ==
  ASSUME IInv, NEW r \in DOMAIN returns, NEW chosen \in SUBSET DOMAIN invoices,
         NEW view \in Seq(InvoiceRow), Settle(r, chosen, view), Seen(chosen, view),
         request' \in [Clerk -> Late \cup {None}], \A c \in Clerk : request'[c] \in {request[c], None}
  PROVE  IInv' /\ RowsKept
  <1> DEFINE x == [returns[r] EXCEPT !.status = "FINANCIALLY_RESOLVED"]
             s == deliveries[returns[r].delivery].sale
  <1>1. /\ returns' = [returns EXCEPT ![r] = x]
        /\ UNCHANGED <<vehicle, sales, authorizations, deliveries, plan>>
        /\ DOMAIN invoices' = DOMAIN invoices /\ chosen # {}
        /\ returns[r].status = "APPROVED" /\ chosen \subseteq Billable(s)
    BY DEF Settle
  <1>2. /\ x \in ReturnRow /\ x.delivery = returns[r].delivery /\ TypeOK
        /\ x.status = "FINANCIALLY_RESOLVED" /\ x.status \in SettledStatus
    BY ReturnAt, ReturnFields DEF ReturnStatus, SettledStatus
  <1> HIDE DEF x
  <1>3. returns' \in Seq(ReturnRow) /\ ReturnsOfDeliveries' /\ ReturnsKept
    BY <1>1, <1>2, ReturnChanged
  <1>4. \A i \in DOMAIN invoices :
            /\ invoices' \in [DOMAIN invoices -> InvoiceRow]
            /\ invoices'[i].sale = invoices[i].sale
            /\ i \notin chosen => invoices'[i] = invoices[i]
            /\ i \in chosen /\ view[i] = invoices[i] /\ InvoiceSound(invoices[i]) =>
                   InvoiceSound(invoices'[i])
    BY SettleRows
  <1>5. invoices' \in [DOMAIN invoices -> InvoiceRow]
    <2>1. PICK i \in DOMAIN invoices : TRUE
      BY <1>1
    <2> QED BY <1>4, <2>1
  <1>6. invoices' \in Seq(InvoiceRow) /\ Len(invoices') <= MaxInvoice
    <2>1. invoices \in Seq(InvoiceRow) /\ Len(invoices) <= MaxInvoice
      BY <1>2 DEF TypeOK
    <2> QED BY <1>5, <2>1, RowsMade
  <1>7. TypeOK'
    BY <1>1, <1>2, <1>3, <1>6 DEF TypeOK
  <1>8. \A i \in chosen : invoices[i].sale = s
    BY <1>1 DEF Billable, Live
  <1>9. \A u : u = s => \E q \in DOMAIN returns' : /\ deliveries'[returns'[q].delivery].sale = u
                                                    /\ returns'[q].status \in SettledStatus
    <2>1. r \in DOMAIN returns' /\ returns'[r] = x
      <3>1. returns \in Seq(ReturnRow)
        BY <1>2 DEF TypeOK
      <3> QED BY <1>1, <1>2, <3>1, RowSet
    <2> QED BY <1>1, <1>2, <2>1
  <1>10. Money'
    <2> SUFFICES ASSUME NEW i \in DOMAIN invoices
                 PROVE  (Resolved(invoices[i].sale) \/ InvoiceSound(invoices[i]))'
      BY <1>1 DEF Money
    <2>1. CASE i \in chosen
      <3>1. invoices'[i].sale = s
        BY <1>4, <1>8, <2>1
      <3> HIDE DEF s
      <3> QED BY <1>9, <3>1 DEF Resolved
    <2>2. CASE i \notin chosen
      <3>1. invoices'[i] = invoices[i]
        BY <1>4, <2>2
      <3>2. Resolved(invoices[i].sale) \/ InvoiceSound(invoices[i])
        BY DEF IInv, Money
      <3>3. \A u : Resolved(u) => Resolved(u)'
        BY <1>1, <1>3, ResolvedStays
      <3> QED BY <3>1, <3>2, <3>3
    <2> QED BY <2>1, <2>2
  <1>11. InvoicesOfSales'
    <2>1. ASSUME NEW i \in DOMAIN invoices
          PROVE  /\ invoices'[i].sale \in DOMAIN sales
                 /\ sales[invoices'[i].sale].status = "cancelled" => invoices'[i].status = "cancelled"
      <3>1. CASE i \in chosen
        <4>1. invoices[i].status # "cancelled"
          BY <1>1, <3>1 DEF Billable, Live
        <4> QED BY <1>4, <4>1 DEF IInv, InvoicesOfSales
      <3>2. CASE i \notin chosen
        BY <1>4, <3>2 DEF IInv, InvoicesOfSales
      <3> QED BY <3>1, <3>2
    <2> QED BY <1>1, <2>1 DEF InvoicesOfSales
  <1>12. DeliveriesOfSales' /\ Warranties'
    BY <1>1 DEF IInv, DeliveriesOfSales, Warranties
  <1>13. Requests'
    BY <1>1, <1>3 DEF IInv, Requests, ReturnsKept
  <1>14. RowsKept
    BY <1>1, <1>4 DEF RowsKept, Seen
  <1> QED BY <1>3, <1>7, <1>10, <1>11, <1>12, <1>13, <1>14 DEF IInv

LEMMA ResolveStep ==
  ASSUME IInv, NEW r \in DOMAIN returns, NEW chosen \in SUBSET DOMAIN invoices, Resolve(r, chosen)
  PROVE  IInv' /\ RowsKept
  <1>1. Settle(r, chosen, invoices) /\ UNCHANGED request
    BY DEF Resolve
  <1>2. invoices \in Seq(InvoiceRow) /\ request' \in [Clerk -> Late \cup {None}]
    BY <1>1 DEF IInv, TypeOK
  <1>3. Seen(chosen, invoices)
    BY DEF Seen
  <1>4. \A c \in Clerk : request'[c] \in {request[c], None}
    BY <1>1
  <1> QED BY <1>1, <1>2, <1>3, <1>4, SettleStep

-----------------------------------------------------------------------------
(* What is decided on a row read earlier.                                  *)

LEMMA ReadSound ==
  ASSUME IInv, NEW c \in Clerk, NEW late \in Late, Read(c, late),
         late.op \in {"reschedule", "papers"} => late.id \in DOMAIN deliveries,
         late.op = "warranty" => late.id \in DOMAIN sales,
         late.op = "settlement" => late.id \in DOMAIN returns
  PROVE  IInv'
  <1>1. /\ Does("late") /\ request' = [request EXCEPT ![c] = late]
        /\ UNCHANGED <<vehicle, sales, invoices, authorizations, deliveries, returns>>
    BY DEF Read
  <1>2. TypeOK /\ plan' \in Plan
    BY <1>1, Planned DEF IInv, Errand
  <1>3. request' \in [Clerk -> Late \cup {None}] /\ request'[c] = late
        /\ \A k \in Clerk : k # c => request'[k] = request[k]
    BY <1>1, <1>2 DEF TypeOK
  <1>4. TypeOK'
    BY <1>1, <1>2, <1>3 DEF TypeOK
  <1>5. Money' /\ InvoicesOfSales' /\ ReturnsOfDeliveries'
    BY <1>1 DEF IInv, Money, Resolved, InvoicesOfSales, ReturnsOfDeliveries
  <1>6. DeliveriesOfSales' /\ Warranties'
    BY <1>1 DEF IInv, DeliveriesOfSales, Warranties
  <1>7. Requests'
    <2> SUFFICES ASSUME NEW k \in Clerk, request'[k] # None
                 PROVE  /\ request'[k].op \in {"reschedule", "papers"} => request'[k].id \in DOMAIN deliveries
                        /\ request'[k].op = "warranty" => request'[k].id \in DOMAIN sales
                        /\ request'[k].op = "settlement" => request'[k].id \in DOMAIN returns
      BY <1>1 DEF Requests
    <2>1. CASE k = c
      BY <1>3, <2>1
    <2>2. CASE k # c
      BY <1>3, <2>2 DEF IInv, Requests
    <2> QED BY <2>1, <2>2
  <1> QED BY <1>4, <1>5, <1>6, <1>7 DEF IInv

LEMMA ReadSteps ==
  ASSUME IInv, NEW c \in Clerk,
         \/ \E v \in Vehicle, next \in AdministrableVehicleStatus : ReadVehicle(c, v, next)
         \/ \E d \in DOMAIN deliveries : ReadReschedule(c, d) \/ \E b \in BOOLEAN : ReadPapers(c, d, b)
         \/ \E s \in DOMAIN sales, w \in Warranty \ {"ACTIVE"} : ReadWarranty(c, s, w)
         \/ \E r \in DOMAIN returns : ReadSettlement(c, r)
  PROVE  IInv'
  <1>1. ASSUME NEW v \in Vehicle, NEW next \in AdministrableVehicleStatus, ReadVehicle(c, v, next)
        PROVE  IInv'
    <2> DEFINE late == [op |-> "vehicle", id |-> v, value |-> next]
    <2>1. late \in Late /\ late.op = "vehicle"
      BY DEF Late
    <2>2. Read(c, late)
      BY <1>1 DEF ReadVehicle
    <2> HIDE DEF late
    <2> QED BY <2>1, <2>2, ReadSound
  <1>2. ASSUME NEW d \in DOMAIN deliveries, ReadReschedule(c, d) PROVE IInv'
    <2> DEFINE late == [op |-> "reschedule", id |-> d]
    <2>1. d \in 1..MaxDelivery
      BY Tables DEF IInv
    <2>2. late \in Late /\ late.op = "reschedule" /\ late.id = d
      BY <2>1 DEF Late
    <2>3. Read(c, late)
      BY <1>2 DEF ReadReschedule
    <2> HIDE DEF late
    <2> QED BY <2>2, <2>3, ReadSound
  <1>3. ASSUME NEW d \in DOMAIN deliveries, NEW b \in BOOLEAN, ReadPapers(c, d, b) PROVE IInv'
    <2> DEFINE late == [op |-> "papers", id |-> d, value |-> b]
    <2>1. d \in 1..MaxDelivery
      BY Tables DEF IInv
    <2>2. late \in Late /\ late.op = "papers" /\ late.id = d
      BY <2>1 DEF Late
    <2>3. Read(c, late)
      BY <1>3 DEF ReadPapers
    <2> HIDE DEF late
    <2> QED BY <2>2, <2>3, ReadSound
  <1>4. ASSUME NEW s \in DOMAIN sales, NEW w \in Warranty \ {"ACTIVE"}, ReadWarranty(c, s, w)
        PROVE  IInv'
    <2> DEFINE late == [op |-> "warranty", id |-> s, value |-> w]
    <2>1. s \in 1..MaxSale
      BY Tables DEF IInv
    <2>2. late \in Late /\ late.op = "warranty" /\ late.id = s
      BY <2>1 DEF Late
    <2>3. Read(c, late)
      BY <1>4 DEF ReadWarranty
    <2> HIDE DEF late
    <2> QED BY <2>2, <2>3, ReadSound
  <1>5. ASSUME NEW r \in DOMAIN returns, ReadSettlement(c, r) PROVE IInv'
    <2> DEFINE late == [op |-> "settlement", id |-> r, view |-> invoices]
    <2>1. r \in Nat /\ invoices \in Seq(InvoiceRow)
      BY Tables DEF IInv, TypeOK
    <2>2. late \in Late /\ late.op = "settlement" /\ late.id = r
      BY <2>1 DEF Late
    <2>3. Read(c, late)
      BY <1>5 DEF ReadSettlement
    <2> HIDE DEF late
    <2> QED BY <2>2, <2>3, ReadSound
  <1> QED BY <1>1, <1>2, <1>3, <1>4, <1>5

\* what a clerk is about to write
LEMMA LateFields ==
  ASSUME IInv, NEW c \in Clerk, request[c] # None
  PROVE  LET late == request[c] IN
         /\ late.op = "vehicle" => late.id \in Vehicle /\ late.value \in AdministrableVehicleStatus
         /\ late.op = "reschedule" => late.id \in DOMAIN deliveries
         /\ late.op = "papers" => late.id \in DOMAIN deliveries /\ late.value \in BOOLEAN
         /\ late.op = "warranty" => late.id \in DOMAIN sales /\ late.value \in Warranty \ {"ACTIVE"}
         /\ late.op = "settlement" => late.id \in DOMAIN returns /\ late.view \in Seq(InvoiceRow)
  <1> DEFINE late == request[c]
  <1>1. late \in Late
    BY DEF IInv, TypeOK
  <1>2. /\ late.op \in {"reschedule", "papers"} => late.id \in DOMAIN deliveries
        /\ late.op = "warranty" => late.id \in DOMAIN sales
        /\ late.op = "settlement" => late.id \in DOMAIN returns
    BY DEF IInv, Requests
  <1> HIDE DEF late
  <1>3. /\ late.op = "vehicle" => late.id \in Vehicle /\ late.value \in AdministrableVehicleStatus
        /\ late.op = "papers" => late.value \in BOOLEAN
        /\ late.op = "warranty" => late.value \in Warranty \ {"ACTIVE"}
        /\ late.op = "settlement" => late.view \in Seq(InvoiceRow)
    BY <1>1 DEF Late
  <1> QED BY <1>2, <1>3 DEF late

LEMMA DoneRequests ==
  ASSUME IInv, NEW c \in Clerk, Done(c)
  PROVE  /\ request' \in [Clerk -> Late \cup {None}]
         /\ \A k \in Clerk : request'[k] \in {request[k], None}
  <1>1. request \in [Clerk -> Late \cup {None}] /\ request' = [request EXCEPT ![c] = None]
    BY DEF IInv, TypeOK, Done
  <1> QED BY <1>1

LEMMA WriteVehicleStep ==
  ASSUME IInv, NEW c \in Clerk, WriteVehicle(c)
  PROVE  IInv'
  <1> DEFINE late == request[c]
  <1>1. /\ late # None /\ late.op = "vehicle" /\ Done(c)
        /\ vehicle' = [vehicle EXCEPT ![late.id] = late.value]
        /\ UNCHANGED <<sales, invoices, authorizations, deliveries, returns, plan>>
    BY DEF WriteVehicle
  <1>2. late.value \in VehicleStatus
    BY <1>1, LateFields DEF AdministrableVehicleStatus, VehicleStatus
  <1>3. request' \in [Clerk -> Late \cup {None}] /\ \A k \in Clerk : request'[k] \in {request[k], None}
    BY <1>1, DoneRequests
  <1>4. TypeOK'
    BY <1>1, <1>2, <1>3 DEF IInv, TypeOK
  <1>5. Money' /\ InvoicesOfSales' /\ ReturnsOfDeliveries'
    BY <1>1 DEF IInv, Money, Resolved, InvoicesOfSales, ReturnsOfDeliveries
  <1>6. DeliveriesOfSales' /\ Warranties'
    BY <1>1 DEF IInv, DeliveriesOfSales, Warranties
  <1>7. Requests'
    BY <1>1, <1>3 DEF IInv, Requests
  <1> QED BY <1>4, <1>5, <1>6, <1>7 DEF IInv

LEMMA WriteDeliverySteps ==
  ASSUME IInv, NEW c \in Clerk, WriteReschedule(c) \/ WritePapers(c)
  PROVE  IInv'
  <1> DEFINE late == request[c]
             d == late.id
  <1>1. CASE WriteReschedule(c)
    <2> DEFINE w == [deliveries[d] EXCEPT !.status = "planned"]
    <2>1. /\ late # None /\ late.op = "reschedule" /\ Done(c)
          /\ deliveries' = [deliveries EXCEPT ![d] = w]
          /\ UNCHANGED <<vehicle, sales, invoices, authorizations, returns, plan>>
      BY <1>1 DEF WriteReschedule
    <2>2. d \in DOMAIN deliveries
      BY <2>1, LateFields
    <2>3. deliveries[d] \in DeliveryRow /\ plan \in Plan
      BY <2>2, DeliveryAt
    <2>4. /\ w \in DeliveryRow /\ w.sale = deliveries[d].sale /\ w.signed = deliveries[d].signed
          /\ w.status = "planned"
      BY <2>3 DEF DeliveryRow, DeliveryStatus
    <2>5. request' \in [Clerk -> Late \cup {None}] /\ \A k \in Clerk : request'[k] \in {request[k], None}
      BY <2>1, DoneRequests
    <2> HIDE DEF w, d
    <2> QED BY <2>1, <2>2, <2>3, <2>4, <2>5, DeliveryChanged
  <1>2. CASE WritePapers(c)
    <2> DEFINE w == [deliveries[d] EXCEPT !.papers = late.value]
    <2>1. /\ late # None /\ late.op = "papers" /\ Done(c)
          /\ deliveries' = [deliveries EXCEPT ![d] = w]
          /\ UNCHANGED <<vehicle, sales, invoices, authorizations, returns, plan>>
      BY <1>2 DEF WritePapers
    <2>2. d \in DOMAIN deliveries /\ late.value \in BOOLEAN
      BY <2>1, LateFields
    <2>3. deliveries[d] \in DeliveryRow /\ plan \in Plan
          /\ (deliveries[d].status = "delivered" => deliveries[d].signed)
      BY <2>2, DeliveryAt
    <2>4. /\ w \in DeliveryRow /\ w.sale = deliveries[d].sale /\ w.signed = deliveries[d].signed
          /\ w.status = deliveries[d].status
      BY <2>2, <2>3 DEF DeliveryRow
    <2>5. request' \in [Clerk -> Late \cup {None}] /\ \A k \in Clerk : request'[k] \in {request[k], None}
      BY <2>1, DoneRequests
    <2> HIDE DEF w, d
    <2> QED BY <2>1, <2>2, <2>3, <2>4, <2>5, DeliveryChanged
  <1> QED BY <1>1, <1>2

\* the guarantee of a sale is written, unless it is active
LEMMA WriteWarrantyRows ==
  ASSUME IInv, NEW c \in Clerk, WriteWarranty(c)
  PROVE  /\ sales' \in Seq(SaleRow) /\ Len(sales') <= MaxSale /\ DOMAIN sales' = DOMAIN sales
         /\ \A s \in DOMAIN sales : /\ sales'[s].status = sales[s].status
                                    /\ sales'[s].vehicle = sales[s].vehicle
                                    /\ sales'[s].warranty = "ACTIVE" <=> sales[s].warranty = "ACTIVE"
         /\ UNCHANGED <<vehicle, invoices, authorizations, deliveries, returns, plan>>
  <1> DEFINE late == request[c]
             s == late.id
             w == [sales[s] EXCEPT !.warranty = late.value]
  <1>1. /\ late # None /\ late.op = "warranty"
        /\ sales' = IF sales[s].warranty = "ACTIVE" THEN sales ELSE [sales EXCEPT ![s] = w]
        /\ UNCHANGED <<vehicle, invoices, authorizations, deliveries, returns, plan>>
    BY DEF WriteWarranty
  <1>2. /\ s \in DOMAIN sales /\ late.value \in Warranty \ {"ACTIVE"} /\ sales[s] \in SaleRow
        /\ TypeOK /\ sales \in Seq(SaleRow) /\ Len(sales) <= MaxSale
    BY <1>1, LateFields, Tables DEF IInv, TypeOK
  <1>3. w \in SaleRow /\ w.warranty # "ACTIVE" /\ w.status = sales[s].status
        /\ w.vehicle = sales[s].vehicle
    BY <1>2 DEF SaleRow
  <1> HIDE DEF w, s
  <1>4. CASE sales[s].warranty = "ACTIVE"
    BY <1>1, <1>2, <1>4
  <1>5. CASE sales[s].warranty # "ACTIVE"
    <2>1. sales' = [sales EXCEPT ![s] = w]
      BY <1>1, <1>5
    <2>2. /\ sales' \in Seq(SaleRow) /\ Len(sales') <= MaxSale
          /\ DOMAIN sales' = DOMAIN sales /\ sales'[s] = w
          /\ \A t \in DOMAIN sales : t # s => sales'[t] = sales[t]
      BY <1>2, <1>3, <2>1, SaleChanged
    <2> QED BY <1>1, <1>3, <1>5, <2>2
  <1> QED BY <1>4, <1>5

LEMMA WriteWarrantyStep ==
  ASSUME IInv, NEW c \in Clerk, WriteWarranty(c)
  PROVE  IInv'
  <1>1. /\ sales' \in Seq(SaleRow) /\ Len(sales') <= MaxSale /\ DOMAIN sales' = DOMAIN sales
        /\ \A s \in DOMAIN sales : /\ sales'[s].status = sales[s].status
                                   /\ sales'[s].warranty = "ACTIVE" <=> sales[s].warranty = "ACTIVE"
        /\ UNCHANGED <<vehicle, invoices, authorizations, deliveries, returns, plan>>
    BY WriteWarrantyRows
  <1>2. Done(c)
    BY DEF WriteWarranty
  <1>3. request' \in [Clerk -> Late \cup {None}] /\ \A k \in Clerk : request'[k] \in {request[k], None}
    BY <1>2, DoneRequests
  <1>4. TypeOK'
    BY <1>1, <1>3 DEF IInv, TypeOK
  <1>5. Money' /\ ReturnsOfDeliveries'
    BY <1>1 DEF IInv, Money, Resolved, ReturnsOfDeliveries
  <1>6. InvoicesOfSales'
    BY <1>1 DEF IInv, InvoicesOfSales
  <1>7. DeliveriesOfSales'
    BY <1>1 DEF IInv, DeliveriesOfSales
  <1>8. Warranties'
    BY <1>1 DEF IInv, Warranties
  <1>9. Requests'
    BY <1>1, <1>3 DEF IInv, Requests
  <1> QED BY <1>4, <1>5, <1>6, <1>7, <1>8, <1>9 DEF IInv

LEMMA ResolveScopedStep ==
  ASSUME IInv, NEW c \in Clerk, NEW chosen \in SUBSET DOMAIN invoices, ResolveScoped(c, chosen)
  PROVE  IInv' /\ RowsKept
  <1> DEFINE late == request[c]
  <1>1. late # None /\ late.op = "settlement" /\ Done(c) /\ Settle(late.id, chosen, late.view)
    BY DEF ResolveScoped
  <1>2. late.id \in DOMAIN returns /\ late.view \in Seq(InvoiceRow)
    BY <1>1, LateFields
  <1>3. request' \in [Clerk -> Late \cup {None}] /\ \A k \in Clerk : request'[k] \in {request[k], None}
    BY <1>1, DoneRequests
  <1>4. Seen(chosen, late.view)
    <2>1. SettlementOf(c)
      BY <1>1 DEF SettlementOf, Done, IInv, TypeOK
    <2>2. chosen \subseteq DOMAIN late.view
      BY <1>1 DEF Settle
    <2> QED BY <2>1, <2>2 DEF Seen, Misread
  <1> HIDE DEF late
  <1> QED BY <1>1, <1>2, <1>3, <1>4, SettleStep

LEMMA LeaveSettlementStep ==
  ASSUME IInv, NEW c \in Clerk, LeaveSettlement(c)
  PROVE  IInv'
  <1>1. Done(c) /\ UNCHANGED <<vehicle, sales, invoices, authorizations, deliveries, returns, plan>>
    BY DEF LeaveSettlement
  <1>2. request' \in [Clerk -> Late \cup {None}] /\ \A k \in Clerk : request'[k] \in {request[k], None}
    BY <1>1, DoneRequests
  <1>3. TypeOK'
    BY <1>1, <1>2 DEF IInv, TypeOK
  <1>4. Money' /\ InvoicesOfSales' /\ ReturnsOfDeliveries'
    BY <1>1 DEF IInv, Money, Resolved, InvoicesOfSales, ReturnsOfDeliveries
  <1>5. DeliveriesOfSales' /\ Warranties'
    BY <1>1 DEF IInv, DeliveriesOfSales, Warranties
  <1>6. Requests'
    BY <1>1, <1>2 DEF IInv, Requests
  <1> QED BY <1>3, <1>4, <1>5, <1>6 DEF IInv

-----------------------------------------------------------------------------
(* The invariant.                                                          *)

LEMMA Initial ==
  ASSUME Init
  PROVE  IInv
  <1>1. /\ vehicle \in [Vehicle -> AdministrableVehicleStatus]
        /\ sales = <<>> /\ invoices = <<>> /\ authorizations = <<>>
        /\ deliveries = <<>> /\ returns = <<>>
        /\ request = [c \in Clerk |-> None] /\ plan \in Plans
    BY DEF Init
  <1>2. TypeOK
    <2>1. vehicle \in [Vehicle -> VehicleStatus]
      BY <1>1 DEF AdministrableVehicleStatus, VehicleStatus
    <2>2. plan \in Plan
      BY <1>1, SalesAssumption
    <2>3. request \in [Clerk -> Late \cup {None}]
      BY <1>1
    <2>4. /\ sales \in Seq(SaleRow) /\ Len(sales) <= MaxSale
          /\ invoices \in Seq(InvoiceRow) /\ Len(invoices) <= MaxInvoice
          /\ deliveries \in Seq(DeliveryRow) /\ Len(deliveries) <= MaxDelivery
          /\ authorizations \in Seq(AuthorizationRow) /\ returns \in Seq(ReturnRow)
      BY <1>1, SalesAssumption
    <2> QED BY <2>1, <2>2, <2>3, <2>4 DEF TypeOK
  <1>3. /\ DOMAIN sales = {} /\ DOMAIN invoices = {} /\ DOMAIN deliveries = {}
        /\ DOMAIN returns = {}
    BY <1>1
  <1>4. Money /\ InvoicesOfSales /\ ReturnsOfDeliveries /\ Warranties
    BY <1>3 DEF Money, InvoicesOfSales, ReturnsOfDeliveries, Warranties
  <1>5. DeliveriesOfSales
    BY <1>3 DEF DeliveriesOfSales
  <1>6. Requests
    BY <1>1 DEF Requests
  <1> QED BY <1>2, <1>4, <1>5, <1>6 DEF IInv

LEMMA Inductive ==
  ASSUME IInv, [Next]_vars
  PROVE  IInv'
  <1>1. CASE SaleStep
    BY <1>1, CreateSaleStep, AdvanceSaleStep, CancelSaleStep, CreateInvoiceStep, AuthorizeStep,
       PlanDeliveryStep DEF SaleStep
  <1>2. CASE BillingStep
    BY <1>2, InvoiceSteps, AmountSteps, RevokeStep DEF BillingStep
  <1>3. CASE DeliveryStep
    BY <1>3, StepDeliveryStep, CheckItemStep, CancelDeliveryStep, AddServiceStep, SignStep,
       RequestReturnStep DEF DeliveryStep
  <1>4. CASE ReturnStep
    BY <1>4, StepReturnStep, DeductStep, ResolveStep, StockDecisionStep DEF ReturnStep
  <1>5. CASE LateStep
    BY <1>5, ReadSteps, WriteVehicleStep, WriteDeliverySteps, WriteWarrantyStep,
       ResolveScopedStep, LeaveSettlementStep DEF LateStep
  <1>6. CASE UNCHANGED vars
    <2>1. UNCHANGED <<vehicle, sales, invoices, authorizations, deliveries, returns, request, plan>>
      BY <1>6 DEF vars
    <2>2. TypeOK'
      BY <2>1 DEF IInv, TypeOK
    <2>3. Money' /\ InvoicesOfSales' /\ ReturnsOfDeliveries'
      BY <2>1 DEF IInv, Money, Resolved, InvoicesOfSales, ReturnsOfDeliveries
    <2>4. DeliveriesOfSales' /\ Warranties' /\ Requests'
      BY <2>1 DEF IInv, DeliveriesOfSales, Warranties, Requests
    <2> QED BY <2>2, <2>3, <2>4 DEF IInv
  <1> QED BY <1>1, <1>2, <1>3, <1>4, <1>5, <1>6 DEF Next

\* Every state the sales reach satisfies IInv.
THEOREM Invariance == Spec => []IInv
  <1>1. Init => IInv
    BY Initial
  <1>2. IInv /\ [Next]_vars => IInv'
    BY Inductive
  <1> QED BY <1>1, <1>2, PTL DEF Spec

\* The tables keep their types, and no table outgrows its bound.
THEOREM TypeCorrect == Spec => []TypeOK
  <1>1. IInv => TypeOK
    BY DEF IInv
  <1> QED BY <1>1, Invariance, PTL

-----------------------------------------------------------------------------
(* Safety.                                                                 *)

LEMMA OnceOfInvariant == IInv => HandedOverOnce
  <1> SUFFICES ASSUME IInv, NEW s \in DOMAIN sales
               PROVE  Cardinality({d \in DOMAIN deliveries : deliveries[d].sale = s
                                                            /\ deliveries[d].signed})
                          = IF sales[s].status = "delivered" THEN 1 ELSE 0
    BY DEF HandedOverOnce
  <1> DEFINE S == {d \in DOMAIN deliveries : deliveries[d].sale = s /\ deliveries[d].signed}
  <1>1. DeliveriesOfSales
    BY DEF IInv
  <1>2. CASE sales[s].status = "delivered"
    <2>1. PICK d \in DOMAIN deliveries : deliveries[d].sale = s /\ deliveries[d].signed
      BY <1>1, <1>2 DEF DeliveriesOfSales
    <2>2. \A e \in S : e = d
      BY <1>1, <2>1 DEF DeliveriesOfSales
    <2>3. S = {d}
      BY <2>1, <2>2
    <2>4. Cardinality(S) = 1
      BY <2>3, FS_Singleton
    <2> QED BY <1>2, <2>4
  <1>3. CASE sales[s].status # "delivered"
    <2>1. S = {}
      BY <1>1, <1>3 DEF DeliveriesOfSales
    <2>2. Cardinality(S) = 0
      BY <2>1, FS_EmptySet
    <2> QED BY <1>3, <2>2
  <1> QED BY <1>2, <1>3

\* A sale is delivered by exactly one signature, whatever is cancelled,
\* planned again or rescheduled by those who read a delivery earlier.
THEOREM OneHandover == Spec => []HandedOverOnce
  BY OnceOfInvariant, Invariance, PTL

LEMMA BalancedSound ==
  ASSUME NEW v \in InvoiceRow
  PROVE  Balanced(v) <=> InvoiceSound(v)
  <1> DEFINE paid == Over(v.received, v.refunded)
             balance == Over(Over(v.total, v.credited), paid)
             status == IF balance = 0 THEN "paid"
                       ELSE IF paid > 0 THEN "partially_paid" ELSE "issued"
  <1>1. Recalculated(v) = [v EXCEPT !.paid = paid, !.balance = balance, !.status = status]
    BY DEF Recalculated
  <1> HIDE DEF paid, balance, status
  <1>2. v = Recalculated(v) <=> v.paid = paid /\ v.balance = balance /\ v.status = status
    <2> DEFINE y == [v EXCEPT !.paid = paid, !.balance = balance, !.status = status]
    <2>1. y.paid = paid /\ y.balance = balance /\ y.status = status
      BY DEF InvoiceRow
    <2>2. v = [v EXCEPT !.paid = v.paid, !.balance = v.balance, !.status = v.status]
      BY DEF InvoiceRow
    <2>3. v.paid = paid /\ v.balance = balance /\ v.status = status => v = y
      BY <2>2
    <2> HIDE DEF y
    <2> QED BY <1>1, <2>1, <2>3 DEF y
  <1>3. v.paid = paid /\ v.balance = balance /\ v.status = status
            <=> /\ v.paid = Over(v.received, v.refunded)
                /\ v.balance = Over(Over(v.total, v.credited), v.paid)
                /\ v.status = IF v.balance = 0 THEN "paid"
                              ELSE IF v.paid > 0 THEN "partially_paid" ELSE "issued"
    BY DEF paid, balance, status
  <1> QED BY <1>2, <1>3 DEF Balanced, InvoiceSound

LEMMA RowsStay == UNCHANGED invoices => RowsKept
  BY DEF RowsKept

LEMMA RowsKeptStep ==
  ASSUME IInv, [Next]_vars
  PROVE  RowsKept
  <1>1. CASE SaleStep
    <2>1. ASSUME NEW v \in Vehicle, CreateSale(v) PROVE UNCHANGED invoices
      BY <2>1 DEF CreateSale
    <2>2. ASSUME NEW s \in DOMAIN sales, AdvanceSale(s) \/ Authorize(s) \/ PlanDelivery(s)
          PROVE  UNCHANGED invoices
      BY <2>2 DEF AdvanceSale, Authorize, PlanDelivery
    <2> QED BY <1>1, <2>1, <2>2, RowsStay, CancelSaleStep, CreateInvoiceStep DEF SaleStep
  <1>2. CASE BillingStep
    <2>1. ASSUME NEW a \in DOMAIN authorizations, Revoke(a) PROVE UNCHANGED invoices
      BY <2>1 DEF Revoke
    <2> QED BY <1>2, <2>1, RowsStay, InvoiceSteps, AmountSteps DEF BillingStep
  <1>3. CASE DeliveryStep
    <2>1. ASSUME NEW d \in DOMAIN deliveries,
                 \/ \E next \in DeliveryStatus : StepDelivery(d, next)
                 \/ CheckItem(d) \/ CancelDelivery(d) \/ Sign(d) \/ RequestReturn(d)
          PROVE  UNCHANGED invoices
      BY <2>1 DEF StepDelivery, CheckItem, CancelDelivery, Sign, RequestReturn, HandOver, Delivery
    <2> QED BY <1>3, <2>1, RowsStay, AddServiceStep DEF DeliveryStep
  <1>4. CASE ReturnStep
    <2>1. ASSUME NEW r \in DOMAIN returns,
                 \/ \E next \in ReturnStatus : StepReturn(r, next)
                 \/ \E n \in 0..Price : Deduct(r, n)
                 \/ \E next \in AdministrableVehicleStatus : StockDecision(r, next)
          PROVE  UNCHANGED invoices
      BY <2>1 DEF StepReturn, Deduct, StockDecision
    <2> QED BY <1>4, <2>1, RowsStay, ResolveStep DEF ReturnStep
  <1>5. CASE LateStep
    <2>1. \/ UNCHANGED invoices
          \/ \E c \in Clerk, chosen \in SUBSET DOMAIN invoices : ResolveScoped(c, chosen)
      BY <1>5 DEF LateStep, ReadVehicle, ReadReschedule, ReadPapers, ReadWarranty, ReadSettlement,
         Read, WriteVehicle, WriteReschedule, WritePapers, WriteWarranty, LeaveSettlement
    <2>2. CASE UNCHANGED invoices
      BY <2>2, RowsStay
    <2>3. ASSUME NEW c \in Clerk, NEW chosen \in SUBSET DOMAIN invoices, ResolveScoped(c, chosen)
          PROVE  RowsKept
      BY <2>3, ResolveScopedStep
    <2> QED BY <2>1, <2>2, <2>3
  <1>6. CASE UNCHANGED vars
    BY <1>6, RowsStay DEF vars
  <1> QED BY <1>1, <1>2, <1>3, <1>4, <1>5, <1>6 DEF Next

\* What an invoice says was paid and is due is what its payments, refunds and
\* credit notes add up to, whatever their order: it is made so, and only a
\* settlement on a view in which it was something else changes that.
THEOREM BalancesTrue == Spec => BalanceTrue
  <1> DEFINE A == \A i \in DOMAIN invoices' :
                     (i \in DOMAIN invoices => Balanced(invoices[i]))
                         => Balanced(invoices'[i]) \/ Misread(i)
  <1>1. ASSUME IInv, [Next]_vars PROVE A
    <2>1. ASSUME NEW i \in DOMAIN invoices
          PROVE  Balanced(invoices[i]) <=> InvoiceSound(invoices[i])
      <3>1. invoices[i] \in InvoiceRow
        BY <1>1, InvoiceAt
      <3> QED BY <3>1, BalancedSound
    <2>2. \A i \in DOMAIN invoices' : Balanced(invoices'[i]) <=> InvoiceSound(invoices'[i])
      <3>1. invoices' \in Seq(InvoiceRow)
        BY <1>1, Inductive DEF IInv, TypeOK
      <3> QED BY <3>1, TableRows, BalancedSound
    <2>3. RowsKept
      BY <1>1, RowsKeptStep
    <2> QED BY <2>1, <2>2, <2>3 DEF RowsKept
  <1>2. IInv /\ [Next]_vars => [A]_vars
    BY <1>1
  <1>3. Spec => [][A]_vars
    BY <1>2, Invariance, PTL DEF Spec
  <1> QED BY <1>3 DEF BalanceTrue

LEMMA CancelledOfInvariant == IInv => CancelledKeepsNothing
  <1> SUFFICES ASSUME IInv, NEW s \in DOMAIN sales, sales[s].status = "cancelled"
               PROVE  /\ Live(s) = {} /\ LiveDeliveries(s) = {}
                      /\ \A i \in DOMAIN invoices : invoices[i].sale = s => Held(i) = 0
    BY DEF CancelledKeepsNothing
  <1>1. \A i \in DOMAIN invoices : invoices[i].sale = s => invoices[i].status = "cancelled"
    BY DEF IInv, InvoicesOfSales
  <1>2. Live(s) = {}
    BY <1>1 DEF Live
  <1>3. LiveDeliveries(s) = {}
    BY DEF LiveDeliveries, IInv, DeliveriesOfSales
  <1>4. \A i \in DOMAIN invoices : invoices[i].sale = s => Held(i) = 0
    BY <1>1, InvoiceAt, UndeliveredSound DEF InvoiceSound
  <1> QED BY <1>2, <1>3, <1>4

\* A cancelled sale keeps no invoice that could still be paid, none of the
\* customer's money and no delivery that could still be signed.
THEOREM CancelledSales == Spec => []CancelledKeepsNothing
  BY CancelledOfInvariant, Invariance, PTL

-----------------------------------------------------------------------------
(* What a step does to a sale.                                             *)

\* the steps that leave the sales alone
LEMMA OtherSteps ==
  ASSUME [Next]_vars
  PROVE  \/ UNCHANGED sales
         \/ \E v \in Vehicle : CreateSale(v)
         \/ \E s \in DOMAIN sales : AdvanceSale(s) \/ CancelSale(s)
         \/ \E d \in DOMAIN deliveries : Sign(d)
         \/ \E c \in Clerk : WriteWarranty(c)
  <1>1. CASE SaleStep
    BY <1>1 DEF SaleStep, CreateInvoice, Authorize, PlanDelivery
  <1>2. CASE BillingStep
    BY <1>2 DEF BillingStep, IssueInvoice, CancelInvoice, Refund, Pay, Credit, EditInvoice, Revoke,
       Billing
  <1>3. CASE DeliveryStep
    BY <1>3 DEF DeliveryStep, StepDelivery, CheckItem, CancelDelivery, AddService, RequestReturn,
       Delivery
  <1>4. CASE ReturnStep
    BY <1>4 DEF ReturnStep, StepReturn, Deduct, Resolve, Settle, StockDecision
  <1>5. CASE LateStep
    BY <1>5 DEF LateStep, ReadVehicle, ReadReschedule, ReadPapers, ReadWarranty, ReadSettlement,
       Read, WriteVehicle, WriteReschedule, WritePapers, ResolveScoped, Settle, LeaveSettlement
  <1>6. CASE UNCHANGED vars
    BY <1>6 DEF vars
  <1> QED BY <1>1, <1>2, <1>3, <1>4, <1>5, <1>6 DEF Next

\* only a signature delivers a sale, and none loses its guarantee
LEMMA QuietSales ==
  ASSUME IInv, [Next]_vars, \A d \in DOMAIN deliveries : ~Sign(d), NEW s \in DOMAIN sales
  PROVE  /\ s \in DOMAIN sales' /\ sales'[s].vehicle = sales[s].vehicle
         /\ sales'[s].status = "delivered" <=> sales[s].status = "delivered"
         /\ sales[s].warranty = "ACTIVE" => sales'[s].warranty = "ACTIVE"
  <1>0. TypeOK /\ sales \in Seq(SaleRow) /\ sales[s] \in SaleRow
    BY Tables DEF IInv, TypeOK
  <1>1. CASE UNCHANGED sales
    BY <1>1
  <1>2. CASE \E v \in Vehicle : CreateSale(v)
    <2>1. PICK v \in Vehicle : CreateSale(v)
      BY <1>2
    <2>2. PICK k \in Warranty \ {"ACTIVE"} :
              sales' = Append(sales, [vehicle |-> v, status |-> "reserved", warranty |-> k])
      BY <2>1 DEF CreateSale
    <2>3. [vehicle |-> v, status |-> "reserved", warranty |-> k] \in SaleRow
      BY DEF SaleRow, SaleStatus
    <2>4. s \in DOMAIN sales' /\ sales'[s] = sales[s]
      BY <1>0, <2>2, <2>3, RowAdded
    <2> QED BY <2>4
  <1>3. ASSUME NEW t \in DOMAIN sales, AdvanceSale(t) \/ CancelSale(t)
        PROVE  /\ s \in DOMAIN sales' /\ sales'[s].vehicle = sales[s].vehicle
               /\ sales'[s].status = "delivered" <=> sales[s].status = "delivered"
               /\ sales[s].warranty = "ACTIVE" => sales'[s].warranty = "ACTIVE"
    <2>1. PICK next \in SaleStatus \ {"delivered"} :
              sales' = [sales EXCEPT ![t].status = next] /\ sales[t].status # "delivered"
      <3>1. CASE AdvanceSale(t)
        <4>1. sales[t].status \in DOMAIN NextStatus
              /\ sales' = [sales EXCEPT ![t].status = NextStatus[sales[t].status]]
          BY <3>1 DEF AdvanceSale
        <4>2. NextStatus[sales[t].status] \in SaleStatus \ {"delivered"} /\ sales[t].status # "delivered"
          BY <4>1 DEF NextStatus, SaleStatus
        <4> QED BY <4>1, <4>2
      <3>2. CASE CancelSale(t)
        BY <3>2 DEF CancelSale, SaleStatus
      <3> QED BY <1>3, <3>1, <3>2
    <2> DEFINE w == [sales[t] EXCEPT !.status = next]
    <2>2. w \in SaleRow /\ w.status = next /\ w.vehicle = sales[t].vehicle
          /\ w.warranty = sales[t].warranty
      BY <1>0, Tables, SaleFields
    <2>3. sales' = [sales EXCEPT ![t] = w]
      BY <2>1
    <2> HIDE DEF w
    <2>4. /\ DOMAIN sales' = DOMAIN sales /\ sales'[t] = w
          /\ \A u \in DOMAIN sales : u # t => sales'[u] = sales[u]
      BY <1>0, <2>2, <2>3, SaleChanged
    <2>5. CASE s = t
      BY <2>1, <2>2, <2>4, <2>5
    <2>6. CASE s # t
      BY <2>4, <2>6
    <2> QED BY <2>5, <2>6
  <1>4. CASE \E c \in Clerk : WriteWarranty(c)
    BY <1>4, WriteWarrantyRows
  <1>5. \/ UNCHANGED sales
        \/ \E v \in Vehicle : CreateSale(v)
        \/ \E t \in DOMAIN sales : AdvanceSale(t) \/ CancelSale(t)
        \/ \E c \in Clerk : WriteWarranty(c)
    BY OtherSteps
  <1> QED BY <1>1, <1>2, <1>3, <1>4, <1>5

\* A warranty is active only for a car that was handed over, with what was
\* agreed then.
THEOREM WarrantiesStand == Spec => WarrantyStands
  <1> DEFINE A == \A s \in DOMAIN sales :
                     /\ sales[s].warranty = "ACTIVE" => sales'[s].warranty = "ACTIVE"
                     /\ sales'[s].warranty = "ACTIVE" => sales'[s].status = "delivered"
  <1>1. ASSUME IInv, [Next]_vars PROVE A
    <2> SUFFICES ASSUME NEW s \in DOMAIN sales
                 PROVE  /\ sales[s].warranty = "ACTIVE" => sales'[s].warranty = "ACTIVE"
                        /\ sales'[s].warranty = "ACTIVE" => sales'[s].status = "delivered"
      OBVIOUS
    <2>1. Warranties'
      BY <1>1, Inductive DEF IInv
    <2>2. s \in DOMAIN sales' /\ (sales[s].warranty = "ACTIVE" => sales'[s].warranty = "ACTIVE")
      <3>1. CASE \A d \in DOMAIN deliveries : ~Sign(d)
        BY <1>1, <3>1, QuietSales
      <3>2. ASSUME NEW d \in DOMAIN deliveries, Sign(d)
            PROVE  s \in DOMAIN sales' /\ (sales[s].warranty = "ACTIVE" => sales'[s].warranty = "ACTIVE")
        <4> DEFINE t == deliveries[d].sale
        <4>1. HandOver(d)
          BY <3>2 DEF Sign
        <4>2. /\ DOMAIN sales' = DOMAIN sales
              /\ sales[t].warranty = "ACTIVE" => sales'[t].warranty = "ACTIVE"
              /\ \A u \in DOMAIN sales : u # t => sales'[u] = sales[u]
          BY <1>1, <4>1, HandOverRows
        <4> QED BY <4>2
      <3> QED BY <3>1, <3>2
    <2> QED BY <2>1, <2>2 DEF Warranties
  <1>2. IInv /\ [Next]_vars => [A]_vars
    BY <1>1
  <1>3. Spec => [][A]_vars
    BY <1>2, Invariance, PTL DEF Spec
  <1> QED BY <1>3 DEF WarrantyStands

-----------------------------------------------------------------------------
(* The handover is covered.                                                *)

\* what the gate adds up is what is due
LEMMA ExposureDue ==
  ASSUME IInv, NEW s, sales[s].status # "delivered"
  PROVE  Exposure(s) = SumFunctionOnSet([i \in DOMAIN invoices |-> Due(i)], Billable(s))
  <1> DEFINE f == [i \in DOMAIN invoices |-> invoices[i].balance]
             g == [i \in DOMAIN invoices |-> Due(i)]
  <1>1. IsFiniteSet(Billable(s)) /\ Billable(s) \subseteq DOMAIN invoices
    BY ExposureNat DEF IInv
  <1>2. ASSUME NEW i \in Billable(s) PROVE f[i] = g[i]
    <2> DEFINE v == invoices[i]
    <2>1. v \in InvoiceRow /\ InvoiceSound(v) /\ Held(i) = Over(v.received, v.refunded)
      <3>1. v.sale = s
        BY DEF Billable, Live
      <3> QED BY <1>1, <3>1, InvoiceAt, UndeliveredSound
    <2>2. v.status \in InvoiceStatus \ {"draft", "cancelled"}
      BY <2>1, InvoiceFields DEF Billable, Live
    <2>3. v.balance = Over(Over(v.total, v.credited), Over(v.received, v.refunded))
      <3> HIDE DEF v
      <3> QED BY <2>1, <2>2 DEF InvoiceSound, InvoiceStatus
    <2> QED BY <1>1, <2>1, <2>3 DEF Due
  <1>3. Exposure(s) = SumFunctionOnSet(f, Billable(s))
    BY DEF Exposure
  <1> HIDE DEF f, g
  <1>4. SumFunctionOnSet(f, Billable(s)) = SumFunctionOnSet(g, Billable(s))
    BY <1>1, <1>2, SumSame
  <1> QED BY <1>3, <1>4 DEF g

LEMMA CoveredOfInvariant ==
  ASSUME IInv, [Next]_vars, NEW s \in DOMAIN sales,
         sales[s].status # "delivered", sales'[s].status = "delivered"
  PROVE  LET due == SumFunctionOnSet([i \in DOMAIN invoices |-> Due(i)], Billable(s)) IN
         due = 0 \/ \E a \in Authorized(s) : /\ due <= authorizations[a].snapshot
                                             /\ authorizations'[a].status = "USED"
  <1> DEFINE due == SumFunctionOnSet([i \in DOMAIN invoices |-> Due(i)], Billable(s))
  <1>1. PICK d \in DOMAIN deliveries : Sign(d)
    BY QuietSales
  <1>2. HandOver(d) /\ UseAuthorization(deliveries[d].sale) /\ GateOpen(deliveries[d].sale)
    BY <1>1 DEF Sign
  <1>3. s = deliveries[d].sale
    BY <1>2, HandOverRows
  <1>4. Exposure(s) = due
    BY ExposureDue
  <1> HIDE DEF due
  <1>5. CASE Exposure(s) = 0
    BY <1>4, <1>5 DEF due
  <1>6. CASE Exposure(s) # 0
    <2> DEFINE a == Max(Authorized(s))
    <2>1. Authorized(s) # {} /\ a \in Covering(s)
      BY <1>2, <1>3, <1>6 DEF GateOpen
    <2>2. a \in Authorized(s) /\ Exposure(s) <= authorizations[a].snapshot
      BY <2>1 DEF Covering
    <2>3. authorizations' = [authorizations EXCEPT ![a].status = "USED"]
      BY <1>2, <1>3, <1>6, <2>1 DEF UseAuthorization
    <2> HIDE DEF a
    <2>4. a \in DOMAIN authorizations /\ authorizations[a] \in AuthorizationRow
      BY <2>2, Tables DEF Authorized, IInv
    <2>5. authorizations'[a].status = "USED"
      BY <2>3, <2>4 DEF AuthorizationRow
    <2> QED BY <1>4, <2>2, <2>5 DEF due
  <1> QED BY <1>5, <1>6

\* A car is handed over when nothing is due on the issued invoices of its sale,
\* or no more than what an authorization was given for, used by this handover.
THEOREM HandoversCovered == Spec => HandoverCovered
  <1> DEFINE A == \A s \in DOMAIN sales :
           sales[s].status # "delivered" /\ sales'[s].status = "delivered" =>
               LET due == SumFunctionOnSet([i \in DOMAIN invoices |-> Due(i)], Billable(s)) IN
               due = 0 \/ \E a \in Authorized(s) : /\ due <= authorizations[a].snapshot
                                                   /\ authorizations'[a].status = "USED"
  <1>1. IInv /\ [Next]_vars => [A]_vars
    BY CoveredOfInvariant
  <1>2. Spec => [][A]_vars
    BY <1>1, Invariance, PTL DEF Spec
  <1> QED BY <1>2 DEF HandoverCovered

-----------------------------------------------------------------------------
(* A return is settled.                                                    *)

\* the order in which the deductions are kept
LEMMA Order ==
  ASSUME IInv, NEW i \in DOMAIN invoices, NEW j \in DOMAIN invoices, NEW k \in DOMAIN invoices
  PROVE  /\ ~Before(i, i)
         /\ Before(i, j) /\ Before(j, k) => Before(i, k)
  <1>1. /\ invoices[i] \in InvoiceRow /\ invoices[j] \in InvoiceRow /\ invoices[k] \in InvoiceRow
        /\ i \in Nat /\ j \in Nat /\ k \in Nat
    BY InvoiceAt, Tables DEF IInv
  <1>2. /\ invoices[i].type \in {"vehicle", "other"} /\ invoices[j].type \in {"vehicle", "other"}
        /\ invoices[k].type \in {"vehicle", "other"}
    BY <1>1, InvoiceFields
  <1> QED BY <1>1, <1>2 DEF Before

\* of the invoices chosen, at least the deductions are kept
LEMMA Retained ==
  ASSUME IInv, NEW r \in DOMAIN returns, NEW chosen \in SUBSET DOMAIN invoices,
         NEW view \in Seq(InvoiceRow), Settle(r, chosen, view),
         \A i \in chosen : view[i] = invoices[i] /\ InvoiceSound(invoices[i])
  PROVE  SumFunctionOnSet([i \in DOMAIN invoices |-> Over(invoices'[i].received, invoices'[i].refunded)],
                          chosen) >= returns[r].retained
  <1> DEFINE retained == returns[r].retained
             K == [i \in DOMAIN view |-> Kept(i, chosen, retained, view)]
             G == [i \in DOMAIN view |-> Retainable(i, view)]
             H == [i \in DOMAIN view |-> Cash(i, view)]
             N == [i \in DOMAIN invoices |-> Over(invoices'[i].received, invoices'[i].refunded)]
             earlier == [i \in DOMAIN invoices |-> {j \in chosen : Before(j, i)}]
  <1>1. /\ IsFiniteSet(chosen) /\ chosen \subseteq DOMAIN invoices /\ chosen \subseteq DOMAIN view
        /\ retained \in Nat
    BY Tables, FS_Subset, ReturnAt, ReturnFields DEF IInv, Settle
  <1>2. ASSUME NEW i \in chosen
        PROVE  /\ K[i] \in Nat /\ H[i] \in Nat /\ N[i] \in Nat /\ G[i] \in Nat /\ K[i] <= N[i]
               /\ K[i] = G[i] => N[i] = H[i]
    <2>1. /\ invoices' \in [DOMAIN invoices -> InvoiceRow]
          /\ Over(invoices'[i].received, invoices'[i].refunded) >= Kept(i, chosen, retained, view)
          /\ Kept(i, chosen, retained, view) = Retainable(i, view) =>
                 Over(invoices'[i].received, invoices'[i].refunded) = Cash(i, view)
      BY <1>1, SettleRows
    <2>2. invoices'[i] \in InvoiceRow
      BY <1>1, <2>1
    <2>3. Over(invoices'[i].received, invoices'[i].refunded) \in Nat
      BY <2>2, InvoiceFields, Amounts
    <2>4. /\ Kept(i, chosen, retained, view) \in Nat /\ Cash(i, view) \in Nat
          /\ Creditable(i, view) \in Nat
      BY <1>1, KeptBounds
    <2>5. Retainable(i, view) \in Nat
      BY <2>4, Amounts DEF Retainable
    <2> QED BY <1>1, <2>1, <2>3, <2>4, <2>5
  <1>3. ASSUME NEW i \in chosen
        PROVE  K[i] = Least(Over(retained, SumFunctionOnSet(G, earlier[i])), G[i])
    BY <1>1 DEF Kept
  <1>4. SumFunctionOnSet(H, chosen) >= retained
    BY DEF Settle
  <1>5. ASSUME NEW i \in chosen, NEW j \in earlier[i]
        PROVE  j \in chosen /\ earlier[j] \subseteq earlier[i] /\ earlier[j] # earlier[i]
    <2>1. j \in chosen /\ Before(j, i) /\ i \in DOMAIN invoices /\ j \in DOMAIN invoices
      BY <1>1, <1>5
    <2>2. \A k \in earlier[j] : k \in chosen /\ k \in DOMAIN invoices /\ Before(k, j)
      BY <1>1, <2>1
    <2>3. \A k \in earlier[j] : k \in earlier[i]
      BY <2>1, <2>2, Order
    <2>4. j \notin earlier[j]
      BY <2>2, Order
    <2> QED BY <2>1, <2>3, <2>4, <1>5
  <1>6. \A i \in chosen : earlier[i] \subseteq chosen /\ i \notin earlier[i]
    BY <1>1, Order
  <1> HIDE DEF K, G, H, N, earlier, retained
  <1>7. SumFunctionOnSet(N, chosen) >= retained
    <2> DEFINE T == {i \in chosen : K[i] # G[i]}
    <2>1. CASE T = {}
      <3>1. \A i \in chosen : N[i] = H[i]
        BY <1>2, <2>1
      <3>2. SumFunctionOnSet(N, chosen) = SumFunctionOnSet(H, chosen)
        BY <1>1, <3>1, SumSame
      <3> QED BY <1>4, <3>2
    <2>2. CASE T # {}
      <3>1. PICK i \in T : \A j \in T : ~(earlier[j] \subseteq earlier[i] /\ earlier[j] # earlier[i])
        <4>1. \A i \in T : earlier[i] \subseteq chosen
          BY <1>6
        <4> HIDE DEF T
        <4> QED BY <1>1, <2>2, <4>1, Earliest
      <3>2. i \in chosen /\ K[i] # G[i]
        BY <3>1
      <3> DEFINE E == earlier[i]
      <3>3. E \subseteq chosen /\ i \notin E /\ IsFiniteSet(E)
        BY <1>1, <1>6, <3>2, FS_Subset
      <3>4. \A j \in E : K[j] = G[j]
        BY <1>5, <3>1, <3>2, <3>3
      <3> HIDE DEF E
      <3>5. SumFunctionOnSet(K, E) = SumFunctionOnSet(G, E) /\ SumFunctionOnSet(K, E) \in Nat
        BY <1>2, <3>3, <3>4, SumSame, SumNat
      <3>6. K[i] = Over(retained, SumFunctionOnSet(K, E))
        <4>1. K[i] = Least(Over(retained, SumFunctionOnSet(G, E)), G[i])
          BY <1>3, <3>2 DEF E
        <4> QED BY <3>2, <3>5, <4>1 DEF Least
      <3>7. SumFunctionOnSet(K, E) + K[i] >= retained
        <4> DEFINE u == SumFunctionOnSet(K, E)
        <4>1. u \in Nat /\ K[i] = Over(retained, u)
          BY <3>5, <3>6
        <4> HIDE DEF u
        <4>2. u + K[i] >= retained
          BY <1>1, <4>1 DEF Over
        <4> QED BY <4>2 DEF u
      <3>8. SumFunctionOnSet(K, E \cup {i}) = SumFunctionOnSet(K, E) + K[i]
        <4>1. \A x \in E \cup {i} : K[x] \in Int
          BY <1>2, <3>2, <3>3
        <4> QED BY <3>3, <4>1, SumAdd
      <3>9. SumFunctionOnSet(K, E \cup {i}) <= SumFunctionOnSet(K, chosen)
        <4>1. E \cup {i} \subseteq chosen /\ \A x \in chosen : K[x] \in Nat
          BY <1>2, <3>2, <3>3
        <4> QED BY <1>1, <4>1, SumSubset
      <3>10. SumFunctionOnSet(K, chosen) <= SumFunctionOnSet(N, chosen)
        <4>1. \A x \in chosen : K[x] \in Int /\ N[x] \in Int /\ K[x] <= N[x]
          BY <1>2
        <4> QED BY <1>1, <4>1, SumMonotonic
      <3>11. /\ SumFunctionOnSet(K, chosen) \in Nat /\ SumFunctionOnSet(N, chosen) \in Nat
             /\ SumFunctionOnSet(K, E) \in Nat /\ K[i] \in Nat
        BY <1>1, <1>2, <3>2, <3>5, SumNat
      <3> DEFINE a == SumFunctionOnSet(K, E) + K[i]
                 b == SumFunctionOnSet(K, chosen)
                 c == SumFunctionOnSet(N, chosen)
      <3>12. a \in Nat /\ b \in Nat /\ c \in Nat /\ a >= retained /\ a <= b /\ b <= c
        BY <3>7, <3>8, <3>9, <3>10, <3>11
      <3> HIDE DEF a, b, c
      <3>13. c >= retained
        BY <1>1, <3>12
      <3> QED BY <3>13 DEF c
    <2> QED BY <2>1, <2>2
  <1> QED BY <1>7 DEF N, retained

\* the steps of the returns
LEMMA ReturnOnlyMoves ==
  ASSUME [Next]_vars
  PROVE  \/ UNCHANGED returns
         \/ \E d \in DOMAIN deliveries : RequestReturn(d)
         \/ ReturnStep
         \/ \E c \in Clerk, chosen \in SUBSET DOMAIN invoices : ResolveScoped(c, chosen)
  <1>1. CASE SaleStep
    BY <1>1 DEF SaleStep, CreateSale, AdvanceSale, CancelSale, CreateInvoice, Authorize, PlanDelivery
  <1>2. CASE BillingStep
    BY <1>2 DEF BillingStep, IssueInvoice, CancelInvoice, Refund, Pay, Credit, EditInvoice, Revoke,
       Billing
  <1>3. CASE DeliveryStep
    BY <1>3 DEF DeliveryStep, StepDelivery, CheckItem, CancelDelivery, AddService, Sign, HandOver,
       Delivery
  <1>4. CASE LateStep
    BY <1>4 DEF LateStep, ReadVehicle, ReadReschedule, ReadPapers, ReadWarranty, ReadSettlement,
       Read, WriteVehicle, WriteReschedule, WritePapers, WriteWarranty, LeaveSettlement
  <1>5. CASE UNCHANGED vars
    BY <1>5 DEF vars
  <1> QED BY <1>1, <1>2, <1>3, <1>4, <1>5 DEF Next

LEMMA RequestReturnRows ==
  ASSUME IInv, NEW d \in DOMAIN deliveries, RequestReturn(d)
  PROVE  /\ DOMAIN returns' = DOMAIN returns \cup {Len(returns) + 1}
         /\ returns'[Len(returns) + 1].status = "REQUESTED"
         /\ \A q \in DOMAIN returns : returns'[q] = returns[q]
  <1> DEFINE w == [delivery |-> d, status |-> "REQUESTED", retained |-> 0]
  <1>1. d \in 1..MaxDelivery /\ returns \in Seq(ReturnRow)
    BY Tables DEF IInv, TypeOK
  <1>2. returns' = Append(returns, w)
    BY DEF RequestReturn
  <1>3. w \in ReturnRow /\ w.status = "REQUESTED"
    BY <1>1 DEF ReturnRow, ReturnStatus
  <1> HIDE DEF w
  <1> QED BY <1>1, <1>2, <1>3, RowAdded

\* a return takes a new status
LEMMA ReturnTaken ==
  ASSUME IInv, NEW r \in DOMAIN returns, NEW next \in ReturnStatus,
         returns' = [returns EXCEPT ![r].status = next]
  PROVE  /\ DOMAIN returns' = DOMAIN returns /\ returns'[r].status = next
         /\ returns'[r].delivery = returns[r].delivery
         /\ \A q \in DOMAIN returns : q # r => returns'[q] = returns[q]
  <1> DEFINE w == [returns[r] EXCEPT !.status = next]
  <1>1. returns \in Seq(ReturnRow) /\ returns[r] \in ReturnRow
    BY ReturnAt DEF IInv, TypeOK
  <1>2. w \in ReturnRow /\ w.delivery = returns[r].delivery /\ w.status = next
    BY <1>1 DEF ReturnRow
  <1>3. returns' = [returns EXCEPT ![r] = w]
    OBVIOUS
  <1> HIDE DEF w
  <1> QED BY <1>1, <1>2, <1>3, RowSet

LEMMA DeductRows ==
  ASSUME IInv, NEW r \in DOMAIN returns, NEW n \in 0..Price, Deduct(r, n)
  PROVE  /\ DOMAIN returns' = DOMAIN returns /\ returns'[r].status = returns[r].status
         /\ returns'[r].delivery = returns[r].delivery
         /\ \A q \in DOMAIN returns : q # r => returns'[q] = returns[q]
  <1> DEFINE w == [returns[r] EXCEPT !.retained = n]
  <1>1. returns \in Seq(ReturnRow) /\ returns[r] \in ReturnRow /\ n \in Nat
    BY ReturnAt, SalesAssumption DEF IInv, TypeOK
  <1>2. w \in ReturnRow /\ w.delivery = returns[r].delivery /\ w.status = returns[r].status
    BY <1>1 DEF ReturnRow
  <1>3. returns' = [returns EXCEPT ![r] = w]
    BY DEF Deduct
  <1> HIDE DEF w
  <1> QED BY <1>1, <1>2, <1>3, RowSet

\* the return is settled, and no other
LEMMA SettledReturn ==
  ASSUME IInv, NEW r \in DOMAIN returns, NEW chosen, NEW view, Settle(r, chosen, view)
  PROVE  /\ returns[r].status = "APPROVED"
         /\ DOMAIN returns' = DOMAIN returns /\ returns'[r].status = "FINANCIALLY_RESOLVED"
         /\ returns'[r].delivery = returns[r].delivery
         /\ \A q \in DOMAIN returns : q # r => returns'[q] = returns[q]
  <1>1. /\ returns' = [returns EXCEPT ![r].status = "FINANCIALLY_RESOLVED"]
        /\ returns[r].status = "APPROVED"
    BY DEF Settle
  <1> QED BY <1>1, ReturnTaken DEF ReturnStatus

\* a settlement by a clerk
LEMMA ScopedSettlement ==
  ASSUME IInv, NEW c \in Clerk, NEW chosen \in SUBSET DOMAIN invoices, ResolveScoped(c, chosen)
  PROVE  \E r \in DOMAIN returns, view \in Seq(InvoiceRow) :
             Settle(r, chosen, view) /\ Seen(chosen, view)
  <1> DEFINE late == request[c]
  <1>1. late # None /\ late.op = "settlement" /\ Done(c) /\ Settle(late.id, chosen, late.view)
    BY DEF ResolveScoped
  <1>2. late.id \in DOMAIN returns /\ late.view \in Seq(InvoiceRow)
    BY <1>1, LateFields
  <1>3. SettlementOf(c)
    BY <1>1 DEF SettlementOf, Done, IInv, TypeOK
  <1>4. chosen \subseteq DOMAIN late.view
    BY <1>1 DEF Settle
  <1>5. Seen(chosen, late.view)
    BY <1>3, <1>4 DEF Seen, Misread
  <1> QED BY <1>1, <1>2, <1>5

\* only a settlement settles
LEMMA SettledByResolve ==
  ASSUME IInv, [Next]_vars, NEW r \in DOMAIN returns,
         returns[r].status = "APPROVED", returns'[r].status = "FINANCIALLY_RESOLVED"
  PROVE  \E chosen \in SUBSET DOMAIN invoices, view \in Seq(InvoiceRow) :
             Settle(r, chosen, view) /\ Seen(chosen, view)
  <1>1. CASE UNCHANGED returns
    BY <1>1
  <1>2. ASSUME NEW d \in DOMAIN deliveries, RequestReturn(d) PROVE FALSE
    BY <1>2, RequestReturnRows
  <1>3. ASSUME NEW q \in DOMAIN returns, NEW next \in ReturnStatus, StepReturn(q, next) PROVE FALSE
    <2>1. returns' = [returns EXCEPT ![q].status = next] /\ <<returns[q].status, next>> \in ReturnSteps
      BY <1>3 DEF StepReturn
    <2>2. /\ returns'[q].status = next
          /\ \A p \in DOMAIN returns : p # q => returns'[p] = returns[p]
      BY <2>1, ReturnTaken
    <2>3. q = r /\ next = "FINANCIALLY_RESOLVED"
      BY <2>2
    <2> QED BY <2>1, <2>3 DEF ReturnSteps
  <1>4. ASSUME NEW q \in DOMAIN returns, NEW n \in 0..Price, Deduct(q, n) PROVE FALSE
    BY <1>4, DeductRows
  <1>5. ASSUME NEW q \in DOMAIN returns, NEW next \in AdministrableVehicleStatus, StockDecision(q, next)
        PROVE  FALSE
    <2>1. returns' = [returns EXCEPT ![q].status = "STOCK_DECIDED"]
      BY <1>5 DEF StockDecision
    <2>2. /\ returns'[q].status = "STOCK_DECIDED"
          /\ \A p \in DOMAIN returns : p # q => returns'[p] = returns[p]
      BY <2>1, ReturnTaken DEF ReturnStatus
    <2> QED BY <2>2
  <1>6. ASSUME NEW q \in DOMAIN returns, NEW chosen \in SUBSET DOMAIN invoices,
               NEW view \in Seq(InvoiceRow), Settle(q, chosen, view), Seen(chosen, view)
        PROVE  \E k \in SUBSET DOMAIN invoices, v \in Seq(InvoiceRow) : Settle(r, k, v) /\ Seen(k, v)
    <2>1. \A p \in DOMAIN returns : p # q => returns'[p] = returns[p]
      BY <1>6, SettledReturn
    <2>2. q = r
      BY <2>1
    <2> QED BY <1>6, <2>2
  <1>7. ASSUME NEW q \in DOMAIN returns, NEW chosen \in SUBSET DOMAIN invoices, Resolve(q, chosen)
        PROVE  \E k \in SUBSET DOMAIN invoices, v \in Seq(InvoiceRow) : Settle(r, k, v) /\ Seen(k, v)
    <2>1. Settle(q, chosen, invoices) /\ invoices \in Seq(InvoiceRow) /\ Seen(chosen, invoices)
      BY <1>7 DEF Resolve, IInv, TypeOK, Seen
    <2> QED BY <1>6, <2>1
  <1>8. ASSUME NEW c \in Clerk, NEW chosen \in SUBSET DOMAIN invoices, ResolveScoped(c, chosen)
        PROVE  \E k \in SUBSET DOMAIN invoices, v \in Seq(InvoiceRow) : Settle(r, k, v) /\ Seen(k, v)
    BY <1>6, <1>8, ScopedSettlement
  <1> QED BY <1>1, <1>2, <1>3, <1>4, <1>5, <1>7, <1>8, ReturnOnlyMoves DEF ReturnStep

LEMMA SettledOfInvariant ==
  ASSUME IInv, [Next]_vars, NEW r \in DOMAIN returns,
         returns[r].status = "APPROVED", returns'[r].status = "FINANCIALLY_RESOLVED",
         NEW s, s = deliveries[returns[r].delivery].sale
  PROVE  /\ \A i \in Billable(s) : invoices'[i].credited > invoices[i].credited /\ ~Misread(i) =>
                /\ invoices'[i].balance = 0
                /\ Over(invoices'[i].received, invoices'[i].refunded)
                       <= returns[r].retained + invoices[i].credited - invoices[i].refunded
         /\ \/ \E i \in Billable(s) : Misread(i)
            \/ SumFunctionOnSet([i \in DOMAIN invoices |->
                       Over(invoices'[i].received, invoices'[i].refunded)], Billable(s))
                   >= returns[r].retained
  <1>1. PICK chosen \in SUBSET DOMAIN invoices, view \in Seq(InvoiceRow) :
            Settle(r, chosen, view) /\ Seen(chosen, view)
    BY SettledByResolve
  <1> DEFINE retained == returns[r].retained
             N == [i \in DOMAIN invoices |-> Over(invoices'[i].received, invoices'[i].refunded)]
  <1>2. chosen \subseteq Billable(s) /\ chosen \subseteq DOMAIN view
    BY <1>1 DEF Settle
  <1>3. IsFiniteSet(Billable(s)) /\ Billable(s) \subseteq DOMAIN invoices /\ retained \in Nat
    BY ExposureNat, ReturnAt, ReturnFields DEF IInv
  <1>4. \A i \in chosen : InvoiceSound(invoices[i])
    BY <1>2, ApprovedSound DEF Billable, Live
  <1>5. ASSUME NEW i \in Billable(s), invoices'[i].credited > invoices[i].credited, ~Misread(i)
        PROVE  /\ invoices'[i].balance = 0
               /\ Over(invoices'[i].received, invoices'[i].refunded)
                      <= retained + invoices[i].credited - invoices[i].refunded
    <2> DEFINE kept == Kept(i, chosen, retained, view)
    <2>1. i \in DOMAIN invoices /\ invoices[i] \in InvoiceRow
      BY <1>3, InvoiceAt
    <2>2. i \in chosen
      <3>1. i \notin chosen => invoices'[i] = invoices[i]
        BY <1>1, <2>1, SettleRows
      <3>2. invoices[i].credited \in Nat
        BY <2>1, InvoiceFields
      <3> QED BY <1>5, <3>1, <3>2
    <2>3. view[i] = invoices[i] /\ InvoiceSound(invoices[i])
      BY <1>1, <1>4, <1>5, <2>2 DEF Seen
    <2>4. /\ invoices' \in [DOMAIN invoices -> InvoiceRow]
          /\ invoices'[i].balance = 0
          /\ Over(invoices'[i].received, invoices'[i].refunded)
                 <= kept + invoices[i].credited - invoices[i].refunded
      BY <1>1, <1>5, <2>1, <2>2, <2>3, SettleRows
    <2>5. kept \in Nat /\ kept <= retained
      BY <1>1, <1>2, <1>3, <2>2, KeptBounds
    <2>6. /\ Over(invoices'[i].received, invoices'[i].refunded) \in Nat
          /\ invoices[i].credited \in Nat /\ invoices[i].refunded \in Nat
      <3>1. invoices'[i] \in InvoiceRow
        BY <2>1, <2>4
      <3> QED BY <2>1, <3>1, InvoiceFields, Amounts
    <2> HIDE DEF kept, retained
    <2> QED BY <1>3, <2>4, <2>5, <2>6
  <1>6. ASSUME \A i \in Billable(s) : ~Misread(i)
        PROVE  SumFunctionOnSet(N, Billable(s)) >= retained
    <2>1. SumFunctionOnSet(N, chosen) >= retained
      <3>1. \A i \in chosen : view[i] = invoices[i] /\ InvoiceSound(invoices[i])
        BY <1>1, <1>2, <1>4, <1>6 DEF Seen
      <3> QED BY <1>1, <3>1, Retained
    <2>2. \A i \in Billable(s) : N[i] \in Nat
      <3> TAKE i \in Billable(s)
      <3>1. invoices' \in [DOMAIN invoices -> InvoiceRow] /\ i \in DOMAIN invoices
        BY <1>1, <1>3, SettleRows
      <3>2. invoices'[i] \in InvoiceRow
        BY <3>1
      <3> QED BY <3>1, <3>2, InvoiceFields, Amounts
    <2> HIDE DEF N, retained
    <2>3. IsFiniteSet(chosen) /\ \A i \in chosen : N[i] \in Nat
      BY <1>2, <1>3, <2>2, FS_Subset
    <2>4. /\ SumFunctionOnSet(N, chosen) <= SumFunctionOnSet(N, Billable(s))
          /\ SumFunctionOnSet(N, chosen) \in Nat /\ SumFunctionOnSet(N, Billable(s)) \in Nat
      BY <1>2, <1>3, <2>2, <2>3, SumSubset, SumNat
    <2> DEFINE a == SumFunctionOnSet(N, chosen)
               b == SumFunctionOnSet(N, Billable(s))
    <2>5. a \in Nat /\ b \in Nat /\ a <= b /\ a >= retained
      BY <2>1, <2>4
    <2> HIDE DEF a, b
    <2>6. b >= retained
      BY <1>3, <2>5
    <2> QED BY <2>6 DEF b
  <1> QED BY <1>5, <1>6 DEF N, retained

\* When a return is settled nothing is due any more on the invoices it
\* credits; of the money received the firm keeps at least the deductions, and
\* beyond them only what earlier credit notes have not given back yet. An
\* invoice misread is not covered, nor then the sum kept.
THEOREM ReturnsSettled == Spec => ReturnSettled
  <1> DEFINE A == \A r \in DOMAIN returns :
           returns[r].status = "APPROVED" /\ returns'[r].status = "FINANCIALLY_RESOLVED" =>
               LET billable == Billable(deliveries[returns[r].delivery].sale)
                   credited == {i \in billable : invoices'[i].credited > invoices[i].credited}
                   after == [i \in DOMAIN invoices |->
                                Over(invoices'[i].received, invoices'[i].refunded)]
               IN /\ \A i \in credited : ~ Misread(i) =>
                         /\ invoices'[i].balance = 0
                         /\ after[i] <= returns[r].retained + invoices[i].credited
                                            - invoices[i].refunded
                  /\ \/ \E i \in billable : Misread(i)
                     \/ SumFunctionOnSet(after, billable) >= returns[r].retained
  <1>1. ASSUME IInv, [Next]_vars, NEW r \in DOMAIN returns,
               returns[r].status = "APPROVED", returns'[r].status = "FINANCIALLY_RESOLVED"
        PROVE  LET billable == Billable(deliveries[returns[r].delivery].sale)
                   credited == {i \in billable : invoices'[i].credited > invoices[i].credited}
                   after == [i \in DOMAIN invoices |->
                                Over(invoices'[i].received, invoices'[i].refunded)]
               IN /\ \A i \in credited : ~ Misread(i) =>
                         /\ invoices'[i].balance = 0
                         /\ after[i] <= returns[r].retained + invoices[i].credited
                                            - invoices[i].refunded
                  /\ \/ \E i \in billable : Misread(i)
                     \/ SumFunctionOnSet(after, billable) >= returns[r].retained
    <2> DEFINE billable == Billable(deliveries[returns[r].delivery].sale)
               after == [i \in DOMAIN invoices |->
                            Over(invoices'[i].received, invoices'[i].refunded)]
    <2>1. \A i \in billable : after[i] = Over(invoices'[i].received, invoices'[i].refunded)
      BY DEF Billable, Live
    <2>2. \A i \in billable : invoices'[i].credited > invoices[i].credited /\ ~ Misread(i) =>
              /\ invoices'[i].balance = 0
              /\ Over(invoices'[i].received, invoices'[i].refunded)
                     <= returns[r].retained + invoices[i].credited - invoices[i].refunded
      BY <1>1, SettledOfInvariant
    <2>3. \/ \E i \in billable : Misread(i)
          \/ SumFunctionOnSet(after, billable) >= returns[r].retained
      BY <1>1, SettledOfInvariant
    <2> HIDE DEF after, billable
    <2>4. /\ \A i \in {i \in billable : invoices'[i].credited > invoices[i].credited} :
                 ~ Misread(i) => /\ invoices'[i].balance = 0
                                 /\ after[i] <= returns[r].retained + invoices[i].credited
                                                    - invoices[i].refunded
          /\ \/ \E i \in billable : Misread(i)
             \/ SumFunctionOnSet(after, billable) >= returns[r].retained
      BY <2>1, <2>2, <2>3
    <2> QED BY <2>4 DEF after, billable
  <1>2. IInv /\ [Next]_vars => [A]_vars
    BY <1>1
  <1>3. Spec => [][A]_vars
    BY <1>2, Invariance, PTL DEF Spec
  <1> QED BY <1>3 DEF ReturnSettled

-----------------------------------------------------------------------------
(* The promise kept.                                                       *)

\* where a sale stands, by its status
LEMMA Stages ==
  ASSUME NEW s
  PROVE  /\ s \notin DOMAIN sales => StageOf(s) = "none"
         /\ s \in DOMAIN sales =>
               /\ Active(s) => StageOf(s) = "promised"
               /\ sales[s].status = "cancelled" => StageOf(s) = "released"
               /\ sales[s].status = "delivered" /\ Returned(s) => StageOf(s) = "returned"
               /\ sales[s].status = "delivered" /\ ~Returned(s) => StageOf(s) = "handed"
  BY DEF StageOf, Active

LEMMA StagesAfter ==
  ASSUME NEW s
  PROVE  /\ s \notin DOMAIN sales' => StageOf(s)' = "none"
         /\ s \in DOMAIN sales' =>
               /\ sales'[s].status \notin {"cancelled", "delivered"} => StageOf(s)' = "promised"
               /\ sales'[s].status = "cancelled" => StageOf(s)' = "released"
               /\ sales'[s].status = "delivered" /\ Returned(s)' => StageOf(s)' = "returned"
               /\ sales'[s].status = "delivered" /\ ~Returned(s)' => StageOf(s)' = "handed"
  BY DEF StageOf, Active

\* a sale of which neither the status nor the return tells
LEMMA SameStage ==
  ASSUME NEW s, s \in DOMAIN sales' <=> s \in DOMAIN sales,
         s \in DOMAIN sales => /\ sales'[s].status = "cancelled" <=> sales[s].status = "cancelled"
                               /\ sales'[s].status = "delivered" <=> sales[s].status = "delivered",
         Returned(s)' <=> Returned(s)
  PROVE  StageOf(s)' = StageOf(s)
  BY Stages, StagesAfter DEF Active

LEMMA OneStage ==
  ASSUME NEW s \in 1..MaxSale, NEW x, StageOf(s)' = x,
         \A t \in 1..MaxSale : t # s => StageOf(t)' = StageOf(t)
  PROVE  stages' = [stages EXCEPT ![s] = x]
  BY DEF stages

LEMMA StagesStay ==
  ASSUME \A s \in 1..MaxSale : StageOf(s)' = StageOf(s) /\ CarOf(s)' = CarOf(s)
  PROVE  UNCHANGED <<stages, cars>>
  BY DEF stages, cars

\* the steps that leave the deliveries alone
LEMMA DeliveryMoves ==
  ASSUME [Next]_vars
  PROVE  \/ UNCHANGED deliveries
         \/ \E s \in DOMAIN sales : PlanDelivery(s)
         \/ \E d \in DOMAIN deliveries :
               \/ \E next \in DeliveryStatus : StepDelivery(d, next)
               \/ CheckItem(d) \/ CancelDelivery(d) \/ Sign(d)
         \/ \E c \in Clerk : WriteReschedule(c) \/ WritePapers(c)
  <1>1. CASE SaleStep
    BY <1>1 DEF SaleStep, CreateSale, AdvanceSale, CancelSale, CreateInvoice, Authorize
  <1>2. CASE BillingStep
    BY <1>2 DEF BillingStep, IssueInvoice, CancelInvoice, Refund, Pay, Credit, EditInvoice, Revoke,
       Billing
  <1>3. CASE DeliveryStep
    BY <1>3 DEF DeliveryStep, AddService, RequestReturn
  <1>4. CASE ReturnStep
    BY <1>4 DEF ReturnStep, StepReturn, Deduct, Resolve, Settle, StockDecision
  <1>5. CASE LateStep
    BY <1>5 DEF LateStep, ReadVehicle, ReadReschedule, ReadPapers, ReadWarranty, ReadSettlement,
       Read, WriteVehicle, WriteWarranty, ResolveScoped, Settle, LeaveSettlement
  <1>6. CASE UNCHANGED vars
    BY <1>6 DEF vars
  <1> QED BY <1>1, <1>2, <1>3, <1>4, <1>5, <1>6 DEF Next

LEMMA RowOfDelivery ==
  ASSUME IInv, NEW d \in DOMAIN deliveries, NEW w \in DeliveryRow, w.sale = deliveries[d].sale,
         deliveries' = [deliveries EXCEPT ![d] = w], NEW e \in DOMAIN deliveries
  PROVE  e \in DOMAIN deliveries' /\ deliveries'[e].sale = deliveries[e].sale
  <1>1. deliveries \in Seq(DeliveryRow)
    BY DEF IInv, TypeOK
  <1> QED BY <1>1, RowSet

\* a delivery stays with its sale
LEMMA DeliveryStays ==
  ASSUME IInv, [Next]_vars, NEW e \in DOMAIN deliveries
  PROVE  e \in DOMAIN deliveries' /\ deliveries'[e].sale = deliveries[e].sale
  <1>1. CASE UNCHANGED deliveries
    BY <1>1
  <1>2. ASSUME NEW s \in DOMAIN sales, PlanDelivery(s)
        PROVE  e \in DOMAIN deliveries' /\ deliveries'[e].sale = deliveries[e].sale
    <2> DEFINE w == [sale |-> s, status |-> "planned", checklist |-> "none",
                     papers |-> TRUE, signed |-> FALSE]
    <2>1. s \in 1..MaxSale /\ deliveries \in Seq(DeliveryRow)
      BY Tables DEF IInv, TypeOK
    <2>2. w \in DeliveryRow
      BY <2>1 DEF DeliveryRow, DeliveryStatus, Checklist
    <2>3. deliveries' = Append(deliveries, w)
      BY <1>2 DEF PlanDelivery
    <2> HIDE DEF w
    <2> QED BY <2>1, <2>2, <2>3, RowAdded
  <1>3. ASSUME NEW d \in DOMAIN deliveries, NEW next \in DeliveryStatus, StepDelivery(d, next)
        PROVE  e \in DOMAIN deliveries' /\ deliveries'[e].sale = deliveries[e].sale
    <2> DEFINE x == deliveries[d]
    <2>1. x \in DeliveryRow /\ x.checklist \in Checklist
      BY DeliveryAt, DeliveryFields
    <2>2. PICK c \in IF x.status = "planned" /\ x.checklist = "none"
                     THEN {"open", "complete"} ELSE {x.checklist} :
              Delivery(d, [x EXCEPT !.status = next, !.checklist = c])
      BY <1>3 DEF StepDelivery
    <2> DEFINE w == [x EXCEPT !.status = next, !.checklist = c]
    <2>3. c \in Checklist
      BY <2>1, <2>2 DEF Checklist
    <2>4. w \in DeliveryRow /\ w.sale = x.sale
      BY <2>1, <2>3 DEF DeliveryRow
    <2>5. deliveries' = [deliveries EXCEPT ![d] = w]
      BY <2>2 DEF Delivery
    <2> HIDE DEF w
    <2> QED BY <2>4, <2>5, RowOfDelivery
  <1>4. ASSUME NEW d \in DOMAIN deliveries, CheckItem(d)
        PROVE  e \in DOMAIN deliveries' /\ deliveries'[e].sale = deliveries[e].sale
    <2> DEFINE w == [deliveries[d] EXCEPT !.checklist = IF @ = "open" THEN "complete" ELSE "open"]
    <2>1. deliveries[d] \in DeliveryRow
      BY DeliveryAt
    <2>2. w \in DeliveryRow /\ w.sale = deliveries[d].sale
      BY <2>1 DEF DeliveryRow, Checklist
    <2>3. deliveries' = [deliveries EXCEPT ![d] = w]
      BY <1>4 DEF CheckItem, Delivery
    <2> HIDE DEF w
    <2> QED BY <2>2, <2>3, RowOfDelivery
  <1>5. ASSUME NEW d \in DOMAIN deliveries, CancelDelivery(d)
        PROVE  e \in DOMAIN deliveries' /\ deliveries'[e].sale = deliveries[e].sale
    <2> DEFINE w == [deliveries[d] EXCEPT !.status = "cancelled"]
    <2>1. deliveries[d] \in DeliveryRow
      BY DeliveryAt
    <2>2. w \in DeliveryRow /\ w.sale = deliveries[d].sale
      BY <2>1 DEF DeliveryRow, DeliveryStatus
    <2>3. deliveries' = [deliveries EXCEPT ![d] = w]
      BY <1>5 DEF CancelDelivery, Delivery
    <2> HIDE DEF w
    <2> QED BY <2>2, <2>3, RowOfDelivery
  <1>6. ASSUME NEW d \in DOMAIN deliveries, Sign(d)
        PROVE  e \in DOMAIN deliveries' /\ deliveries'[e].sale = deliveries[e].sale
    <2>1. HandOver(d)
      BY <1>6 DEF Sign
    <2>2. /\ DOMAIN deliveries' = DOMAIN deliveries
          /\ deliveries'[d].sale = deliveries[d].sale
          /\ \A b \in DOMAIN deliveries : b # d => deliveries'[b] = deliveries[b]
      BY <2>1, HandOverRows
    <2> QED BY <2>2
  <1>7. ASSUME NEW c \in Clerk, WriteReschedule(c) \/ WritePapers(c)
        PROVE  e \in DOMAIN deliveries' /\ deliveries'[e].sale = deliveries[e].sale
    <2> DEFINE late == request[c]
               d == late.id
    <2>1. /\ d \in DOMAIN deliveries
          /\ \/ deliveries' = [deliveries EXCEPT ![d] = [@ EXCEPT !.status = "planned"]]
             \/ /\ late.value \in BOOLEAN
                /\ deliveries' = [deliveries EXCEPT ![d] = [@ EXCEPT !.papers = late.value]]
      BY <1>7, LateFields DEF WriteReschedule, WritePapers
    <2> HIDE DEF d
    <2>2. deliveries[d] \in DeliveryRow
      BY <2>1, DeliveryAt
    <2>3. PICK w \in DeliveryRow : /\ w.sale = deliveries[d].sale
                                   /\ deliveries' = [deliveries EXCEPT ![d] = w]
      <3>1. /\ [deliveries[d] EXCEPT !.status = "planned"] \in DeliveryRow
            /\ [deliveries[d] EXCEPT !.status = "planned"].sale = deliveries[d].sale
        BY <2>2 DEF DeliveryRow, DeliveryStatus
      <3>2. \A b \in BOOLEAN : /\ [deliveries[d] EXCEPT !.papers = b] \in DeliveryRow
                               /\ [deliveries[d] EXCEPT !.papers = b].sale = deliveries[d].sale
        BY <2>2 DEF DeliveryRow
      <3> QED BY <2>1, <3>1, <3>2
    <2> QED BY <2>1, <2>3, RowOfDelivery
  <1> QED BY <1>1, <1>2, <1>3, <1>4, <1>5, <1>6, <1>7, DeliveryMoves

\* a car comes back to stock by the decision on its return
LEMMA ReturnRowStays ==
  ASSUME IInv, [Next]_vars, NEW q \in DOMAIN returns
  PROVE  /\ q \in DOMAIN returns' /\ returns'[q].delivery = returns[q].delivery
         /\ returns[q].status \in {"STOCK_DECIDED", "CLOSED"} =>
                returns'[q].status \in {"STOCK_DECIDED", "CLOSED"}
         /\ \/ returns'[q].status \in {"STOCK_DECIDED", "CLOSED"} =>
                   returns[q].status \in {"STOCK_DECIDED", "CLOSED"}
            \/ \E next \in AdministrableVehicleStatus : StockDecision(q, next)
         /\ \A p \in DOMAIN returns' : p \in DOMAIN returns \/ returns'[p].status = "REQUESTED"
  <1> DEFINE Goal == /\ q \in DOMAIN returns' /\ returns'[q].delivery = returns[q].delivery
                     /\ returns[q].status \in {"STOCK_DECIDED", "CLOSED"} =>
                            returns'[q].status \in {"STOCK_DECIDED", "CLOSED"}
                     /\ \/ returns'[q].status \in {"STOCK_DECIDED", "CLOSED"} =>
                               returns[q].status \in {"STOCK_DECIDED", "CLOSED"}
                        \/ \E next \in AdministrableVehicleStatus : StockDecision(q, next)
                     /\ \A p \in DOMAIN returns' : p \in DOMAIN returns
                                                   \/ returns'[p].status = "REQUESTED"
  <1>1. ASSUME UNCHANGED returns PROVE Goal
    BY <1>1
  <1>2. ASSUME NEW d \in DOMAIN deliveries, RequestReturn(d) PROVE Goal
    BY <1>2, RequestReturnRows
  <1>3. ASSUME NEW r \in DOMAIN returns, NEW next \in ReturnStatus, StepReturn(r, next) PROVE Goal
    <2>1. returns' = [returns EXCEPT ![r].status = next] /\ <<returns[r].status, next>> \in ReturnSteps
      BY <1>3 DEF StepReturn
    <2>2. /\ DOMAIN returns' = DOMAIN returns /\ returns'[r].status = next
          /\ returns'[r].delivery = returns[r].delivery
          /\ \A p \in DOMAIN returns : p # r => returns'[p] = returns[p]
      BY <2>1, ReturnTaken
    <2>3. next \in {"STOCK_DECIDED", "CLOSED"} <=> returns[r].status \in {"STOCK_DECIDED", "CLOSED"}
      BY <2>1 DEF ReturnSteps
    <2>4. returns'[q].status \in {"STOCK_DECIDED", "CLOSED"} <=>
              returns[q].status \in {"STOCK_DECIDED", "CLOSED"}
      BY <2>2, <2>3
    <2> QED BY <2>2, <2>4
  <1>4. ASSUME NEW r \in DOMAIN returns, NEW n \in 0..Price, Deduct(r, n) PROVE Goal
    <2>1. /\ DOMAIN returns' = DOMAIN returns /\ returns'[r].status = returns[r].status
          /\ returns'[r].delivery = returns[r].delivery
          /\ \A p \in DOMAIN returns : p # r => returns'[p] = returns[p]
      BY <1>4, DeductRows
    <2> QED BY <2>1
  <1>5. ASSUME NEW r \in DOMAIN returns, NEW chosen, NEW view, Settle(r, chosen, view)
        PROVE  Goal
    <2>1. /\ returns[r].status = "APPROVED"
          /\ DOMAIN returns' = DOMAIN returns /\ returns'[r].status = "FINANCIALLY_RESOLVED"
          /\ returns'[r].delivery = returns[r].delivery
          /\ \A p \in DOMAIN returns : p # r => returns'[p] = returns[p]
      BY <1>5, SettledReturn
    <2> QED BY <2>1
  <1>6. ASSUME NEW r \in DOMAIN returns, NEW next \in AdministrableVehicleStatus, StockDecision(r, next)
        PROVE  Goal
    <2>1. returns' = [returns EXCEPT ![r].status = "STOCK_DECIDED"]
      BY <1>6 DEF StockDecision
    <2>2. /\ DOMAIN returns' = DOMAIN returns /\ returns'[r].status = "STOCK_DECIDED"
          /\ returns'[r].delivery = returns[r].delivery
          /\ \A p \in DOMAIN returns : p # r => returns'[p] = returns[p]
      BY <2>1, ReturnTaken DEF ReturnStatus
    <2>3. CASE q = r
      BY <1>6, <2>2, <2>3
    <2>4. CASE q # r
      BY <2>2, <2>4
    <2> QED BY <2>3, <2>4
  <1>7. ASSUME NEW r \in DOMAIN returns, NEW chosen \in SUBSET DOMAIN invoices, Resolve(r, chosen)
        PROVE  Goal
    BY <1>5, <1>7 DEF Resolve
  <1>8. ASSUME NEW c \in Clerk, NEW chosen \in SUBSET DOMAIN invoices, ResolveScoped(c, chosen)
        PROVE  Goal
    BY <1>5, <1>8, ScopedSettlement
  <1> HIDE DEF Goal
  <1>9. ReturnStep => Goal
    BY <1>3, <1>4, <1>6, <1>7 DEF ReturnStep
  <1>10. Goal
    BY <1>1, <1>2, <1>8, <1>9, ReturnOnlyMoves
  <1> QED BY <1>10 DEF Goal

\* a car is back for good, and comes back by no other step
LEMMA ReturnedStays ==
  ASSUME IInv, [Next]_vars, NEW s
  PROVE  /\ Returned(s) => Returned(s)'
         /\ Returned(s)' => \/ Returned(s)
                            \/ \E r \in DOMAIN returns, next \in AdministrableVehicleStatus :
                                  /\ StockDecision(r, next)
                                  /\ deliveries[returns[r].delivery].sale = s
  <1>1. ASSUME Returned(s) PROVE Returned(s)'
    <2>1. PICK r \in DOMAIN returns : /\ deliveries[returns[r].delivery].sale = s
                                      /\ returns[r].status \in {"STOCK_DECIDED", "CLOSED"}
      BY <1>1 DEF Returned
    <2>2. /\ r \in DOMAIN returns' /\ returns'[r].delivery = returns[r].delivery
          /\ returns'[r].status \in {"STOCK_DECIDED", "CLOSED"}
      BY <2>1, ReturnRowStays
    <2>3. deliveries'[returns[r].delivery].sale = s
      BY <2>1, ReturnAt, DeliveryStays
    <2> QED BY <2>2, <2>3 DEF Returned
  <1>2. ASSUME Returned(s)'
        PROVE  \/ Returned(s)
               \/ \E r \in DOMAIN returns, next \in AdministrableVehicleStatus :
                     /\ StockDecision(r, next)
                     /\ deliveries[returns[r].delivery].sale = s
    <2>1. PICK r \in DOMAIN returns' : /\ deliveries'[returns'[r].delivery].sale = s
                                       /\ returns'[r].status \in {"STOCK_DECIDED", "CLOSED"}
      BY <1>2 DEF Returned
    <2>2. r \in DOMAIN returns
      <3>1. CASE DOMAIN returns = {}
        <4>1. \/ UNCHANGED returns
              \/ \E d \in DOMAIN deliveries : RequestReturn(d)
          BY <3>1, ReturnOnlyMoves, ScopedSettlement DEF ReturnStep
        <4>2. ASSUME NEW d \in DOMAIN deliveries, RequestReturn(d)
              PROVE  /\ DOMAIN returns' = DOMAIN returns \cup {Len(returns) + 1}
                     /\ returns'[Len(returns) + 1].status = "REQUESTED"
          BY <4>2, RequestReturnRows
        <4> QED BY <2>1, <3>1, <4>1, <4>2
      <3>2. CASE DOMAIN returns # {}
        <4>1. PICK q \in DOMAIN returns : TRUE
          BY <3>2
        <4>2. r \in DOMAIN returns \/ returns'[r].status = "REQUESTED"
          BY <2>1, <4>1, ReturnRowStays
        <4> QED BY <2>1, <4>2
      <3> QED BY <3>1, <3>2
    <2>3. deliveries[returns[r].delivery].sale = s
      <3>1. returns'[r].delivery = returns[r].delivery
        BY <2>2, ReturnRowStays
      <3>2. deliveries'[returns[r].delivery].sale = deliveries[returns[r].delivery].sale
        BY <2>2, ReturnAt, DeliveryStays
      <3> QED BY <2>1, <3>1, <3>2
    <2>4. \/ returns[r].status \in {"STOCK_DECIDED", "CLOSED"}
          \/ \E next \in AdministrableVehicleStatus : StockDecision(r, next)
      BY <2>1, <2>2, ReturnRowStays
    <2> QED BY <2>2, <2>3, <2>4 DEF Returned
  <1> QED BY <1>1, <1>2

\* the decision on one return is about one sale
LEMMA OneReturn ==
  ASSUME IInv, [Next]_vars, NEW r \in DOMAIN returns, NEW next \in AdministrableVehicleStatus,
         StockDecision(r, next), NEW t, t # deliveries[returns[r].delivery].sale
  PROVE  Returned(t)' <=> Returned(t)
  <1>1. returns' = [returns EXCEPT ![r].status = "STOCK_DECIDED"] /\ UNCHANGED deliveries
    BY DEF StockDecision
  <1>2. /\ DOMAIN returns' = DOMAIN returns /\ returns'[r].delivery = returns[r].delivery
        /\ \A q \in DOMAIN returns : q # r => returns'[q] = returns[q]
    BY <1>1, ReturnTaken DEF ReturnStatus
  <1> QED BY <1>1, <1>2 DEF Returned

\* the steps of Handover, on the stages of the sales
LEMMA MoveOf ==
  ASSUME NEW s \in 1..MaxSale, NEW from, NEW to,
         <<from, to>> \in {<<"promised", "released">>, <<"promised", "handed">>, <<"handed", "returned">>},
         StageOf(s) = from, StageOf(s)' = to,
         \A t \in 1..MaxSale : t # s => StageOf(t)' = StageOf(t),
         \A t \in 1..MaxSale : CarOf(t)' = CarOf(t)
  PROVE  Promised!Next
  <1>1. stages[s] = from
    BY DEF stages
  <1>2. stages' = [stages EXCEPT ![s] = to]
    BY OneStage
  <1>3. UNCHANGED cars
    BY DEF cars
  <1>4. Promised!Move(s, from, to)
    BY <1>1, <1>2, <1>3 DEF Promised!Move
  <1>5. \/ Promised!Move(s, "promised", "released") \/ Promised!Move(s, "promised", "handed")
        \/ Promised!Move(s, "handed", "returned")
    BY <1>4
  <1> QED BY <1>5 DEF Promised!Next

LEMMA PromisedInit == Init => Promised!Init
  <1> SUFFICES ASSUME Init PROVE Promised!Init
    OBVIOUS
  <1>1. \A s \in 1..MaxSale : s \notin DOMAIN sales
    BY DEF Init
  <1>2. \A s \in 1..MaxSale : StageOf(s) = "none"
    BY <1>1, Stages
  <1>3. stages = [s \in 1..MaxSale |-> "none"]
    BY <1>2 DEF stages
  <1>4. (CHOOSE v \in Vehicle : TRUE) \in Vehicle
    BY SalesAssumption
  <1>5. \A s \in 1..MaxSale : CarOf(s) \in Vehicle
    BY <1>1, <1>4 DEF CarOf
  <1>6. cars \in [1..MaxSale -> Vehicle]
    BY <1>5 DEF cars
  <1> QED BY <1>3, <1>6 DEF Promised!Init

LEMMA CreateSalePromises ==
  ASSUME IInv, [Next]_vars, NEW v \in Vehicle, CreateSale(v)
  PROVE  Promised!Next
  <1>1. PICK k \in Warranty \ {"ACTIVE"} :
            sales' = Append(sales, [vehicle |-> v, status |-> "reserved", warranty |-> k])
    BY DEF CreateSale
  <1> DEFINE w == [vehicle |-> v, status |-> "reserved", warranty |-> k]
  <1>0. PICK n : n = Len(sales) + 1
    OBVIOUS
  <1>2. w \in SaleRow /\ w.status = "reserved" /\ w.vehicle = v
    BY DEF SaleRow, SaleStatus
  <1>3. sales \in Seq(SaleRow) /\ Len(sales) \in Nat /\ Len(sales) < MaxSale
    BY Tables DEF IInv, TypeOK, CreateSale
  <1>4. sales' = Append(sales, w)
    BY <1>1
  <1> HIDE DEF w
  <1>5. /\ DOMAIN sales' = DOMAIN sales \cup {n} /\ n \notin DOMAIN sales
        /\ sales'[n] = w /\ \A t \in DOMAIN sales : sales'[t] = sales[t]
    BY <1>0, <1>2, <1>3, <1>4, RowAdded
  <1>6. n \in 1..MaxSale
    BY <1>0, <1>3, SalesAssumption
  <1>7. \A t \in 1..MaxSale : Returned(t)' <=> Returned(t)
    <2> TAKE t \in 1..MaxSale
    <2>1. UNCHANGED <<deliveries, returns>>
      BY DEF CreateSale
    <2> QED BY <2>1 DEF Returned
  <1>8. StageOf(n) = "none" /\ StageOf(n)' = "promised"
    BY <1>2, <1>5, Stages, StagesAfter
  <1>9. \A t \in 1..MaxSale : t # n => StageOf(t)' = StageOf(t)
    <2> SUFFICES ASSUME NEW t \in 1..MaxSale, t # n PROVE StageOf(t)' = StageOf(t)
      OBVIOUS
    <2>1. t \in DOMAIN sales' <=> t \in DOMAIN sales
      BY <1>5
    <2>2. t \in DOMAIN sales => sales'[t] = sales[t]
      BY <1>5
    <2> QED BY <1>7, <2>1, <2>2, SameStage
  <1>10. stages' = [stages EXCEPT ![n] = "promised"] /\ stages[n] = "none"
    BY <1>6, <1>8, <1>9, OneStage DEF stages
  <1>11. cars' = [cars EXCEPT ![n] = v]
    <2>1. CarOf(n)' = v /\ \A t \in 1..MaxSale : t # n => CarOf(t)' = CarOf(t)
      BY <1>2, <1>5 DEF CarOf
    <2> QED BY <1>6, <2>1 DEF cars
  <1>12. \A t \in 1..MaxSale : ~(stages[t] = "promised" /\ cars[t] = v)
    <2> SUFFICES ASSUME NEW t \in 1..MaxSale, stages[t] = "promised", cars[t] = v PROVE FALSE
      OBVIOUS
    <2>1. StageOf(t) = "promised" /\ CarOf(t) = v
      BY DEF stages, cars
    <2>2. t \in DOMAIN sales /\ Active(t)
      BY <2>1, Stages DEF Active
    <2>3. sales[t].vehicle = v
      BY <2>1, <2>2 DEF CarOf
    <2> QED BY <2>2, <2>3 DEF CreateSale
  <1>13. Promised!Promise(n, v)
    BY <1>10, <1>11, <1>12 DEF Promised!Promise
  <1> QED BY <1>6, <1>13 DEF Promised!Next

\* a sale moves on, or is cancelled
LEMMA SaleMovesPromised ==
  ASSUME IInv, [Next]_vars, NEW s \in DOMAIN sales, AdvanceSale(s) \/ CancelSale(s)
  PROVE  Promised!Next \/ UNCHANGED <<stages, cars>>
  <1>1. s \in 1..MaxSale /\ sales[s] \in SaleRow /\ TypeOK
    BY Tables DEF IInv
  <1>2. PICK next \in SaleStatus \ {"delivered"} :
            /\ sales' = [sales EXCEPT ![s].status = next]
            /\ Active(s)
    <2>1. CASE AdvanceSale(s)
      <3>1. sales[s].status \in DOMAIN NextStatus
            /\ sales' = [sales EXCEPT ![s].status = NextStatus[sales[s].status]]
        BY <2>1 DEF AdvanceSale
      <3>2. NextStatus[sales[s].status] \in SaleStatus \ {"delivered"} /\ Active(s)
        BY <3>1 DEF NextStatus, SaleStatus, Active
      <3> QED BY <3>1, <3>2
    <2>2. CASE CancelSale(s)
      BY <2>2 DEF CancelSale, SaleStatus, Active
    <2> QED BY <2>1, <2>2
  <1> DEFINE w == [sales[s] EXCEPT !.status = next]
  <1>3. w \in SaleRow /\ w.status = next /\ w.vehicle = sales[s].vehicle
    BY <1>1, SaleFields
  <1>4. sales' = [sales EXCEPT ![s] = w]
    BY <1>2
  <1> HIDE DEF w
  <1>5. /\ DOMAIN sales' = DOMAIN sales /\ sales'[s] = w
        /\ \A t \in DOMAIN sales : t # s => sales'[t] = sales[t]
    BY <1>1, <1>3, <1>4, SaleChanged
  <1>6. \A t \in 1..MaxSale : Returned(t)' <=> Returned(t)
    <2> TAKE t \in 1..MaxSale
    <2>1. UNCHANGED <<deliveries, returns>>
      BY DEF AdvanceSale, CancelSale
    <2> QED BY <2>1 DEF Returned
  <1>7. \A t \in 1..MaxSale : CarOf(t)' = CarOf(t)
    BY <1>3, <1>5 DEF CarOf
  <1>8. \A t \in 1..MaxSale : t # s => StageOf(t)' = StageOf(t)
    <2> SUFFICES ASSUME NEW t \in 1..MaxSale, t # s PROVE StageOf(t)' = StageOf(t)
      OBVIOUS
    <2>1. (t \in DOMAIN sales' <=> t \in DOMAIN sales) /\ (t \in DOMAIN sales => sales'[t] = sales[t])
      BY <1>5
    <2> QED BY <1>6, <2>1, SameStage
  <1>9. StageOf(s) = "promised"
    BY <1>2, Stages
  <1>10. CASE next = "cancelled"
    <2>1. StageOf(s)' = "released"
      BY <1>3, <1>5, <1>10, StagesAfter
    <2> QED BY <1>1, <1>7, <1>8, <1>9, <2>1, MoveOf
  <1>11. CASE next # "cancelled"
    <2>1. StageOf(s)' = "promised"
      BY <1>2, <1>3, <1>5, <1>11, StagesAfter
    <2>2. \A t \in 1..MaxSale : StageOf(t)' = StageOf(t)
      BY <1>8, <1>9, <2>1
    <2> QED BY <1>7, <2>2, StagesStay
  <1> QED BY <1>10, <1>11

LEMMA SignPromised ==
  ASSUME IInv, [Next]_vars, NEW d \in DOMAIN deliveries, Sign(d)
  PROVE  Promised!Next
  <1>0. PICK s : s = deliveries[d].sale
    OBVIOUS
  <1>1. HandOver(d) /\ sales[s].status = "ready_for_delivery"
    BY <1>0 DEF Sign
  <1>2. /\ s \in DOMAIN sales /\ DOMAIN sales' = DOMAIN sales
        /\ sales'[s].status = "delivered" /\ sales'[s].vehicle = sales[s].vehicle
        /\ \A t \in DOMAIN sales : t # s => sales'[t] = sales[t]
        /\ DOMAIN deliveries' = DOMAIN deliveries /\ deliveries'[d].sale = s
        /\ \A e \in DOMAIN deliveries : e # d => deliveries'[e] = deliveries[e]
        /\ UNCHANGED returns
    BY <1>0, <1>1, HandOverRows
  <1>3. s \in 1..MaxSale
    BY <1>2, Tables DEF IInv
  <1>4. \A t \in 1..MaxSale : Returned(t)' <=> Returned(t)
    <2> TAKE t \in 1..MaxSale
    <2>1. \A r \in DOMAIN returns : /\ returns[r].delivery \in DOMAIN deliveries
                                    /\ deliveries'[returns[r].delivery].sale
                                           = deliveries[returns[r].delivery].sale
      BY <1>0, <1>2, ReturnAt
    <2> QED BY <1>2, <2>1 DEF Returned
  <1>5. ~Returned(s)
    <2>1. \A r \in DOMAIN returns : deliveries[returns[r].delivery].sale # s
      <3> SUFFICES ASSUME NEW r \in DOMAIN returns, deliveries[returns[r].delivery].sale = s
                   PROVE  FALSE
        OBVIOUS
      <3>1. returns[r].delivery \in DOMAIN deliveries /\ deliveries[returns[r].delivery].signed
        BY ReturnAt
      <3>2. sales[deliveries[returns[r].delivery].sale].status = "delivered"
        BY <3>1, DeliveryAt
      <3> QED BY <1>1, <3>2
    <2> QED BY <2>1 DEF Returned
  <1>6. StageOf(s) = "promised"
    BY <1>1, <1>2, Stages DEF Active
  <1>7. StageOf(s)' = "handed"
    BY <1>2, <1>3, <1>4, <1>5, StagesAfter
  <1>8. \A t \in 1..MaxSale : t # s => StageOf(t)' = StageOf(t)
    <2> SUFFICES ASSUME NEW t \in 1..MaxSale, t # s PROVE StageOf(t)' = StageOf(t)
      OBVIOUS
    <2>1. (t \in DOMAIN sales' <=> t \in DOMAIN sales) /\ (t \in DOMAIN sales => sales'[t] = sales[t])
      BY <1>2
    <2> QED BY <1>4, <2>1, SameStage
  <1>9. \A t \in 1..MaxSale : CarOf(t)' = CarOf(t)
    BY <1>2 DEF CarOf
  <1> QED BY <1>3, <1>6, <1>7, <1>8, <1>9, MoveOf

\* every other step: the car may come back to stock
LEMMA RestPromised ==
  ASSUME IInv, [Next]_vars, DOMAIN sales' = DOMAIN sales,
         \A s \in DOMAIN sales : /\ sales'[s].status = sales[s].status
                                 /\ sales'[s].vehicle = sales[s].vehicle
  PROVE  Promised!Next \/ UNCHANGED <<stages, cars>>
  <1>1. \A t \in 1..MaxSale : CarOf(t)' = CarOf(t)
    BY DEF CarOf
  <1>2. ASSUME NEW t \in 1..MaxSale, Returned(t)' <=> Returned(t) PROVE StageOf(t)' = StageOf(t)
    BY <1>2, SameStage
  <1>3. CASE \A t \in 1..MaxSale : Returned(t)' <=> Returned(t)
    BY <1>1, <1>2, <1>3, StagesStay
  <1>4. ASSUME NEW s \in 1..MaxSale, Returned(s)', ~Returned(s)
        PROVE  Promised!Next
    <2>1. PICK r \in DOMAIN returns, next \in AdministrableVehicleStatus :
              StockDecision(r, next) /\ deliveries[returns[r].delivery].sale = s
      BY <1>4, ReturnedStays
    <2>2. s \in DOMAIN sales /\ sales[s].status = "delivered"
      <3>1. returns[r].delivery \in DOMAIN deliveries /\ deliveries[returns[r].delivery].signed
        BY ReturnAt
      <3> QED BY <2>1, <3>1, DeliveryAt
    <2>3. StageOf(s) = "handed" /\ StageOf(s)' = "returned"
      BY <1>4, <2>2, Stages, StagesAfter
    <2>4. \A t \in 1..MaxSale : t # s => StageOf(t)' = StageOf(t)
      <3> SUFFICES ASSUME NEW t \in 1..MaxSale, t # s PROVE StageOf(t)' = StageOf(t)
        OBVIOUS
      <3>1. Returned(t)' <=> Returned(t)
        BY <2>1, OneReturn
      <3> QED BY <1>2, <3>1
    <2> QED BY <1>1, <2>3, <2>4, MoveOf
  <1>5. \A t \in 1..MaxSale : Returned(t) => Returned(t)'
    BY ReturnedStays
  <1> QED BY <1>3, <1>4, <1>5

LEMMA PromisedStep == IInv /\ [Next]_vars => [Promised!Next]_<<stages, cars>>
  <1> SUFFICES ASSUME IInv, [Next]_vars PROVE Promised!Next \/ UNCHANGED <<stages, cars>>
    OBVIOUS
  <1>1. CASE UNCHANGED sales
    BY <1>1, RestPromised
  <1>2. ASSUME NEW c \in Clerk, WriteWarranty(c) PROVE Promised!Next \/ UNCHANGED <<stages, cars>>
    BY <1>2, WriteWarrantyRows, RestPromised
  <1> QED BY <1>1, <1>2, OtherSteps, CreateSalePromises, SaleMovesPromised, SignPromised

(***************************************************************************)
(* The sales, billing and delivery modules keep together what Handover     *)
(* promises about a car: promised to one sale at a time, handed over once, *)
(* to the sale it is promised to, and back in stock at most once.          *)
(***************************************************************************)
THEOREM HandoverImplemented == Spec => ImplementsHandover
  BY PromisedInit, PromisedStep, Invariance, PTL
     DEF Spec, ImplementsHandover, Promised!Spec, Promised!vars

=============================================================================
