---------------------------- MODULE PayablesProofs ----------------------------
(***************************************************************************)
(* What Purchasing and Payables guarantee for every number of shelves,     *)
(* orders, lines, keys, clerks, invoices and credit notes, all amounts and *)
(* every plan.                                                             *)
(***************************************************************************)
EXTENDS Payables, SumTheorems, SequenceTheorems

TransferRequest == [op : {"transfer"}, from : Place, to : Place, amount : Amount, key : Key]
ReceiptRequest == [op : {"receipt"}, order : Order, key : Key, items : [Line -> Nat],
                   place : Location \cup {None}, seen : [Line -> LineRow]]
CreditRequest == [op : {"credit"}, credit : Credit, due : Int, linked : BOOLEAN]
PaymentRequest == [op : {"payment"}, invoice : Invoice, amount : Amount, credited : Nat, paid : Nat]
Request == {None} \cup TransferRequest \cup ReceiptRequest \cup CreditRequest \cup PaymentRequest

StoreOK ==
    /\ rows \subseteq Place /\ IsFiniteSet(rows)
    /\ stock \in [Place -> StockRow]
    /\ ledger \in [Place -> Int]
    /\ moved \in [Key -> Nat]
    /\ \A r \in Place : stock[r].reserved <= stock[r].current

SupplyOK ==
    /\ order \in [Order -> Status]
    /\ line \in [Line -> LineRow]
    /\ receipt \in [Order \X Key -> [Line -> Nat]]
    /\ \A l \in Line :
          /\ line[l].received = ReceivedOf(l)
          /\ line[l].received <= line[l].ordered
          /\ order[Of[l]] \in {"none", "draft"} => line[l].received = 0

\* a receipt brings lines of one order
RequestOK ==
    /\ request \in [Clerk -> Request]
    /\ \A c \in Clerk : (request[c] # None /\ request[c].op = "receipt") =>
          \A l \in Line : request[c].items[l] > 0 => Of[l] = request[c].order

\* a receipt under way saw no more received than there is, nor than it saw ordered
SeenOK ==
    \A c \in Clerk : (request[c] # None /\ request[c].op = "receipt") =>
        \A l \in Line : /\ request[c].seen[l].received <= line[l].received
                        /\ request[c].seen[l].received <= request[c].seen[l].ordered

\* only a validated invoice has an expense, credit notes and payments
DebtOK ==
    /\ invoice \in [Invoice -> InvoiceRow]
    /\ credit \in [Credit -> CreditRow]
    /\ payments \in Seq(PaymentRow)
    /\ \A i \in Invoice : invoice[i].linked => invoice[i].status = "VALIDATED"
    /\ \A n \in Credit : credit[n].status # "none" =>
          credit[n].invoice \in Invoice /\ invoice[credit[n].invoice].status = "VALIDATED"
    /\ \A p \in DOMAIN payments : invoice[payments[p].invoice].linked

DecisionOK ==
    \A c \in Clerk : (request[c] # None /\ request[c].op = "credit") =>
        credit[request[c].credit].status # "none"

\* one payment at a time holds an expense, and less is paid than it saw at most
\* by what was reversed since
PaymentOK ==
    \A c \in Clerk : (request[c] # None /\ request[c].op = "payment") =>
        /\ invoice[request[c].invoice].linked
        /\ Paid(request[c].invoice) <= request[c].paid
        /\ \A d \in Clerk : (/\ request[d] # None /\ request[d].op = "payment"
                            /\ request[d].invoice = request[c].invoice) => d = c

BillOK ==
    /\ BilledReceived
    /\ \A i \in Invoice :
          invoice[i].bill.delivery # None => Delivered(invoice[i].bill.delivery)

IInv ==
    /\ plan \in Plan
    /\ StoreOK
    /\ SupplyOK
    /\ RequestOK
    /\ SeenOK
    /\ DebtOK
    /\ DecisionOK
    /\ PaymentOK
    /\ BillOK

\* What a step never undoes about the orders.
Onward ==
    /\ \A o \in Order : order[o] \notin {"none", "draft"} => order'[o] \notin {"none", "draft"}
    /\ \A l \in Line :
          /\ line[l].received <= line'[l].received
          /\ order[Of[l]] \notin {"none", "draft"} =>
                line'[l].ordered = line[l].ordered /\ line'[l].price = line[l].price
    /\ \A t \in Order \X Key, l \in Line : receipt[t][l] <= receipt'[t][l]

\* No more is paid on an invoice while a payment holds its expense.
PaidNoMore ==
    \A i \in Invoice : Paying(i)' => \A n \in Nat : Paid(i) <= n => Paid(i)' <= n

-----------------------------------------------------------------------------
(* Helpers.                                                                *)

LEMMA Constants ==
  /\ Site \in [Location -> Agency] /\ None \notin Location
  /\ Of \in [Line -> Order] /\ Buyer \in [Order -> Agency]
  /\ Amount \subseteq Nat \ {0}
  /\ IsFiniteSet(Line) /\ IsFiniteSet(Key) /\ IsFiniteSet(Credit)
  /\ Plans \subseteq Plan /\ Bills \subseteq Bill
  BY PurchasingAssumption, PayablesAssumption

LEMMA Amounts == \A n \in Amount : n \in Nat /\ n > 0
  <1>1. Amount \subseteq Nat \ {0}
    BY PurchasingAssumption
  <1> QED BY <1>1

LEMMA PlanKept ==
  ASSUME plan \in Plan, NEW errand, Does(errand) \/ UNCHANGED plan
  PROVE  plan' \in Plan
  <1>1. CASE UNCHANGED plan
    BY <1>1
  <1>2. CASE Does(errand)
    <2>1. plan.left \in [Errand -> Nat] /\ plan.left[errand] > 0
      BY <1>2 DEF Does, Plan
    <2>2. \A left \in [Errand -> Nat] :
             left[errand] > 0 => [left EXCEPT ![errand] = left[errand] - 1] \in [Errand -> Nat]
      <3> TAKE left \in [Errand -> Nat]
      <3>1. CASE errand \in Errand
        BY <3>1
      <3>2. CASE errand \notin Errand
        BY <3>2
      <3> QED BY <3>1, <3>2
    <2>3. [plan.left EXCEPT ![errand] = plan.left[errand] - 1] \in [Errand -> Nat]
      BY <2>1, <2>2
    <2> QED BY <1>2, <2>3 DEF Does, Plan
  <1> QED BY <1>1, <1>2

LEMMA LockedRow ==
  ASSUME rows \subseteq Place, NEW p \in Agency \X (Location \cup {None}), NEW create,
         NEW r \in Locked(p, create)
  PROVE  r \in Place /\ (p[2] # None => r = p)
  <1>1. CASE p[2] # None
    BY <1>1 DEF Locked
  <1>2. CASE p[2] = None
    <2>1. p \in Place
      BY <1>2 DEF Place
    <2> QED BY <1>2, <2>1 DEF Locked, RowsOf
  <1> QED BY <1>1, <1>2

\* it is one row, or none
LEMMA LockedOne ==
  ASSUME rows \subseteq Place, IsFiniteSet(rows), NEW p, NEW create, NEW r \in Locked(p, create)
  PROVE  Locked(p, create) = {r}
  <1>1. CASE p[2] # None
    BY <1>1 DEF Locked
  <1>2. CASE p[2] = None /\ RowsOf(p[1]) = {} /\ create
    BY <1>2 DEF Locked
  <1>3. CASE p[2] = None /\ ~(RowsOf(p[1]) = {} /\ create)
    <2>1. r \in RowsOf(p[1]) /\ Cardinality(RowsOf(p[1])) = 1
          /\ Locked(p, create) = RowsOf(p[1])
      BY <1>3 DEF Locked
    <2>2. IsFiniteSet(RowsOf(p[1]))
      BY FS_Subset DEF RowsOf
    <2>3. PICK x : RowsOf(p[1]) = {x}
      BY <2>1, <2>2, FS_Singleton
    <2> QED BY <2>1, <2>3
  <1> QED BY <1>1, <1>2, <1>3

LEMMA TransferShape ==
  ASSUME NEW q \in Request, q # None, q.op = "transfer"
  PROVE  q \in TransferRequest
  BY DEF Request, TransferRequest, ReceiptRequest, CreditRequest, PaymentRequest

LEMMA ReceiptShape ==
  ASSUME NEW q \in Request, q # None, q.op = "receipt"
  PROVE  q \in ReceiptRequest
  BY DEF Request, TransferRequest, ReceiptRequest, CreditRequest, PaymentRequest

LEMMA CreditShape ==
  ASSUME NEW q \in Request, q # None, q.op = "credit"
  PROVE  q \in CreditRequest
  BY DEF Request, TransferRequest, ReceiptRequest, CreditRequest, PaymentRequest

LEMMA PaymentShape ==
  ASSUME NEW q \in Request, q # None, q.op = "payment"
  PROVE  q \in PaymentRequest
  BY DEF Request, TransferRequest, ReceiptRequest, CreditRequest, PaymentRequest

-----------------------------------------------------------------------------
(* What a step leaves alone.                                               *)

LEMMA StoreKept ==
  ASSUME StoreOK, UNCHANGED store PROVE StoreOK'
  BY DEF StoreOK, store

LEMMA SupplyKept ==
  ASSUME SupplyOK, UNCHANGED supply PROVE SupplyOK' /\ Onward
  <1>1. SupplyOK'
    BY DEF SupplyOK, ReceivedOf, supply
  <1>2. Onward
    BY Constants DEF Onward, SupplyOK, supply, LineRow
  <1> QED BY <1>1, <1>2

LEMMA DebtKept ==
  ASSUME DebtOK, UNCHANGED debts PROVE DebtOK'
  BY DEF DebtOK, debts

LEMMA RequestKept ==
  ASSUME RequestOK, UNCHANGED request \/ \E c \in Clerk : Holds(c, None)
  PROVE  /\ RequestOK'
         /\ \A d \in Clerk : request'[d] # None => request'[d] = request[d]
  <1>1. \A d \in Clerk : request'[d] # None => request'[d] = request[d]
    BY DEF RequestOK, Holds
  <1>2. request' \in [Clerk -> Request]
    BY DEF RequestOK, Holds, Request
  <1> QED BY <1>1, <1>2 DEF RequestOK

LEMMA SeenKept ==
  ASSUME SupplyOK, RequestOK, SeenOK, Onward, SupplyOK',
         \A d \in Clerk : request'[d] # None => request'[d] = request[d]
  PROVE  SeenOK'
  <1> SUFFICES ASSUME NEW c \in Clerk, request'[c] # None, request'[c].op = "receipt", NEW l \in Line
               PROVE  /\ request'[c].seen[l].received <= line'[l].received
                      /\ request'[c].seen[l].received <= request'[c].seen[l].ordered
    BY DEF SeenOK
  <1>1. request'[c] = request[c]
    OBVIOUS
  <1>2. request[c] \in ReceiptRequest
    BY <1>1, ReceiptShape DEF RequestOK
  <1>3. request[c].seen[l].received \in Nat
    BY <1>2 DEF ReceiptRequest, LineRow
  <1>4. line[l].received \in Nat /\ line'[l].received \in Nat
    BY DEF SupplyOK, LineRow
  <1>5. line[l].received <= line'[l].received
    BY DEF Onward
  <1>6. /\ request[c].seen[l].received <= line[l].received
        /\ request[c].seen[l].received <= request[c].seen[l].ordered
    BY <1>1 DEF SeenOK
  <1> QED BY <1>1, <1>3, <1>4, <1>5, <1>6

LEMMA DecisionKept ==
  ASSUME RequestOK, DecisionOK,
         \A d \in Clerk : request'[d] # None => request'[d] = request[d],
         \A n \in Credit : credit[n].status # "none" => credit'[n].status # "none"
  PROVE  DecisionOK'
  <1> SUFFICES ASSUME NEW c \in Clerk, request'[c] # None, request'[c].op = "credit"
               PROVE  credit'[request[c].credit].status # "none"
    BY DEF DecisionOK
  <1>1. request[c].credit \in Credit
    BY CreditShape DEF RequestOK, CreditRequest
  <1> QED BY <1>1 DEF DecisionOK

LEMMA PaymentKept ==
  ASSUME RequestOK, PaymentOK,
         \A d \in Clerk : request'[d] # None => request'[d] = request[d],
         \A i \in Invoice : invoice[i].linked => invoice'[i].linked,
         PaidNoMore
  PROVE  PaymentOK'
  <1> SUFFICES ASSUME NEW c \in Clerk, request'[c] # None, request'[c].op = "payment"
               PROVE  /\ invoice'[request'[c].invoice].linked
                      /\ Paid(request[c].invoice)' <= request'[c].paid
                      /\ \A d \in Clerk : (/\ request'[d] # None /\ request'[d].op = "payment"
                                          /\ request'[d].invoice = request'[c].invoice) => d = c
    BY DEF PaymentOK
  <1>1. request'[c] = request[c]
    OBVIOUS
  <1>2. request[c] \in PaymentRequest
    BY <1>1, PaymentShape DEF RequestOK
  <1>3. request[c].invoice \in Invoice /\ request[c].paid \in Nat
    BY <1>2 DEF PaymentRequest
  <1>4. invoice[request[c].invoice].linked /\ Paid(request[c].invoice) <= request[c].paid
    BY <1>1 DEF PaymentOK
  <1>5. ASSUME NEW i \in Invoice, i = request[c].invoice
        PROVE  Paid(i)' <= request[c].paid
    <2>1. Paying(i)'
      BY <1>1, <1>5 DEF Paying
    <2> QED BY <1>3, <1>4, <1>5, <2>1 DEF PaidNoMore
  <1>6. Paid(request[c].invoice)' <= request'[c].paid
    BY <1>1, <1>3, <1>5 DEF Paid, PaidBy
  <1>7. ASSUME NEW d \in Clerk, request'[d] # None, request'[d].op = "payment",
               request'[d].invoice = request'[c].invoice
        PROVE  d = c
    BY <1>1, <1>7 DEF PaymentOK
  <1> QED BY <1>1, <1>3, <1>4, <1>6, <1>7

LEMMA PaidSame ==
  ASSUME UNCHANGED payments
  PROVE  PaidNoMore
  BY DEF PaidNoMore, Paid, PaidBy

\* A delivery stays delivered.
LEMMA DeliveredOnward ==
  ASSUME SupplyOK, SupplyOK', Onward, NEW d \in Key \X Line, Delivered(d)
  PROVE  Delivered(d)'
  <1>1. <<Of[d[2]], d[1]>> \in Order \X Key /\ d[2] \in Line
    BY Constants
  <1>2. /\ receipt[<<Of[d[2]], d[1]>>][d[2]] \in Nat /\ receipt'[<<Of[d[2]], d[1]>>][d[2]] \in Nat
    BY <1>1 DEF SupplyOK
  <1>3. receipt[<<Of[d[2]], d[1]>>][d[2]] <= receipt'[<<Of[d[2]], d[1]>>][d[2]]
    BY <1>1 DEF Onward
  <1> QED BY <1>2, <1>3 DEF Delivered

LEMMA BillShape ==
  ASSUME NEW b \in Bill \cup {NoBill}, b.delivery # None
  PROVE  /\ b \in Bill /\ b.delivery \in Key \X Line
         /\ b.quantity \in Nat /\ b.quantity > 0 /\ (b.item # None => b.item \in Line)
  <1>1. b \in Bill
    BY DEF NoBill
  <1>2. /\ b.delivery \in (Key \X Line) \cup {None} /\ b.item \in Line \cup {None}
        /\ b.quantity \in Amount
    BY <1>1 DEF Bill
  <1>3. b.quantity \in Nat /\ b.quantity > 0
    BY <1>2, Amounts
  <1> QED BY <1>1, <1>2, <1>3

LEMMA BillsKept ==
  ASSUME SupplyOK, SupplyOK', Onward, DebtOK, BillOK, UNCHANGED invoice
  PROVE  BillOK'
  <1>1. ASSUME NEW i \in Invoice, invoice[i].bill.delivery # None
        PROVE  Delivered(invoice[i].bill.delivery)'
    <2>1. invoice[i].bill \in Bill \cup {NoBill}
      BY DEF DebtOK, InvoiceRow
    <2>2. invoice[i].bill.delivery \in Key \X Line
      BY <1>1, <2>1, BillShape
    <2>3. Delivered(invoice[i].bill.delivery)
      BY <1>1 DEF BillOK
    <2>4. ASSUME NEW d \in Key \X Line, d = invoice[i].bill.delivery
          PROVE  Delivered(d)'
      BY <2>3, <2>4, DeliveredOnward
    <2> QED BY <2>2, <2>4 DEF Delivered
  <1>2. ASSUME NEW i \in Invoice, NEW b, b = invoice[i].bill,
               invoice[i].status \in {"SUBMITTED", "VALIDATED"}, b.kind = "GOODS", ~b.excused
        PROVE  /\ b.delivery # None
               /\ b.item # None => b.quantity <= line'[b.item].received
                                   /\ b.price = line'[b.item].price
    <2>1. b \in Bill \cup {NoBill}
      BY <1>2 DEF DebtOK, InvoiceRow
    <2>2. /\ b.delivery # None
          /\ b.item # None => b.quantity <= line[b.item].received /\ b.price = line[b.item].price
      BY <1>2 DEF BillOK, BilledReceived
    <2>3. ASSUME b.item # None
          PROVE  b.quantity <= line'[b.item].received /\ b.price = line'[b.item].price
      <3>1. b.item \in Line /\ b.quantity \in Nat /\ b.quantity > 0
        BY <2>1, <2>2, <2>3, BillShape
      <3>2. line[b.item].received \in Nat /\ line'[b.item].received \in Nat
        BY <3>1 DEF SupplyOK, LineRow
      <3>3. line[b.item].received # 0
        BY <2>2, <2>3, <3>1, <3>2
      <3>4. order[Of[b.item]] \notin {"none", "draft"}
        BY <3>1, <3>3 DEF SupplyOK
      <3>5. line'[b.item].price = line[b.item].price /\ line[b.item].received <= line'[b.item].received
        BY <3>1, <3>4 DEF Onward
      <3> QED BY <2>2, <2>3, <3>1, <3>2, <3>5
    <2> QED BY <2>2, <2>3
  <1> QED BY <1>1, <1>2 DEF BillOK, BilledReceived

-----------------------------------------------------------------------------
(* Sums.                                                                   *)

\* natural numbers that add up to nothing are nothing
LEMMA NothingLeft ==
  ASSUME NEW f, NEW S, IsFiniteSet(S), \A x \in S : f[x] \in Nat,
         SumFunctionOnSet(f, S) <= 0, NEW e \in S
  PROVE  f[e] = 0
  <1>1. SumFunctionOnSet(f, S) = f[e] + SumFunctionOnSet(f, S \ {e})
    BY SumSplit
  <1>2. IsFiniteSet(S \ {e}) /\ \A x \in S \ {e} : f[x] \in Nat
    BY FS_Subset
  <1>3. SumFunctionOnSet(f, S \ {e}) \in Nat
    BY <1>2, SumNat
  <1> QED BY <1>1, <1>3

-----------------------------------------------------------------------------
(* The kinds of steps.                                                     *)

\* stock rows and orders change, and a clerk may be done
LEMMA StockStep ==
  ASSUME IInv, plan' \in Plan, StoreOK', SupplyOK', Onward, UNCHANGED debts,
         UNCHANGED request \/ \E c \in Clerk : Holds(c, None)
  PROVE  IInv'
  <1>1. /\ RequestOK'
        /\ \A d \in Clerk : request'[d] # None => request'[d] = request[d]
    BY RequestKept DEF IInv
  <1>2. SeenOK'
    BY <1>1, SeenKept DEF IInv
  <1>3. DebtOK'
    BY DebtKept DEF IInv
  <1>4. DecisionOK'
    BY <1>1, DecisionKept DEF IInv, debts
  <1>5. PaymentOK'
    BY <1>1, PaidSame, PaymentKept DEF IInv, debts
  <1>6. BillOK'
    BY BillsKept DEF IInv, debts
  <1> QED BY <1>1, <1>2, <1>3, <1>4, <1>5, <1>6 DEF IInv

\* invoices, credits and payments change, and a clerk may be done
LEMMA DebtStep ==
  ASSUME IInv, plan' \in Plan, UNCHANGED <<store, supply>>, DebtOK', BillOK',
         \A n \in Credit : credit[n].status # "none" => credit'[n].status # "none",
         \A i \in Invoice : invoice[i].linked => invoice'[i].linked,
         PaidNoMore,
         UNCHANGED request \/ \E c \in Clerk : Holds(c, None)
  PROVE  IInv'
  <1>1. /\ RequestOK'
        /\ \A d \in Clerk : request'[d] # None => request'[d] = request[d]
    BY RequestKept DEF IInv
  <1>2. StoreOK' /\ SupplyOK' /\ Onward
    BY StoreKept, SupplyKept DEF IInv
  <1>3. SeenOK'
    BY <1>1, <1>2, SeenKept DEF IInv
  <1>4. DecisionOK'
    BY <1>1, DecisionKept DEF IInv
  <1>5. PaymentOK'
    BY <1>1, PaymentKept DEF IInv
  <1> QED BY <1>1, <1>2, <1>3, <1>4, <1>5 DEF IInv

\* a clerk reads
LEMMA ReadStep ==
  ASSUME IInv, plan' \in Plan, UNCHANGED <<store, supply, debts>>,
         NEW c \in Clerk, NEW q \in Request, Holds(c, q),
         q.op = "receipt" => /\ \A l \in Line : q.items[l] > 0 => Of[l] = q.order
                             /\ q.seen = line,
         q.op = "credit" => credit[q.credit].status # "none",
         q.op = "payment" => /\ invoice[q.invoice].linked /\ ~Paying(q.invoice)
                             /\ q.paid \in Nat /\ Paid(q.invoice) = q.paid
  PROVE  IInv'
  <1>1. request' \in [Clerk -> Request] /\ request'[c] = q
        /\ \A d \in Clerk : d # c => request'[d] = request[d]
    BY DEF IInv, RequestOK, Holds
  <1>2. RequestOK'
    BY <1>1 DEF IInv, RequestOK
  <1>3. SeenOK'
    <2>1. \A l \in Line : line[l].received \in Nat /\ line[l].received <= line[l].ordered
      BY DEF IInv, SupplyOK, LineRow
    <2> SUFFICES ASSUME NEW d \in Clerk, request'[d] # None, request'[d].op = "receipt", NEW l \in Line
                 PROVE  /\ request'[d].seen[l].received <= line[l].received
                        /\ request'[d].seen[l].received <= request'[d].seen[l].ordered
      BY DEF SeenOK, supply
    <2>2. CASE d = c
      BY <1>1, <2>1, <2>2
    <2>3. CASE d # c
      BY <1>1, <2>3 DEF IInv, SeenOK
    <2> QED BY <2>2, <2>3
  <1>4. DecisionOK'
    BY <1>1 DEF IInv, DecisionOK, debts
  <1>5. StoreOK' /\ SupplyOK' /\ Onward /\ DebtOK'
    BY StoreKept, SupplyKept, DebtKept DEF IInv
  <1>6. BillOK'
    BY <1>5, BillsKept DEF IInv, debts
  <1>7. PaymentOK'
    <2>0. UNCHANGED <<invoice, payments>>
      BY DEF debts
    <2>1. ASSUME NEW d \in Clerk, request'[d] # None, request'[d].op = "payment"
          PROVE  /\ invoice[request'[d].invoice].linked
                 /\ Paid(request'[d].invoice) <= request'[d].paid
      <3>1. CASE d = c
        BY <1>1, <2>1, <3>1
      <3>2. CASE d # c
        BY <1>1, <2>1, <3>2 DEF IInv, PaymentOK
      <3> QED BY <3>1, <3>2
    <2>2. ASSUME NEW d \in Clerk, request'[d] # None, request'[d].op = "payment",
                 NEW e \in Clerk, request'[e] # None, request'[e].op = "payment",
                 request'[e].invoice = request'[d].invoice
          PROVE  e = d
      <3>1. CASE d = c \/ e = c
        BY <1>1, <2>2, <3>1 DEF Paying
      <3>2. CASE d # c /\ e # c
        BY <1>1, <2>2, <3>2 DEF IInv, PaymentOK
      <3> QED BY <3>1, <3>2
    <2> QED BY <2>0, <2>1, <2>2 DEF PaymentOK, Paid, PaidBy
  <1> QED BY <1>2, <1>3, <1>4, <1>5, <1>6, <1>7 DEF IInv

-----------------------------------------------------------------------------
(* The stock rows.                                                         *)

LEMMA PutStep ==
  ASSUME StoreOK, NEW r \in Place, NEW n \in Int, Put(r, n), UNCHANGED moved,
         stock[r].reserved <= stock[r].current + n
  PROVE  StoreOK'
  <1>1. stock[r] \in StockRow /\ ledger[r] \in Int
    BY DEF StoreOK
  <1>2. stock[r].current + n \in Nat
    BY <1>1 DEF StockRow
  <1>3. [stock[r] EXCEPT !.current = @ + n] \in StockRow
    BY <1>1, <1>2 DEF StockRow
  <1>4. /\ stock' \in [Place -> StockRow] /\ ledger' \in [Place -> Int]
        /\ \A p \in Place : p # r => stock'[p] = stock[p] /\ ledger'[p] = ledger[p]
        /\ stock'[r].current = stock[r].current + n /\ ledger'[r] = ledger[r] + n
        /\ stock'[r].reserved = stock[r].reserved
    BY <1>1, <1>3 DEF StoreOK, Put, StockRow
  <1>5. rows' \subseteq Place /\ IsFiniteSet(rows')
    BY FS_AddElement DEF StoreOK, Put
  <1> QED BY <1>4, <1>5 DEF StoreOK

\* what is unexplained stays so
LEMMA PutExplained ==
  ASSUME StoreOK, NEW p \in Place, NEW n \in Int, Put(p, n), NEW r \in Place
  PROVE  Unexplained(r)' = Unexplained(r)
  <1>1. stock[p] \in StockRow /\ stock[p].current \in Int /\ ledger[p] \in Int
    BY DEF StoreOK, StockRow
  <1>2. /\ \A x \in Place : x # p => stock'[x] = stock[x] /\ ledger'[x] = ledger[x]
        /\ stock'[p].current = stock[p].current + n /\ ledger'[p] = ledger[p] + n
    BY <1>1 DEF StoreOK, Put, StockRow
  <1> QED BY <1>1, <1>2 DEF Unexplained

LEMMA ChangeStep ==
  ASSUME IInv, NEW p \in Place, NEW n \in Int, Change(p, n),
         UNCHANGED debts
  PROVE  IInv'
  <1>1. PICK r \in Locked(p, n > 0) : stock[r].current + n >= stock[r].reserved /\ Put(r, n)
    BY DEF Change
  <1>2. r \in Place
    <2>1. p \in Agency \X (Location \cup {None})
      BY DEF Place
    <2> QED BY <2>1, LockedRow DEF IInv, StoreOK
  <1>3. stock[r].reserved <= stock[r].current + n
    BY <1>1, <1>2 DEF IInv, StoreOK, StockRow
  <1>4. StoreOK'
    BY <1>1, <1>2, <1>3, PutStep DEF IInv, Change
  <1>5. SupplyOK' /\ Onward
    BY SupplyKept DEF IInv, Change
  <1>6. plan' \in Plan
    BY PlanKept DEF IInv, Change
  <1> QED BY <1>4, <1>5, <1>6, StockStep DEF Change

LEMMA CountStep ==
  ASSUME IInv, NEW p \in Place, NEW n \in Int, InventoryCount(p, n),
         UNCHANGED debts
  PROVE  IInv'
  <1>1. PICK r \in Locked(p, FALSE) : n >= stock[r].reserved /\ Put(r, n - stock[r].current)
    BY DEF InventoryCount
  <1>2. r \in Place
    <2>1. p \in Agency \X (Location \cup {None})
      BY DEF Place
    <2> QED BY <2>1, LockedRow DEF IInv, StoreOK
  <1>3. stock[r].reserved \in Nat /\ stock[r].current \in Nat
    BY <1>2 DEF IInv, StoreOK, StockRow
  <1>4. /\ n - stock[r].current \in Int
        /\ stock[r].reserved <= stock[r].current + (n - stock[r].current)
    BY <1>1, <1>3
  <1>5. StoreOK'
    BY <1>1, <1>2, <1>4, PutStep DEF IInv, InventoryCount
  <1>6. SupplyOK' /\ Onward
    BY SupplyKept DEF IInv, InventoryCount
  <1>7. plan' \in Plan
    BY PlanKept DEF IInv, InventoryCount
  <1> QED BY <1>5, <1>6, <1>7, StockStep DEF InventoryCount

LEMMA RepairStep ==
  ASSUME IInv, NEW r \in Place, NEW promised \in Int, NEW used \in Int,
         Repair(r, promised, used), UNCHANGED debts
  PROVE  IInv'
  <1> DEFINE row == [current |-> stock[r].current - used, reserved |-> stock[r].reserved + promised]
  <1>1. stock[r].current \in Nat /\ stock[r].reserved \in Nat /\ ledger[r] \in Int
    BY DEF IInv, StoreOK, StockRow
  <1>2. /\ row.reserved >= 0 /\ row.current >= row.reserved
        /\ stock' = [stock EXCEPT ![r] = row] /\ ledger' = [ledger EXCEPT ![r] = @ - used]
        /\ UNCHANGED <<rows, moved>>
    BY DEF Repair
  <1>3. row \in StockRow
    BY <1>1, <1>2 DEF StockRow
  <1>4. /\ stock' \in [Place -> StockRow] /\ ledger' \in [Place -> Int]
        /\ \A p \in Place : p # r => stock'[p] = stock[p] /\ ledger'[p] = ledger[p]
        /\ stock'[r] = row /\ ledger'[r] = ledger[r] - used
    BY <1>1, <1>2, <1>3 DEF IInv, StoreOK
  <1>5. StoreOK'
    BY <1>1, <1>2, <1>4 DEF IInv, StoreOK
  <1>6. SupplyOK' /\ Onward
    BY SupplyKept DEF IInv, Repair
  <1>7. plan' \in Plan
    BY PlanKept DEF IInv, Repair
  <1> QED BY <1>5, <1>6, <1>7, StockStep DEF Repair

LEMMA AskTransferStep ==
  ASSUME IInv, NEW c \in Clerk, NEW from \in plan.place, NEW to \in plan.place,
         NEW n \in Amount, NEW k \in Key, AskTransfer(c, from, to, n, k), UNCHANGED debts
  PROVE  IInv'
  <1> DEFINE q == [op |-> "transfer", from |-> from, to |-> to, amount |-> n, key |-> k]
  <1>1. from \in Place /\ to \in Place
    BY DEF IInv, Plan
  <1>2. q \in TransferRequest /\ q \in Request
    BY <1>1 DEF TransferRequest, Request
  <1>3. q.op = "transfer"
    OBVIOUS
  <1>4. plan' \in Plan
    BY PlanKept DEF IInv, AskTransfer
  <1>5. Holds(c, q) /\ UNCHANGED <<store, supply, debts>>
    BY DEF AskTransfer
  <1> HIDE DEF q
  <1> QED BY <1>2, <1>3, <1>4, <1>5, ReadStep

LEMMA RowSet ==
  ASSUME NEW w \in StockRow, NEW m \in Nat
  PROVE  LET v == [w EXCEPT !.current = m] IN
         v \in StockRow /\ v.current = m /\ v.reserved = w.reserved
  BY DEF StockRow

\* a transfer keeps what is unexplained, unless it goes from a row to itself
LEMMA TransferRows ==
  ASSUME IInv, NEW c \in Clerk, Transfer(c)
  PROVE  /\ StoreOK'
         /\ \A r \in Place : Unexplained(r)' # Unexplained(r) =>
               /\ Locked(request[c].from, FALSE) = {r} /\ Locked(request[c].to, TRUE) = {r}
               /\ Unexplained(r)' = Unexplained(r) + request[c].amount
  <1> DEFINE q == request[c]
             n == q.amount
  <1>1. q # None /\ q.op = "transfer" /\ q \in Request
    BY DEF Transfer, IInv, RequestOK
  <1>2. q \in TransferRequest
    BY <1>1, TransferShape
  <1>3. /\ q.from \in Place /\ q.to \in Place /\ q.key \in Key /\ n \in Nat
    BY <1>2, Amounts DEF TransferRequest
  <1>4. PICK s \in Locked(q.from, FALSE), d \in Locked(q.to, TRUE) :
          /\ stock[s].current - n >= stock[s].reserved
          /\ rows' = rows \cup {d}
          /\ stock' = [stock EXCEPT ![s].current = @ - n, ![d].current = stock[d].current + n]
          /\ ledger' = [ledger EXCEPT ![s] = @ - n, ![d] = @ + n]
    BY DEF Transfer
  <1>5. /\ s \in Place /\ d \in Place
        /\ Locked(q.from, FALSE) = {s} /\ Locked(q.to, TRUE) = {d}
    <2>1. q.from \in Agency \X (Location \cup {None}) /\ q.to \in Agency \X (Location \cup {None})
      BY <1>3 DEF Place
    <2> HIDE DEF q
    <2> QED BY <1>4, <2>1, LockedRow, LockedOne DEF IInv, StoreOK
  <1>6. /\ stock \in [Place -> StockRow] /\ ledger \in [Place -> Int] /\ moved \in [Key -> Nat]
        /\ stock[s].current \in Nat /\ stock[s].reserved \in Nat
        /\ stock[d].current \in Nat /\ stock[d].reserved \in Nat
        /\ stock[d].reserved <= stock[d].current
        /\ ledger[s] \in Int /\ ledger[d] \in Int
    BY <1>5 DEF IInv, StoreOK, StockRow
  <1> HIDE DEF q, n
  <1>7. moved' \in [Key -> Nat]
    BY <1>3, <1>6 DEF Transfer, q
  <1>a. rows' \subseteq Place /\ IsFiniteSet(rows')
    BY <1>4, <1>5, FS_AddElement DEF IInv, StoreOK
  <1>8. ASSUME s = d
        PROVE  /\ StoreOK'
               /\ \A r \in Place : r # d => Unexplained(r)' = Unexplained(r)
               /\ Unexplained(d)' = Unexplained(d) + n
    <2> DEFINE out == [stock[d] EXCEPT !.current = stock[d].current - n]
               in == [out EXCEPT !.current = stock[d].current + n]
    <2>1. in \in StockRow /\ in.current = stock[d].current + n /\ in.reserved = stock[d].reserved
      <3>1. stock[d] \in StockRow /\ stock[d].current - n \in Nat /\ stock[d].current + n \in Nat
        BY <1>3, <1>4, <1>5, <1>6, <1>8
      <3>2. out \in StockRow /\ out.reserved = stock[d].reserved
        BY <3>1, RowSet
      <3> HIDE DEF out
      <3> QED BY <3>1, <3>2, RowSet
    <2>2. /\ stock' = [stock EXCEPT ![d] = in]
          /\ ledger' \in [Place -> Int] /\ \A p \in Place : ledger'[p] = ledger[p]
      <3>1. stock' = [stock EXCEPT ![d].current = @ - n, ![d].current = stock[d].current + n]
        BY <1>4, <1>8
      <3>2. stock' = [stock EXCEPT ![d] = in]
        BY <1>5, <1>6, <3>1
      <3>3. ledger' = [ledger EXCEPT ![s] = @ - n, ![d] = @ + n]
        BY <1>4
      <3>4. ledger' \in [Place -> Int] /\ \A p \in Place : ledger'[p] = ledger[p]
        BY <1>3, <1>5, <1>6, <1>8, <3>3
      <3> QED BY <3>2, <3>4
    <2> HIDE DEF in, out
    <2>3. stock' \in [Place -> StockRow]
      BY <1>6, <2>1, <2>2
    <2>4. \A p \in Place : stock'[p].reserved <= stock'[p].current
      <3> TAKE p \in Place
      <3>1. CASE p = d
        BY <1>3, <1>6, <2>1, <2>2, <3>1
      <3>2. CASE p # d
        BY <1>6, <2>2, <3>2 DEF IInv, StoreOK
      <3> QED BY <3>1, <3>2
    <2>5. StoreOK'
      BY <1>7, <1>a, <2>2, <2>3, <2>4 DEF StoreOK
    <2>6. \A r \in Place : r # d => Unexplained(r)' = Unexplained(r)
      BY <1>6, <2>2 DEF Unexplained
    <2>7. stock'[d].current = stock[d].current + n /\ ledger'[d] = ledger[d]
      BY <1>5, <1>6, <2>1, <2>2
    <2>8. Unexplained(d)' = Unexplained(d) + n
      BY <1>3, <1>6, <2>7 DEF Unexplained
    <2> QED BY <2>5, <2>6, <2>8
  <1>9. ASSUME s # d PROVE StoreOK' /\ \A r \in Place : Unexplained(r)' = Unexplained(r)
    <2> DEFINE out == [stock[s] EXCEPT !.current = stock[s].current - n]
               in == [stock[d] EXCEPT !.current = stock[d].current + n]
    <2>1. /\ in \in StockRow /\ in.current = stock[d].current + n /\ in.reserved = stock[d].reserved
          /\ out \in StockRow /\ out.current = stock[s].current - n
          /\ out.reserved = stock[s].reserved
      <3>1. /\ stock[d] \in StockRow /\ stock[s] \in StockRow
            /\ stock[s].current - n \in Nat /\ stock[d].current + n \in Nat
        BY <1>3, <1>4, <1>5, <1>6
      <3> QED BY <3>1, RowSet
    <2>2. /\ stock' = [stock EXCEPT ![s] = out, ![d] = in]
          /\ ledger' \in [Place -> Int] /\ ledger'[s] = ledger[s] - n /\ ledger'[d] = ledger[d] + n
          /\ \A p \in Place : p # d /\ p # s => ledger'[p] = ledger[p]
      <3>1. stock' = [stock EXCEPT ![s].current = @ - n, ![d].current = stock[d].current + n]
        BY <1>4
      <3>2. stock' = [stock EXCEPT ![s] = out, ![d] = in]
        BY <1>5, <1>6, <1>9, <3>1
      <3>3. ledger' = [ledger EXCEPT ![s] = @ - n, ![d] = @ + n]
        BY <1>4
      <3>4. /\ ledger' \in [Place -> Int] /\ ledger'[s] = ledger[s] - n /\ ledger'[d] = ledger[d] + n
            /\ \A p \in Place : p # d /\ p # s => ledger'[p] = ledger[p]
        BY <1>3, <1>5, <1>6, <1>9, <3>3
      <3> QED BY <3>2, <3>4
    <2> HIDE DEF in, out
    <2>3. /\ stock' \in [Place -> StockRow] /\ stock'[d] = in /\ stock'[s] = out
          /\ \A p \in Place : p # d /\ p # s => stock'[p] = stock[p]
      BY <1>5, <1>6, <1>9, <2>1, <2>2
    <2>4. \A p \in Place : stock'[p].reserved <= stock'[p].current
      <3> TAKE p \in Place
      <3>1. CASE p = d
        BY <1>3, <1>6, <2>1, <2>3, <3>1
      <3>2. CASE p = s
        BY <1>4, <1>6, <2>1, <2>3, <3>2
      <3>3. CASE p # d /\ p # s
        BY <2>3, <3>3 DEF IInv, StoreOK
      <3> QED BY <3>1, <3>2, <3>3
    <2>5. StoreOK'
      BY <1>7, <1>a, <2>2, <2>3, <2>4 DEF StoreOK
    <2>6. ASSUME NEW r \in Place PROVE Unexplained(r)' = Unexplained(r)
      <3>1. CASE r = d
        <4>1. stock'[r].current = stock[r].current + n /\ ledger'[r] = ledger[r] + n
          BY <2>1, <2>2, <2>3, <3>1
        <4> QED BY <1>3, <1>6, <3>1, <4>1 DEF Unexplained
      <3>2. CASE r = s
        <4>1. stock'[r].current = stock[r].current - n /\ ledger'[r] = ledger[r] - n
          BY <2>1, <2>2, <2>3, <3>2
        <4> QED BY <1>3, <1>6, <3>2, <4>1 DEF Unexplained
      <3>3. CASE r # d /\ r # s
        BY <2>2, <2>3, <3>3 DEF Unexplained
      <3> QED BY <3>1, <3>2, <3>3
    <2> QED BY <2>5, <2>6
  <1> QED
    <2>1. StoreOK'
      BY <1>8, <1>9
    <2>2. ASSUME NEW r \in Place, Unexplained(r)' # Unexplained(r)
          PROVE  /\ Locked(q.from, FALSE) = {r} /\ Locked(q.to, TRUE) = {r}
                 /\ Unexplained(r)' = Unexplained(r) + n
      <3>1. s = d
        BY <1>9, <2>2
      <3>2. r = d
        BY <1>8, <2>2, <3>1
      <3> QED BY <1>5, <1>8, <3>1, <3>2
    <2> QED BY <2>1, <2>2 DEF q, n

LEMMA TransferStep ==
  ASSUME IInv, NEW c \in Clerk, Transfer(c), UNCHANGED debts
  PROVE  IInv'
  <1>1. StoreOK'
    BY TransferRows
  <1>2. SupplyOK' /\ Onward
    BY SupplyKept DEF IInv, Transfer
  <1>3. plan' \in Plan /\ Holds(c, None)
    BY DEF IInv, Transfer
  <1> QED BY <1>1, <1>2, <1>3, StockStep

-----------------------------------------------------------------------------
(* The orders.                                                             *)

\* Only the lines of an order not yet sent change, and nothing is received.
LEMMA OrderMoves ==
  ASSUME SupplyOK, UNCHANGED receipt,
         order' \in [Order -> Status], line' \in [Line -> LineRow],
         \A l \in Line : line'[l].received = line[l].received,
         \A l \in Line : order[Of[l]] \notin {"none", "draft"} => line'[l] = line[l],
         \A o \in Order : order[o] \notin {"none", "draft"} => order'[o] \notin {"none", "draft"}
  PROVE  SupplyOK' /\ Onward
  <1>1. \A l \in Line : Of[l] \in Order
    BY Constants
  <1>2. \A l \in Line : ReceivedOf(l)' = ReceivedOf(l)
    BY DEF ReceivedOf
  <1>3. \A l \in Line : /\ line[l].received \in Nat /\ line[l].ordered \in Nat
                        /\ line'[l].received \in Nat /\ line'[l].ordered \in Nat
    BY DEF SupplyOK, LineRow
  <1>4. SupplyOK'
    <2>1. ASSUME NEW l \in Line
          PROVE  /\ line'[l].received = ReceivedOf(l)'
                 /\ line'[l].received <= line'[l].ordered
                 /\ order'[Of[l]] \in {"none", "draft"} => line'[l].received = 0
      <3>1. CASE order[Of[l]] \in {"none", "draft"}
        BY <1>1, <1>2, <1>3, <3>1 DEF SupplyOK
      <3>2. CASE order[Of[l]] \notin {"none", "draft"}
        BY <1>1, <1>2, <1>3, <3>2 DEF SupplyOK
      <3> QED BY <3>1, <3>2
    <2> QED BY <2>1 DEF SupplyOK
  <1>5. Onward
    <2>1. \A t \in Order \X Key, l \in Line : receipt[t][l] <= receipt'[t][l]
      BY DEF SupplyOK
    <2> QED BY <1>3, <2>1 DEF Onward
  <1> QED BY <1>4, <1>5

LEMMA CreateOrderStep ==
  ASSUME IInv, NEW o \in Order, NEW lines \in SUBSET LinesOf(o), NEW wanted \in [lines -> Amount],
         NEW price \in Amount, CreateOrder(o, wanted, price), UNCHANGED debts
  PROVE  IInv'
  <1>1. /\ order \in [Order -> Status] /\ line \in [Line -> LineRow] /\ Amount \subseteq Nat
        /\ \A l \in Line : order[Of[l]] \in {"none", "draft"} => line[l].received = 0
    BY Constants DEF IInv, SupplyOK
  <1>2. order[o] = "none" /\ order' = [order EXCEPT ![o] = "draft"]
    BY DEF CreateOrder
  <1>3. \A l \in Line : line'[l] = IF l \in lines
            THEN [ordered |-> wanted[l], received |-> 0, price |-> price] ELSE line[l]
    BY DEF CreateOrder
  <1>4. \A l \in lines : Of[l] = o /\ wanted[l] \in Nat
    BY <1>1 DEF LinesOf
  <1>5. line' \in [Line -> LineRow]
    <2> DEFINE row(l) == IF l \in DOMAIN wanted
                         THEN [ordered |-> wanted[l], received |-> 0, price |-> price] ELSE line[l]
    <2>1. ASSUME NEW l \in Line PROVE row(l) \in LineRow
      <3>1. CASE l \in lines
        <4>1. wanted[l] \in Nat /\ price \in Nat /\ l \in DOMAIN wanted
          BY <1>1, <1>4, <3>1
        <4> QED BY <4>1 DEF LineRow
      <3>2. CASE l \notin lines
        BY <1>1, <3>2
      <3> QED BY <3>1, <3>2
    <2>2. line' = [l \in Line |-> row(l)]
      BY DEF CreateOrder
    <2> HIDE DEF row
    <2> QED BY <2>1, <2>2
  <1>6. ASSUME NEW l \in Line PROVE line'[l].received = line[l].received
    <2>1. CASE l \in lines
      <3>1. order[Of[l]] = "none"
        BY <1>2, <1>4, <2>1
      <3>2. line[l].received = 0
        BY <1>1, <3>1
      <3>3. line'[l] = [ordered |-> wanted[l], received |-> 0, price |-> price]
        BY <1>3, <2>1
      <3> QED BY <3>2, <3>3
    <2>2. CASE l \notin lines
      BY <1>3, <2>2
    <2> QED BY <2>1, <2>2
  <1>7. \A l \in Line : order[Of[l]] \notin {"none", "draft"} => line'[l] = line[l]
    BY <1>2, <1>3, <1>4
  <1>8. order' \in [Order -> Status]
    BY <1>1, <1>2 DEF Status
  <1>9. SupplyOK' /\ Onward
    BY <1>1, <1>2, <1>5, <1>6, <1>7, <1>8, OrderMoves DEF IInv, CreateOrder
  <1>10. StoreOK' /\ plan' \in Plan
    BY StoreKept, PlanKept DEF IInv, CreateOrder
  <1> QED BY <1>9, <1>10, StockStep DEF CreateOrder

LEMMA SetItemStep ==
  ASSUME IInv, NEW l \in Line, NEW n \in Amount, NEW price \in Amount, SetItem(l, n, price),
         UNCHANGED debts
  PROVE  IInv'
  <1>1. /\ line \in [Line -> LineRow] /\ order \in [Order -> Status] /\ n \in Nat /\ price \in Nat
    BY Constants DEF IInv, SupplyOK
  <1>2. order[Of[l]] = "draft" /\ line' = [line EXCEPT ![l].ordered = n, ![l].price = price]
        /\ UNCHANGED <<order, receipt>>
    BY DEF SetItem
  <1>3. line' \in [Line -> LineRow]
    BY <1>1, <1>2 DEF LineRow
  <1>4. \A k \in Line : /\ line'[k].received = line[k].received
                        /\ k # l => line'[k] = line[k]
    BY <1>1, <1>2 DEF LineRow
  <1>5. SupplyOK' /\ Onward
    BY <1>1, <1>2, <1>3, <1>4, OrderMoves DEF IInv
  <1>6. StoreOK' /\ plan' \in Plan
    BY StoreKept, PlanKept DEF IInv, SetItem
  <1> QED BY <1>5, <1>6, StockStep DEF SetItem

LEMMA AdvanceStep ==
  ASSUME IInv, NEW o \in Order, Advance(o), UNCHANGED debts
  PROVE  IInv'
  <1>1. line \in [Line -> LineRow] /\ order \in [Order -> Status]
    BY DEF IInv, SupplyOK
  <1>2. UNCHANGED <<line, receipt>>
    BY DEF Advance
  <1>3. \A p \in Order : order[p] \notin {"none", "draft"} => order'[p] \notin {"none", "draft"}
    BY <1>1 DEF Advance
  <1>4. order' \in [Order -> Status]
    BY <1>1 DEF Advance, Status
  <1>5. SupplyOK' /\ Onward
    BY <1>1, <1>2, <1>3, <1>4, OrderMoves DEF IInv
  <1>6. StoreOK' /\ plan' \in Plan
    BY StoreKept DEF IInv, Advance
  <1> QED BY <1>5, <1>6, StockStep DEF Advance

LEMMA CancelOrderStep ==
  ASSUME IInv, NEW o \in Order, CancelOrder(o), UNCHANGED debts
  PROVE  IInv'
  <1>1. line \in [Line -> LineRow] /\ order \in [Order -> Status]
    BY DEF IInv, SupplyOK
  <1>2. UNCHANGED <<line, receipt>> /\ order' = [order EXCEPT ![o] = "cancelled"]
    BY DEF CancelOrder
  <1>3. \A p \in Order : order[p] \notin {"none", "draft"} => order'[p] \notin {"none", "draft"}
    BY <1>1, <1>2
  <1>4. order' \in [Order -> Status]
    BY <1>1, <1>2 DEF Status
  <1>5. SupplyOK' /\ Onward
    BY <1>1, <1>2, <1>3, <1>4, OrderMoves DEF IInv
  <1>6. StoreOK' /\ plan' \in Plan
    BY StoreKept, PlanKept DEF IInv, CancelOrder
  <1> QED BY <1>5, <1>6, StockStep DEF CancelOrder

LEMMA AskReceiptStep ==
  ASSUME IInv, NEW c \in Clerk, NEW o \in Order, NEW k \in Key, NEW p \in plan.place,
         NEW items \in Delivery(o), AskReceipt(c, o, k, items, p[2]), UNCHANGED debts
  PROVE  IInv'
  <1> DEFINE q == [op |-> "receipt", order |-> o, key |-> k, items |-> items, place |-> p[2],
                   seen |-> line]
  <1>1. p[2] \in Location \cup {None}
    BY DEF IInv, Plan, Place
  <1>2. items \in [Line -> Nat] /\ \A l \in Line : items[l] > 0 => Of[l] = o
    <2>1. items \in [Line -> Amount \cup {0}] /\ \A l \in Line : items[l] > 0 => Of[l] = o
      BY DEF Delivery
    <2>2. Amount \cup {0} \subseteq Nat
      BY Constants
    <2> QED BY <2>1, <2>2
  <1>3. line \in [Line -> LineRow]
    BY DEF IInv, SupplyOK
  <1>4. q \in ReceiptRequest /\ q \in Request
    BY <1>1, <1>2, <1>3 DEF ReceiptRequest, Request
  <1>5. q.op = "receipt" /\ q.order = o /\ q.items = items /\ q.seen = line
    OBVIOUS
  <1>6. plan' \in Plan
    BY PlanKept DEF IInv, AskReceipt
  <1>7. Holds(c, q) /\ UNCHANGED <<store, supply, debts>>
    BY DEF AskReceipt
  <1> HIDE DEF q
  <1> QED BY <1>2, <1>4, <1>5, <1>6, <1>7, ReadStep

LEMMA ReceiveStep ==
  ASSUME IInv, NEW c \in Clerk, Receive(c), UNCHANGED debts
  PROVE  IInv'
  <1> DEFINE q == request[c]
             n == SumFunctionOnSet(q.items, LinesOf(q.order))
  <1>1. q # None /\ q.op = "receipt" /\ q \in Request
    BY DEF Receive, IInv, RequestOK
  <1>2. q \in ReceiptRequest
    BY <1>1, ReceiptShape
  <1>3. /\ q.order \in Order /\ q.key \in Key /\ q.items \in [Line -> Nat]
        /\ q.place \in Location \cup {None} /\ q.seen \in [Line -> LineRow]
    BY <1>2 DEF ReceiptRequest
  <1>4. \A l \in Line : q.items[l] > 0 => Of[l] = q.order
    BY <1>1 DEF IInv, RequestOK
  <1>5. /\ order[q.order] \in Receivable
        /\ receipt[<<q.order, q.key>>] = NoItems
        /\ \A l \in Line : q.items[l] <= Left(l)
        /\ \E r \in Locked(<<Buyer[q.order], q.place>>, TRUE) : Put(r, n)
        /\ line' = [l \in Line |-> [line[l] EXCEPT !.received = @ + q.items[l]]]
        /\ receipt' = [receipt EXCEPT ![<<q.order, q.key>>] = q.items]
        /\ order' = [order EXCEPT ![q.order] =
                        IF StillPending(q) <= 0 THEN "received" ELSE "partially_received"]
        /\ Holds(c, None) /\ UNCHANGED <<moved, plan>>
    BY DEF Receive
  <1> HIDE DEF q
  <1>6. IsFiniteSet(LinesOf(q.order)) /\ LinesOf(q.order) \subseteq Line
    BY Constants, FS_Subset DEF LinesOf
  <1>7. StoreOK'
    <2>1. n \in Nat
      BY <1>3, <1>6, SumNat
    <2> HIDE DEF n
    <2>2. PICK r \in Locked(<<Buyer[q.order], q.place>>, TRUE) : Put(r, n)
      BY <1>5
    <2>3. <<Buyer[q.order], q.place>> \in Agency \X (Location \cup {None})
      BY <1>3, Constants
    <2>4. r \in Place
      BY <2>2, <2>3, LockedRow DEF IInv, StoreOK
    <2>5. stock[r].reserved <= stock[r].current + n
      BY <2>1, <2>4 DEF IInv, StoreOK, StockRow
    <2> QED BY <1>5, <2>1, <2>2, <2>4, <2>5, PutStep DEF IInv
  <1> HIDE DEF n
  <1>8. /\ order \in [Order -> Status] /\ line \in [Line -> LineRow]
        /\ receipt \in [Order \X Key -> [Line -> Nat]]
        /\ \A l \in Line : Of[l] \in Order
    BY Constants DEF IInv, SupplyOK
  <1>9. \A l \in Line : /\ line[l].received \in Nat /\ line[l].ordered \in Nat /\ q.items[l] \in Nat
                         /\ line'[l].received = line[l].received + q.items[l]
                         /\ line'[l].ordered = line[l].ordered
                         /\ line'[l].price = line[l].price
                         /\ line'[l].received <= line'[l].ordered
    BY <1>3, <1>5, <1>8 DEF LineRow, Left
  <1>10. /\ order' \in [Order -> Status] /\ line' \in [Line -> LineRow]
         /\ receipt' \in [Order \X Key -> [Line -> Nat]]
    <2>1. \A l \in Line : [line[l] EXCEPT !.received = @ + q.items[l]] \in LineRow
      BY <1>8, <1>9 DEF LineRow
    <2>2. line' \in [Line -> LineRow]
      BY <1>5, <2>1
    <2>3. receipt' \in [Order \X Key -> [Line -> Nat]]
      BY <1>3, <1>5, <1>8
    <2> QED BY <1>3, <1>5, <1>8, <2>2, <2>3 DEF Status
  <1>11. ASSUME NEW l \in Line PROVE line'[l].received = ReceivedOf(l)'
    <2> DEFINE f == [k \in Key |-> receipt[<<Of[l], k>>][l]]
               g == [k \in Key |-> receipt'[<<Of[l], k>>][l]]
    <2>1. /\ ReceivedOf(l) = SumFunctionOnSet(f, Key) /\ ReceivedOf(l)' = SumFunctionOnSet(g, Key)
          /\ line[l].received = SumFunctionOnSet(f, Key)
      BY DEF ReceivedOf, IInv, SupplyOK
    <2>2. \A k \in Key : f[k] \in Int /\ g[k] \in Int
      <3>1. \A k \in Key : <<Of[l], k>> \in Order \X Key
        BY <1>8
      <3> QED BY <1>8, <1>10, <3>1
    <2>3. CASE Of[l] = q.order
      <3>1. \A k \in Key : k # q.key => g[k] = f[k]
        BY <1>3, <1>5, <1>8, <2>3
      <3>2. f[q.key] = 0 /\ g[q.key] = q.items[l]
        BY <1>3, <1>5, <1>8, <2>3 DEF NoItems
      <3> HIDE DEF f, g
      <3>3. SumFunctionOnSet(g, Key) = SumFunctionOnSet(f, Key) + (g[q.key] - f[q.key])
        BY <1>3, <2>2, <3>1, SumUpdate, Constants
      <3> QED BY <1>9, <2>1, <3>2, <3>3
    <2>4. CASE Of[l] # q.order
      <3>1. \A k \in Key : g[k] = f[k]
        BY <1>3, <1>5, <1>8, <2>4
      <3>2. q.items[l] = 0
        BY <1>3, <1>4, <2>4
      <3> HIDE DEF f, g
      <3>3. SumFunctionOnSet(g, Key) = SumFunctionOnSet(f, Key)
        BY <3>1, SumSame, Constants
      <3> QED BY <1>9, <2>1, <3>2, <3>3
    <2> QED BY <2>3, <2>4
  <1>12. \A o \in Order : o # q.order => order'[o] = order[o]
    BY <1>5, <1>8
  <1>13. order'[q.order] \in {"received", "partially_received"}
    BY <1>3, <1>5, <1>8
  <1>14. ASSUME NEW l \in Line, order'[Of[l]] \in {"none", "draft"}
         PROVE  line'[l].received = 0
    <2>1. Of[l] # q.order /\ order[Of[l]] \in {"none", "draft"}
      BY <1>8, <1>12, <1>13, <1>14
    <2>2. q.items[l] = 0
      BY <1>3, <1>4, <2>1
    <2> QED BY <1>9, <2>1, <2>2 DEF IInv, SupplyOK
  <1>15. SupplyOK'
    BY <1>9, <1>10, <1>11, <1>14 DEF SupplyOK
  <1>16. Onward
    <2>1. \A o \in Order : order[o] \notin {"none", "draft"} => order'[o] \notin {"none", "draft"}
      BY <1>12, <1>13
    <2>2. ASSUME NEW t \in Order \X Key, NEW l \in Line PROVE receipt[t][l] <= receipt'[t][l]
      <3>1. CASE t = <<q.order, q.key>>
        BY <1>3, <1>5, <1>8, <3>1 DEF NoItems
      <3>2. CASE t # <<q.order, q.key>>
        BY <1>5, <1>8, <3>2
      <3> QED BY <3>1, <3>2
    <2> QED BY <1>9, <2>1, <2>2 DEF Onward
  <1> QED BY <1>5, <1>7, <1>15, <1>16, StockStep DEF IInv

LEMMA RefusedStep ==
  ASSUME IInv, NEW c \in Clerk, Refused(c), UNCHANGED debts
  PROVE  IInv'
  BY StoreKept, SupplyKept, StockStep DEF IInv, Refused

-----------------------------------------------------------------------------
(* The invoices.                                                           *)

\* One invoice changes that has no debt yet, or keeps its own.
LEMMA InvoiceMoves ==
  ASSUME DebtOK, BillOK, UNCHANGED <<store, supply, credit, payments>>,
         NEW i \in Invoice, NEW v \in InvoiceRow, invoice' = [invoice EXCEPT ![i] = v],
         v.linked => v.status = "VALIDATED",
         invoice[i].status = "VALIDATED" => v.status = "VALIDATED" /\ (invoice[i].linked => v.linked),
         v.bill.delivery # None => Delivered(v.bill.delivery),
         (v.status \in {"SUBMITTED", "VALIDATED"} /\ v.bill.kind = "GOODS" /\ ~v.bill.excused) =>
             /\ v.bill.delivery # None
             /\ v.bill.item # None => /\ v.bill.quantity <= line[v.bill.item].received
                                      /\ v.bill.price = line[v.bill.item].price
  PROVE  DebtOK' /\ BillOK' /\ \A j \in Invoice : invoice[j].linked => invoice'[j].linked
  <1>1. /\ invoice' \in [Invoice -> InvoiceRow] /\ invoice'[i] = v
        /\ \A j \in Invoice : j # i => invoice'[j] = invoice[j]
    BY DEF DebtOK
  <1>2. /\ \A j \in Invoice : invoice[j].status = "VALIDATED" => invoice'[j].status = "VALIDATED"
        /\ \A j \in Invoice : invoice[j].linked => invoice'[j].linked
    <2>1. invoice[i].linked => invoice[i].status = "VALIDATED"
      BY DEF DebtOK
    <2> QED BY <1>1, <2>1
  <1>3. DebtOK'
    <2>1. \A j \in Invoice : invoice'[j].linked => invoice'[j].status = "VALIDATED"
      BY <1>1 DEF DebtOK
    <2>2. \A p \in DOMAIN payments : payments[p].invoice \in Invoice
      <3>1. payments \in Seq(PaymentRow)
        BY DEF DebtOK
      <3>2. DOMAIN payments = 1..Len(payments)
        BY <3>1, LenProperties
      <3>3. \A p \in DOMAIN payments : payments[p] \in PaymentRow
        BY <3>1, <3>2, ElementOfSeq
      <3> QED BY <3>3 DEF PaymentRow
    <2> QED BY <1>1, <1>2, <2>1, <2>2 DEF DebtOK
  <1>4. ASSUME NEW d PROVE Delivered(d)' = Delivered(d)
    BY DEF Delivered, supply
  <1>5. \A j \in Invoice : invoice'[j].bill.delivery # None => Delivered(invoice'[j].bill.delivery)
    BY <1>1 DEF BillOK
  <1>6. UNCHANGED <<line, receipt>>
    BY DEF supply
  <1>7. ASSUME NEW j \in Invoice, NEW b, b = invoice'[j].bill,
               invoice'[j].status \in {"SUBMITTED", "VALIDATED"}, b.kind = "GOODS", ~b.excused
        PROVE  /\ b.delivery # None
               /\ b.item # None => b.quantity <= line'[b.item].received
                                   /\ b.price = line'[b.item].price
    <2>1. CASE j = i
      BY <1>1, <1>6, <1>7, <2>1
    <2>2. CASE j # i
      BY <1>1, <1>6, <1>7, <2>2 DEF BillOK, BilledReceived
    <2> QED BY <2>1, <2>2
  <1>8. BillOK'
    BY <1>5, <1>6, <1>7 DEF BillOK, BilledReceived, Delivered
  <1> QED BY <1>2, <1>3, <1>8

LEMMA InvoiceStep ==
  ASSUME IInv, plan' \in Plan, UNCHANGED <<store, supply, request, credit, payments>>,
         NEW i \in Invoice, NEW v \in InvoiceRow, invoice' = [invoice EXCEPT ![i] = v],
         v.linked => v.status = "VALIDATED",
         invoice[i].status = "VALIDATED" => v.status = "VALIDATED" /\ (invoice[i].linked => v.linked),
         v.bill.delivery # None => Delivered(v.bill.delivery),
         (v.status \in {"SUBMITTED", "VALIDATED"} /\ v.bill.kind = "GOODS" /\ ~v.bill.excused) =>
             /\ v.bill.delivery # None
             /\ v.bill.item # None => /\ v.bill.quantity <= line[v.bill.item].received
                                      /\ v.bill.price = line[v.bill.item].price
  PROVE  IInv'
  <1>1. DebtOK' /\ BillOK' /\ \A j \in Invoice : invoice[j].linked => invoice'[j].linked
    BY InvoiceMoves DEF IInv
  <1>2. PaidNoMore
    BY PaidSame
  <1> QED BY <1>1, <1>2, DebtStep

LEMMA CreateInvoiceStep ==
  ASSUME IInv, NEW c \in Clerk, NEW i \in Invoice, NEW b \in Bills, CreateInvoice(c, i, b)
  PROVE  IInv'
  <1> DEFINE v == [status |-> "DRAFT", by |-> c, bill |-> b, linked |-> FALSE]
  <1>1. v \in InvoiceRow
    BY Constants DEF InvoiceRow
  <1>2. /\ v.status = "DRAFT" /\ v.linked = FALSE /\ v.bill = b
        /\ (b.delivery # None => Delivered(b.delivery))
        /\ invoice[i].status = "none" /\ invoice' = [invoice EXCEPT ![i] = v]
        /\ UNCHANGED <<store, supply, request, credit, payments>>
    BY DEF CreateInvoice, LinksExist
  <1>3. plan' \in Plan
    BY PlanKept DEF IInv, CreateInvoice
  <1> HIDE DEF v
  <1> QED BY <1>1, <1>2, <1>3, InvoiceStep

LEMMA EditInvoiceStep ==
  ASSUME IInv, NEW i \in Invoice, NEW b \in Bills, EditInvoice(i, b)
  PROVE  IInv'
  <1> DEFINE v == [invoice[i] EXCEPT !.bill = b, !.status = "DRAFT"]
  <1>1. invoice[i] \in InvoiceRow /\ invoice[i].status \in {"DRAFT", "REJECTED"}
        /\ ~invoice[i].linked /\ invoice \in [Invoice -> InvoiceRow]
    BY DEF IInv, DebtOK, EditInvoice, Editable
  <1>2. v \in InvoiceRow /\ v.status = "DRAFT" /\ v.linked = invoice[i].linked /\ v.bill = b
    BY <1>1, Constants DEF InvoiceRow
  <1>3. /\ (b.delivery # None => Delivered(b.delivery))
        /\ invoice' = [invoice EXCEPT ![i] = v]
        /\ UNCHANGED <<store, supply, request, credit, payments>>
    BY <1>1 DEF EditInvoice, LinksExist, InvoiceRow
  <1>4. plan' \in Plan
    BY PlanKept DEF IInv, EditInvoice
  <1> HIDE DEF v
  <1> QED BY <1>1, <1>2, <1>3, <1>4, InvoiceStep

\* the status moves, and the bill is compared when it is submitted
LEMMA StatusStep ==
  ASSUME IInv, NEW i \in Invoice,
         NEW status \in {"SUBMITTED", "VALIDATED", "REJECTED", "CANCELLED"}, Becomes(i, status),
         invoice[i].status \notin {"none", "VALIDATED"},
         status = "VALIDATED" => invoice[i].status = "SUBMITTED",
         status = "SUBMITTED" /\ Issues(invoice[i].bill) =>
             invoice[i].bill.excused \/ invoice[i].bill.kind = "SERVICE"
  PROVE  IInv'
  <1> DEFINE v == [invoice[i] EXCEPT !.status = status]
             b == invoice[i].bill
  <1>1. invoice[i] \in InvoiceRow /\ ~invoice[i].linked /\ invoice \in [Invoice -> InvoiceRow]
    BY DEF IInv, DebtOK
  <1>2. v \in InvoiceRow /\ v.status = status /\ v.linked = invoice[i].linked /\ v.bill = b
    BY <1>1 DEF InvoiceRow
  <1>3. /\ (b.delivery # None => Delivered(b.delivery))
        /\ invoice' = [invoice EXCEPT ![i] = v] /\ plan' \in Plan
        /\ UNCHANGED <<store, supply, request, credit, payments>>
    BY <1>1 DEF Becomes, IInv, BillOK, InvoiceRow
  <1>4. ASSUME status \in {"SUBMITTED", "VALIDATED"}, b.kind = "GOODS", ~b.excused
        PROVE  /\ b.delivery # None
               /\ b.item # None => b.quantity <= line[b.item].received /\ b.price = line[b.item].price
    <2>1. CASE status = "VALIDATED"
      BY <1>4, <2>1 DEF IInv, BillOK, BilledReceived
    <2>2. CASE status = "SUBMITTED"
      <3>1. ~Issues(b)
        BY <1>4, <2>2
      <3>2. b.delivery # None
        BY <3>1 DEF Issues
      <3>3. ASSUME b.item # None
            PROVE  b.quantity <= line[b.item].received /\ b.price = line[b.item].price
        <4>1. b \in Bill \cup {NoBill}
          BY <1>1 DEF InvoiceRow
        <4>2. b.item \in Line /\ b.quantity \in Nat
          BY <3>2, <3>3, <4>1, BillShape
        <4>3. line[b.item].received \in Nat
          BY <4>2 DEF IInv, SupplyOK, LineRow
        <4> QED BY <3>1, <3>3, <4>2, <4>3 DEF Issues
      <3> QED BY <3>2, <3>3
    <2> QED BY <1>4, <2>1, <2>2
  <1> HIDE DEF v, b
  <1> QED BY <1>1, <1>2, <1>3, <1>4, InvoiceStep

LEMMA SubmitStep ==
  ASSUME IInv, NEW i \in Invoice, Submit(i) PROVE IInv'
  BY StatusStep DEF Submit, Editable

LEMMA ValidateStep ==
  ASSUME IInv, NEW c \in Clerk, NEW i \in Invoice, Validate(c, i) PROVE IInv'
  BY StatusStep DEF Validate

LEMMA RejectStep ==
  ASSUME IInv, NEW i \in Invoice, Reject(i) PROVE IInv'
  BY StatusStep DEF Reject

LEMMA CancelInvoiceStep ==
  ASSUME IInv, NEW i \in Invoice, CancelInvoice(i) PROVE IInv'
  BY StatusStep DEF CancelInvoice, Editable

LEMMA ImputeStep ==
  ASSUME IInv, NEW i \in Invoice, Impute(i)
  PROVE  IInv'
  <1> DEFINE v == [invoice[i] EXCEPT !.linked = TRUE]
  <1>1. invoice[i] \in InvoiceRow /\ invoice \in [Invoice -> InvoiceRow]
        /\ invoice[i].status = "VALIDATED"
    BY DEF IInv, DebtOK, Impute
  <1>2. v \in InvoiceRow /\ v.status = "VALIDATED" /\ v.linked = TRUE /\ v.bill = invoice[i].bill
    BY <1>1 DEF InvoiceRow
  <1>3. /\ (v.bill.delivery # None => Delivered(v.bill.delivery))
        /\ invoice' = [invoice EXCEPT ![i] = v] /\ plan' \in Plan
        /\ UNCHANGED <<store, supply, request, credit, payments>>
    BY <1>1, <1>2 DEF Impute, IInv, BillOK, InvoiceRow
  <1>4. (v.bill.kind = "GOODS" /\ ~v.bill.excused) =>
             /\ v.bill.delivery # None
             /\ v.bill.item # None => /\ v.bill.quantity <= line[v.bill.item].received
                                      /\ v.bill.price = line[v.bill.item].price
    BY <1>1, <1>2 DEF IInv, BillOK, BilledReceived
  <1> HIDE DEF v
  <1> QED BY <1>1, <1>2, <1>3, <1>4, InvoiceStep

-----------------------------------------------------------------------------
(* Payments and credit notes.                                              *)

LEMMA AmountOfCredit ==
  ASSUME DebtOK, NEW n \in Credit
  PROVE  credit[n].amount \in Nat
  <1>1. credit[n].amount \in Amount \cup {0}
    BY DEF DebtOK, CreditRow
  <1> QED BY <1>1, Amounts

LEMMA DueInt ==
  ASSUME IInv, NEW i \in Invoice
  PROVE  /\ Total(i) \in Nat /\ Credited(i) \in Nat /\ Paid(i) \in Nat /\ Due(i) \in Int
         /\ IsFiniteSet(PaidBy(i)) /\ PaidBy(i) \subseteq DOMAIN payments
         /\ \A p \in DOMAIN payments : payments[p] \in PaymentRow /\ payments[p].amount \in Nat
  <1>1. Total(i) \in Nat
    <2>1. invoice[i].bill \in Bill \cup {NoBill}
      BY DEF IInv, DebtOK, InvoiceRow
    <2>2. invoice[i].bill.quantity \in Nat /\ invoice[i].bill.price \in Nat
      <3>1. CASE invoice[i].bill = NoBill
        BY <3>1 DEF NoBill
      <3>2. CASE invoice[i].bill \in Bill
        <4>1. invoice[i].bill.quantity \in Amount /\ invoice[i].bill.price \in Amount
          BY <3>2 DEF Bill
        <4> QED BY <4>1, Constants
      <3> QED BY <2>1, <3>1, <3>2
    <2> QED BY <2>2 DEF Total
  <1>2. Credited(i) \in Nat
    <2> DEFINE S == {n \in Credit : credit[n].invoice = i /\ credit[n].status = "VALIDATED"}
               f == [n \in Credit |-> credit[n].amount]
    <2>1. IsFiniteSet(S)
      BY Constants, FS_Subset
    <2>2. \A n \in S : f[n] \in Nat
      BY AmountOfCredit DEF IInv
    <2> HIDE DEF S, f
    <2>3. SumFunctionOnSet(f, S) \in Nat
      BY <2>1, <2>2, SumNat
    <2> QED BY <2>3 DEF S, f, Credited
  <1>3. /\ DOMAIN payments = 1..Len(payments) /\ Len(payments) \in Nat
        /\ \A p \in DOMAIN payments : payments[p] \in PaymentRow
    BY LenProperties, ElementOfSeq DEF IInv, DebtOK
  <1>4. \A p \in DOMAIN payments : payments[p].amount \in Nat
    BY <1>3, Constants DEF PaymentRow
  <1>5. IsFiniteSet(PaidBy(i)) /\ PaidBy(i) \subseteq DOMAIN payments
    <2>1. PaidBy(i) \subseteq DOMAIN payments
      BY DEF PaidBy
    <2>2. IsFiniteSet(1..Len(payments))
      BY <1>3, FS_Interval
    <2> QED BY <1>3, <2>1, <2>2, FS_Subset
  <1>6. Paid(i) \in Nat
    <2> DEFINE f == [p \in DOMAIN payments |-> payments[p].amount]
    <2>1. \A p \in PaidBy(i) : f[p] \in Nat
      BY <1>4, <1>5
    <2> HIDE DEF f
    <2>2. SumFunctionOnSet(f, PaidBy(i)) \in Nat
      BY <1>5, <2>1, SumNat
    <2> QED BY <2>2 DEF f, Paid
  <1> QED BY <1>1, <1>2, <1>3, <1>4, <1>5, <1>6 DEF Due

\* what a payment adds to what was paid
LEMMA SettlePaid ==
  ASSUME IInv, NEW i \in Invoice, NEW j \in Invoice, NEW n \in Amount,
         NEW route \in {"supplier", "treasury"}, Settle(j, n, route)
  PROVE  Paid(i)' = IF i = j THEN Paid(i) + n ELSE Paid(i)
  <1> DEFINE row == [invoice |-> j, amount |-> n, route |-> route, reversed |-> FALSE]
             m == Len(payments) + 1
             f == [p \in DOMAIN payments |-> payments[p].amount]
             g == [p \in DOMAIN payments' |-> payments'[p].amount]
  <1>1. payments \in Seq(PaymentRow) /\ payments' = Append(payments, row) /\ row \in PaymentRow
    BY DEF IInv, DebtOK, Settle, PaymentRow
  <1>2. /\ DOMAIN payments' = 1..m /\ Len(payments') = m /\ payments'[m] = row
        /\ DOMAIN payments = 1..Len(payments) /\ Len(payments) \in Nat
        /\ \A p \in 1..Len(payments) : payments'[p] = payments[p]
    BY <1>1, AppendProperties, LenProperties
  <1>3. /\ Paid(i) \in Nat /\ IsFiniteSet(PaidBy(i)) /\ PaidBy(i) \subseteq DOMAIN payments
        /\ \A p \in DOMAIN payments : payments[p].amount \in Nat
    BY DueInt
  <1>4. \A p \in PaidBy(i) : f[p] = g[p] /\ f[p] \in Nat
    BY <1>2, <1>3
  <1>5. Paid(i) = SumFunctionOnSet(f, PaidBy(i)) /\ Paid(i)' = SumFunctionOnSet(g, PaidBy(i)')
    BY DEF Paid
  <1>6. SumFunctionOnSet(g, PaidBy(i)) = Paid(i)
    <2> HIDE DEF f, g
    <2> QED BY <1>3, <1>4, <1>5, SumSame
  <1>7. CASE i = j
    <2>1. n \in Nat /\ g[m] = n /\ m \notin PaidBy(i)
      BY <1>2, <1>3, Amounts
    <2>2. PaidBy(i)' = PaidBy(i) \cup {m}
      BY <1>2, <1>7 DEF PaidBy
    <2>3. SumFunctionOnSet(g, PaidBy(i) \cup {m}) = SumFunctionOnSet(g, PaidBy(i)) + g[m]
      <3> HIDE DEF f, g
      <3>1. \A p \in PaidBy(i) \cup {m} : g[p] \in Int
        BY <1>4, <2>1
      <3> QED BY <1>3, <2>1, <3>1, SumAdd
    <2> QED BY <1>5, <1>6, <1>7, <2>1, <2>2, <2>3
  <1>8. CASE i # j
    <2>1. PaidBy(i)' = PaidBy(i)
      BY <1>2, <1>8 DEF PaidBy
    <2> QED BY <1>5, <1>6, <1>8, <2>1
  <1> QED BY <1>7, <1>8

LEMMA SettleStep ==
  ASSUME IInv, NEW i \in Invoice, NEW n \in Amount, NEW route \in {"supplier", "treasury"},
         Settle(i, n, route), invoice[i].linked, ~Paying(i)', plan' \in Plan,
         UNCHANGED request \/ \E c \in Clerk : Holds(c, None)
  PROVE  IInv'
  <1> DEFINE row == [invoice |-> i, amount |-> n, route |-> route, reversed |-> FALSE]
  <1>1. row \in PaymentRow /\ row.invoice = i
    BY DEF PaymentRow
  <1>2. payments \in Seq(PaymentRow) /\ payments' = Append(payments, row)
        /\ UNCHANGED <<store, supply, invoice, credit>>
    BY DEF IInv, DebtOK, Settle
  <1> HIDE DEF row
  <1>3. /\ payments' \in Seq(PaymentRow) /\ DOMAIN payments' = 1..Len(payments')
        /\ Len(payments') = Len(payments) + 1 /\ payments'[Len(payments) + 1] = row
        /\ DOMAIN payments = 1..Len(payments) /\ Len(payments) \in Nat
        /\ \A p \in 1..Len(payments) : payments'[p] = payments[p]
    BY <1>1, <1>2, AppendProperties, LenProperties
  <1>4. \A p \in DOMAIN payments' : invoice[payments'[p].invoice].linked
    BY <1>1, <1>2, <1>3 DEF IInv, DebtOK
  <1>5. DebtOK'
    BY <1>2, <1>3, <1>4 DEF IInv, DebtOK
  <1>6. BillOK'
    BY <1>2, <1>5, SupplyKept, BillsKept DEF IInv
  <1>7. PaidNoMore
    <2>1. ASSUME NEW j \in Invoice, Paying(j)' PROVE Paid(j)' = Paid(j)
      <3>1. i # j
        BY <2>1
      <3> QED BY <3>1, SettlePaid
    <2> QED BY <2>1 DEF PaidNoMore
  <1> QED BY <1>2, <1>5, <1>6, <1>7, DebtStep

\* a reversal lowers what was paid
LEMMA ReversePaid ==
  ASSUME IInv, NEW i \in Invoice, NEW r \in DOMAIN payments, ReversePayment(r)
  PROVE  Paid(i)' \in Nat /\ Paid(i)' <= Paid(i)
  <1> DEFINE f == [p \in DOMAIN payments |-> payments[p].amount]
             g == [p \in DOMAIN payments' |-> payments'[p].amount]
             row == [payments[r] EXCEPT !.reversed = TRUE]
  <1>1. /\ IsFiniteSet(PaidBy(i)) /\ PaidBy(i) \subseteq DOMAIN payments
        /\ \A p \in DOMAIN payments : payments[p] \in PaymentRow /\ payments[p].amount \in Nat
    BY DueInt
  <1>2. /\ DOMAIN payments' = DOMAIN payments
        /\ \A p \in DOMAIN payments : payments'[p] = IF p = r THEN row ELSE payments[p]
    BY DEF ReversePayment
  <1>3. row.reversed = TRUE /\ row.amount = payments[r].amount
    BY <1>1 DEF PaymentRow
  <1>4. PaidBy(i)' \subseteq PaidBy(i)
    BY <1>2, <1>3 DEF PaidBy
  <1>5. \A p \in PaidBy(i) : f[p] \in Nat /\ g[p] = f[p]
    BY <1>1, <1>2, <1>3
  <1>6. Paid(i) = SumFunctionOnSet(f, PaidBy(i)) /\ Paid(i)' = SumFunctionOnSet(g, PaidBy(i)')
    BY DEF Paid
  <1>7. IsFiniteSet(PaidBy(i)')
    BY <1>1, <1>4, FS_Subset
  <1> HIDE DEF f, g
  <1>8. SumFunctionOnSet(g, PaidBy(i)) = SumFunctionOnSet(f, PaidBy(i))
    BY <1>1, <1>5, SumSame
  <1>9. SumFunctionOnSet(g, PaidBy(i)') <= SumFunctionOnSet(g, PaidBy(i))
    BY <1>1, <1>4, <1>5, SumSubset
  <1>10. SumFunctionOnSet(g, PaidBy(i)') \in Nat
    BY <1>4, <1>5, <1>7, SumNat
  <1> QED BY <1>6, <1>8, <1>9, <1>10

LEMMA ReversePaymentStep ==
  ASSUME IInv, NEW p \in DOMAIN payments, ReversePayment(p)
  PROVE  IInv'
  <1>1. /\ payments \in Seq(PaymentRow) /\ payments' = [payments EXCEPT ![p].reversed = TRUE]
        /\ UNCHANGED <<store, supply, request, invoice, credit>>
    BY DEF IInv, DebtOK, ReversePayment
  <1>2. DOMAIN payments = 1..Len(payments) /\ payments[p] \in PaymentRow
    BY <1>1, LenProperties, ElementOfSeq
  <1> DEFINE row == [payments[p] EXCEPT !.reversed = TRUE]
  <1>3. row \in PaymentRow /\ row.invoice = payments[p].invoice
    BY <1>2 DEF PaymentRow
  <1>4. payments' = [payments EXCEPT ![p] = row]
    BY <1>1
  <1> HIDE DEF row
  <1>5. /\ payments' \in Seq(PaymentRow) /\ Len(payments') = Len(payments)
        /\ \A j \in 1..Len(payments) : payments'[j] = IF j = p THEN row ELSE payments[j]
    <2>1. p \in 1..Len(payments)
      BY <1>2
    <2>2. /\ [payments EXCEPT ![p] = row] \in Seq(PaymentRow)
          /\ Len([payments EXCEPT ![p] = row]) = Len(payments)
          /\ \A j \in 1..Len(payments) :
                [payments EXCEPT ![p] = row][j] = IF j = p THEN row ELSE payments[j]
      BY <1>1, <1>3, <2>1, ExceptSeq
    <2> QED BY <1>4, <2>2
  <1>6. DOMAIN payments' = DOMAIN payments
    BY <1>2, <1>5, LenProperties
  <1>7. \A j \in DOMAIN payments' : invoice[payments'[j].invoice].linked
    BY <1>2, <1>3, <1>5, <1>6 DEF IInv, DebtOK
  <1>8. DebtOK'
    BY <1>1, <1>5, <1>7 DEF IInv, DebtOK
  <1>9. BillOK'
    BY <1>1, <1>8, SupplyKept, BillsKept DEF IInv
  <1>10. plan' \in Plan
    BY PlanKept DEF IInv, ReversePayment
  <1>11. PaidNoMore
    <2>1. ASSUME NEW i \in Invoice PROVE Paid(i)' \in Nat /\ Paid(i)' <= Paid(i) /\ Paid(i) \in Nat
      BY ReversePaid, DueInt
    <2> QED BY <2>1 DEF PaidNoMore
  <1> QED BY <1>1, <1>8, <1>9, <1>10, <1>11, DebtStep

LEMMA CreditMoves ==
  ASSUME IInv, plan' \in Plan, UNCHANGED <<store, supply, invoice, payments>>,
         NEW n \in Credit, NEW w \in CreditRow, credit' = [credit EXCEPT ![n] = w],
         w.status # "none", w.invoice \in Invoice, invoice[w.invoice].status = "VALIDATED",
         UNCHANGED request \/ \E c \in Clerk : Holds(c, None)
  PROVE  IInv'
  <1>1. credit' \in [Credit -> CreditRow] /\ \A k \in Credit : credit'[k] = IF k = n THEN w ELSE credit[k]
    BY DEF IInv, DebtOK
  <1>2. DebtOK'
    BY <1>1 DEF IInv, DebtOK
  <1>3. BillOK'
    BY SupplyKept, BillsKept, <1>2 DEF IInv
  <1>4. PaidNoMore
    BY PaidSame
  <1> QED BY <1>1, <1>2, <1>3, <1>4, DebtStep

LEMMA CreateCreditStep ==
  ASSUME IInv, NEW c \in Clerk, NEW n \in Credit, NEW i \in Invoice, NEW amount \in Amount,
         CreateCredit(c, n, i, amount)
  PROVE  IInv'
  <1> DEFINE w == [status |-> "DRAFT", by |-> c, invoice |-> i, amount |-> amount]
  <1>1. w \in CreditRow /\ w.status = "DRAFT" /\ w.invoice = i
    BY DEF CreditRow
  <1>2. /\ credit' = [credit EXCEPT ![n] = w] /\ invoice[i].status = "VALIDATED"
        /\ UNCHANGED <<store, supply, request, invoice, payments>>
    BY DEF CreateCredit
  <1>3. plan' \in Plan
    BY PlanKept DEF IInv, CreateCredit
  <1> HIDE DEF w
  <1> QED BY <1>1, <1>2, <1>3, CreditMoves

\* the status of a credit note moves
LEMMA CreditStatusStep ==
  ASSUME IInv, plan' \in Plan, UNCHANGED <<store, supply, invoice, payments>>,
         NEW n \in Credit, NEW status \in {"SUBMITTED", "VALIDATED", "REJECTED"},
         credit' = [credit EXCEPT ![n].status = status], credit[n].status # "none",
         UNCHANGED request \/ \E c \in Clerk : Holds(c, None)
  PROVE  IInv'
  <1> DEFINE w == [credit[n] EXCEPT !.status = status]
  <1>1. credit[n] \in CreditRow /\ credit[n].invoice \in Invoice
        /\ invoice[credit[n].invoice].status = "VALIDATED"
    BY DEF IInv, DebtOK
  <1>2. w \in CreditRow /\ w.status = status /\ w.invoice = credit[n].invoice
    BY <1>1 DEF CreditRow
  <1>3. credit' = [credit EXCEPT ![n] = w]
    OBVIOUS
  <1> HIDE DEF w
  <1> QED BY <1>1, <1>2, <1>3, CreditMoves, ZenonT(60)

LEMMA SubmitCreditStep ==
  ASSUME IInv, NEW n \in Credit, SubmitCredit(n)
  PROVE  IInv'
  BY CreditStatusStep DEF IInv, SubmitCredit

DueNat == \A i \in Invoice : Total(i) \in Nat /\ Paid(i) \in Nat /\ Due(i) \in Int

LEMMA DueAlways == IInv => DueNat
  BY DueInt DEF DueNat

LEMMA DueNext == IInv' => DueNat'
  BY DueAlways, PTL

LEMMA AskDecisionStep ==
  ASSUME IInv, NEW c \in Clerk, NEW n \in Credit, AskDecision(c, n)
  PROVE  IInv'
  <1> DEFINE q == [op |-> "credit", credit |-> n, due |-> Due(credit[n].invoice),
                   linked |-> invoice[credit[n].invoice].linked]
  <1>1. credit[n].status # "none" /\ credit[n].invoice \in Invoice
    BY DEF AskDecision, IInv, DebtOK
  <1>2. Due(credit[n].invoice) \in Int
    BY <1>1, DueInt
  <1>3. q \in CreditRequest /\ q \in Request
    <2>1. invoice[credit[n].invoice].linked \in BOOLEAN
      BY <1>1 DEF IInv, DebtOK, InvoiceRow
    <2> QED BY <1>2, <2>1 DEF CreditRequest, Request
  <1>4. q.op = "credit" /\ q.credit = n
    OBVIOUS
  <1>5. Holds(c, q) /\ UNCHANGED <<store, supply, debts>> /\ plan' \in Plan
    BY DEF AskDecision, IInv
  <1> HIDE DEF q
  <1> QED BY <1>1, <1>3, <1>4, <1>5, ReadStep

LEMMA AskPaymentStep ==
  ASSUME IInv, NEW c \in Clerk, NEW i \in Invoice, NEW n \in Amount, AskPayment(c, i, n)
  PROVE  IInv'
  <1> DEFINE q == [op |-> "payment", invoice |-> i, amount |-> n,
                   credited |-> Credited(i), paid |-> Paid(i)]
  <1>1. Credited(i) \in Nat /\ Paid(i) \in Nat
    BY DueInt
  <1>2. q \in PaymentRequest /\ q \in Request
    BY <1>1 DEF PaymentRequest, Request
  <1>3. q.op = "payment" /\ q.invoice = i /\ q.paid = Paid(i)
    OBVIOUS
  <1>4. /\ Holds(c, q) /\ UNCHANGED <<store, supply, debts>>
        /\ invoice[i].linked /\ ~Paying(i)
    BY DEF AskPayment
  <1>5. plan' \in Plan
    BY PlanKept DEF IInv, AskPayment
  <1> HIDE DEF q
  <1> QED BY <1>1, <1>2, <1>3, <1>4, <1>5, ReadStep

\* what a payment with the scope CONCESSION holds
LEMMA ScopedShape ==
  ASSUME IInv, NEW c \in Clerk, PayScoped(c)
  PROVE  /\ request[c] # None /\ request[c].op = "payment" /\ request[c] \in PaymentRequest
         /\ request[c].invoice \in Invoice /\ request[c].amount \in Amount
         /\ request'[c] = None
  <1>1. request[c] # None /\ request[c].op = "payment" /\ request[c] \in Request
    BY DEF PayScoped, IInv, RequestOK
  <1>2. request[c] \in PaymentRequest
    BY <1>1, PaymentShape
  <1>3. request'[c] = None
    BY DEF PayScoped, Holds, IInv, RequestOK
  <1> QED BY <1>1, <1>2, <1>3 DEF PaymentRequest

LEMMA PayScopedStep ==
  ASSUME IInv, NEW c \in Clerk, PayScoped(c)
  PROVE  IInv'
  <1> DEFINE i == request[c].invoice
  <1>1. /\ request[c] # None /\ request[c].op = "payment" /\ request'[c] = None
        /\ i \in Invoice /\ request[c].amount \in Amount
    BY ScopedShape
  <1>2. Settle(i, request[c].amount, "supplier") /\ Holds(c, None) /\ plan' \in Plan
    BY DEF PayScoped, IInv
  <1>3. invoice[i].linked
    BY <1>1 DEF IInv, PaymentOK
  <1>4. ASSUME NEW d \in Clerk, request'[d] # None, request'[d].op = "payment",
               request'[d].invoice = i
        PROVE  FALSE
    <2>1. d # c
      BY <1>1, <1>4
    <2>2. request'[d] = request[d]
      BY <1>2, <2>1 DEF Holds, IInv, RequestOK
    <2> QED BY <1>1, <1>4, <2>1, <2>2 DEF IInv, PaymentOK
  <1>5. ASSUME NEW j \in Invoice, j = i PROVE ~Paying(j)'
    BY <1>4, <1>5 DEF Paying
  <1>6. ASSUME NEW j \in Invoice, j = i PROVE IInv'
    BY <1>1, <1>2, <1>3, <1>5, <1>6, SettleStep
  <1> QED BY <1>1, <1>6

LEMMA DecideStep ==
  ASSUME IInv, NEW c \in Clerk, NEW verdict \in {"VALIDATED", "REJECTED"}, Decide(c, verdict)
  PROVE  IInv'
  <1>1. request[c] # None /\ request[c].op = "credit" /\ request[c] \in Request
    BY DEF Decide, IInv, RequestOK
  <1>2. request[c].credit \in Credit
    BY <1>1, CreditShape DEF CreditRequest
  <1>3. /\ credit' = [credit EXCEPT ![request[c].credit].status = verdict]
        /\ credit[request[c].credit].status = "SUBMITTED"
        /\ Holds(c, None) /\ UNCHANGED <<store, supply, plan, invoice, payments>>
    BY DEF Decide
  <1> QED BY <1>2, <1>3, CreditStatusStep DEF IInv

-----------------------------------------------------------------------------
(* The invariant.                                                          *)

LEMMA Initially ==
  ASSUME Init PROVE IInv
  <1>1. plan \in Plan
    BY Constants DEF Init, PurchasingInit
  <1>2. StoreOK
    <2>1. PICK p \in plan.place, n \in Amount \cup {0} :
            /\ rows = {p}
            /\ stock = [r \in Place |-> [current |-> IF r = p THEN n ELSE 0, reserved |-> 0]]
            /\ ledger = [r \in Place |-> IF r = p THEN n ELSE 0]
      BY DEF Init, PurchasingInit
    <2>2. n \in Nat /\ p \in Place
      BY <1>1, <2>1, Constants DEF Plan
    <2>3. moved \in [Key -> Nat]
      BY DEF Init, PurchasingInit
    <2>4. IsFiniteSet(rows)
      BY <2>1, FS_Singleton
    <2> QED BY <2>1, <2>2, <2>3, <2>4 DEF StoreOK, StockRow
  <1>3. SupplyOK
    <2>1. /\ order = [o \in Order |-> "none"]
          /\ line = [l \in Line |-> [ordered |-> 0, received |-> 0, price |-> 0]]
          /\ receipt = [t \in Order \X Key |-> NoItems]
      BY DEF Init, PurchasingInit
    <2>2. \A l \in Line : Of[l] \in Order
      BY Constants
    <2>3. ASSUME NEW l \in Line PROVE ReceivedOf(l) = 0
      <3> DEFINE f == [k \in Key |-> receipt[<<Of[l], k>>][l]]
      <3>1. \A k \in Key : f[k] = 0
        BY <2>1, <2>2 DEF NoItems
      <3> HIDE DEF f
      <3>2. SumFunctionOnSet(f, Key) = 0
        BY <3>1, SumZero, Constants
      <3> QED BY <3>2 DEF f, ReceivedOf
    <2>4. order \in [Order -> Status] /\ line \in [Line -> LineRow]
          /\ receipt \in [Order \X Key -> [Line -> Nat]]
      BY <2>1 DEF Status, LineRow, NoItems
    <2> QED BY <2>1, <2>2, <2>3, <2>4 DEF SupplyOK
  <1>4. request = [c \in Clerk |-> None]
    BY DEF Init, PurchasingInit
  <1>5. RequestOK /\ SeenOK /\ DecisionOK /\ PaymentOK
    BY <1>4 DEF RequestOK, SeenOK, DecisionOK, PaymentOK, Request
  <1>6. /\ invoice = [i \in Invoice |-> [status |-> "none", by |-> None, bill |-> NoBill,
                                        linked |-> FALSE]]
        /\ credit = [n \in Credit |-> [status |-> "none", by |-> None, invoice |-> None,
                                       amount |-> 0]]
        /\ payments = <<>>
    BY DEF Init
  <1>7. DebtOK
    <2>1. invoice \in [Invoice -> InvoiceRow]
      BY <1>6 DEF InvoiceRow
    <2>2. credit \in [Credit -> CreditRow]
      BY <1>6 DEF CreditRow
    <2>3. payments \in Seq(PaymentRow) /\ DOMAIN payments = {}
      BY <1>6
    <2> QED BY <1>6, <2>1, <2>2, <2>3 DEF DebtOK
  <1>8. BillOK
    BY <1>6 DEF BillOK, BilledReceived, NoBill
  <1> QED BY <1>1, <1>2, <1>3, <1>5, <1>7, <1>8 DEF IInv

LEMMA PurchasingKeeps ==
  ASSUME IInv, PurchasingNext, UNCHANGED debts
  PROVE  IInv'
  <1>1. plan.place \subseteq Place /\ Amount \subseteq Nat
    BY Constants DEF IInv, Plan
  <1>2. ASSUME NEW p \in plan.place, NEW n \in Amount,
               Change(p, n) \/ Change(p, -n) \/ InventoryCount(p, n - 1)
        PROVE  IInv'
    <2>1. p \in Place /\ n \in Int /\ -n \in Int /\ n - 1 \in Int
      BY <1>1
    <2> QED BY <1>2, <2>1, ChangeStep, CountStep
  <1>3. ASSUME NEW r \in plan.place, NEW n \in Amount,
               Repair(r, n, 0) \/ Repair(r, -n, 0) \/ Repair(r, -n, n) \/ Repair(r, 0, n)
        PROVE  IInv'
    <2>1. r \in Place /\ n \in Int /\ -n \in Int /\ 0 \in Int
      BY <1>1
    <2> QED BY <1>3, <2>1, RepairStep
  <1>4. ASSUME NEW c \in Clerk, NEW from \in plan.place, NEW to \in plan.place,
               NEW n \in Amount, NEW k \in Key, AskTransfer(c, from, to, n, k)
        PROVE  IInv'
    BY <1>4, AskTransferStep
  <1>5. ASSUME NEW o \in Order, NEW n \in Amount,
               NEW lines \in SUBSET (LinesOf(o) \cap plan.line) \ {{}},
               NEW wanted \in [lines -> Amount], CreateOrder(o, wanted, n)
        PROVE  IInv'
    BY <1>5, CreateOrderStep
  <1>6. ASSUME NEW l \in plan.line, NEW n \in Amount, NEW price \in Amount, SetItem(l, n, price)
        PROVE  IInv'
    <2>1. l \in Line
      BY DEF IInv, Plan
    <2> QED BY <1>6, <2>1, SetItemStep
  <1>7. ASSUME NEW o \in Order, Advance(o) \/ CancelOrder(o) PROVE IInv'
    BY <1>7, AdvanceStep, CancelOrderStep
  <1>8. ASSUME NEW c \in Clerk, NEW o \in Order, NEW k \in Key, NEW p \in plan.place,
               NEW items \in Delivery(o), AskReceipt(c, o, k, items, p[2])
        PROVE  IInv'
    BY <1>8, AskReceiptStep
  <1>9. ASSUME NEW c \in Clerk, Transfer(c) \/ Receive(c) \/ Refused(c) PROVE IInv'
    BY <1>9, TransferStep, ReceiveStep, RefusedStep
  <1> QED BY <1>2, <1>3, <1>4, <1>5, <1>6, <1>7, <1>8, <1>9 DEF PurchasingNext

LEMMA PaySupplierStep ==
  ASSUME IInv, NEW i \in Invoice, NEW n \in Amount, PaySupplier(i, n) \/ Disburse(i, n)
  PROVE  IInv'
  <1>1. plan' \in Plan
    BY PlanKept DEF IInv, PaySupplier, Disburse
  <1>2. ~Paying(i)' /\ invoice[i].linked /\ UNCHANGED request
    BY DEF PaySupplier, Disburse, Paying
  <1> QED BY <1>1, <1>2, SettleStep DEF PaySupplier, Disburse

LEMMA DebtKeeps ==
  ASSUME IInv, DebtNext
  PROVE  IInv'
  <1>1. ASSUME NEW i \in Invoice, NEW b \in Bills,
               EditInvoice(i, b) \/ \E c \in Clerk : CreateInvoice(c, i, b)
        PROVE  IInv'
    BY <1>1, EditInvoiceStep, CreateInvoiceStep
  <1>2. ASSUME NEW i \in Invoice, Submit(i) \/ Reject(i) \/ CancelInvoice(i) \/ Impute(i)
        PROVE  IInv'
    BY <1>2, SubmitStep, RejectStep, CancelInvoiceStep, ImputeStep
  <1>3. ASSUME NEW c \in Clerk, NEW i \in Invoice, Validate(c, i) PROVE IInv'
    BY <1>3, ValidateStep
  <1>4. ASSUME NEW i \in Invoice, NEW n \in Amount, PaySupplier(i, n) \/ Disburse(i, n)
        PROVE  IInv'
    BY <1>4, PaySupplierStep
  <1>5. ASSUME NEW p \in DOMAIN payments, ReversePayment(p) PROVE IInv'
    BY <1>5, ReversePaymentStep
  <1>6. ASSUME NEW c \in Clerk, NEW n \in Credit, NEW i \in Invoice, NEW amount \in Amount,
               CreateCredit(c, n, i, amount)
        PROVE  IInv'
    BY <1>6, CreateCreditStep
  <1>7. ASSUME NEW n \in Credit, SubmitCredit(n) PROVE IInv'
    BY <1>7, SubmitCreditStep
  <1>8. ASSUME NEW c \in Clerk, NEW n \in Credit, AskDecision(c, n) PROVE IInv'
    BY <1>8, AskDecisionStep
  <1>9. ASSUME NEW c \in Clerk, NEW verdict \in {"VALIDATED", "REJECTED"}, Decide(c, verdict)
        PROVE  IInv'
    BY <1>9, DecideStep
  <1>10. ASSUME NEW c \in Clerk, NEW i \in Invoice, NEW n \in Amount, AskPayment(c, i, n)
         PROVE  IInv'
    BY <1>10, AskPaymentStep
  <1>11. ASSUME NEW c \in Clerk, PayScoped(c) PROVE IInv'
    BY <1>11, PayScopedStep
  <1> QED BY <1>1, <1>2, <1>3, <1>4, <1>5, <1>6, <1>7, <1>8, <1>9, <1>10, <1>11 DEF DebtNext

LEMMA DebtLeavesStore ==
  ASSUME DebtNext PROVE UNCHANGED <<store, supply>>
  BY DEF DebtNext, EditInvoice, CreateInvoice, Submit, Reject, CancelInvoice, Impute, Becomes,
         Validate, PaySupplier, Disburse, Settle, ReversePayment, CreateCredit, SubmitCredit,
         AskDecision, Decide, AskPayment, PayScoped

LEMMA Stuttering ==
  ASSUME IInv, UNCHANGED vars PROVE IInv'
  <1>1. UNCHANGED <<store, supply, request, plan, debts>>
    BY DEF vars
  <1>2. StoreOK' /\ SupplyOK' /\ Onward
    BY <1>1, StoreKept, SupplyKept DEF IInv
  <1> QED BY <1>1, <1>2, StockStep DEF IInv

LEMMA Inductive ==
  ASSUME IInv, [Next]_vars PROVE IInv'
  BY PurchasingKeeps, DebtKeeps, Stuttering DEF Next

\* The inductive invariant.
THEOREM Invariance == Spec => []IInv
  BY Initially, Inductive, PTL DEF Spec

\* The tables keep their shape.
THEOREM TypeCorrect == Spec => []TypeOK
  <1>1. IInv => TypeOK
    BY DEF IInv, TypeOK, StoreOK, SupplyOK, DebtOK
  <1> QED BY <1>1, Invariance, PTL

\* What passed the comparison without an excuse still bills what was delivered
\* (supplier-finance.routes.ts:28, 38).
THEOREM BillsMatched == Spec => []BilledReceived
  <1>1. IInv => BilledReceived
    BY DEF IInv, BillOK
  <1> QED BY <1>1, Invariance, PTL

-----------------------------------------------------------------------------
(* The parts no movement accounts for.                                     *)

\* a transfer from a row to itself
Doubled(r) ==
    \E c \in Clerk : LET q == request[c] IN
        /\ q # None /\ request'[c] = None /\ q.op = "transfer"
        /\ Locked(q.from, FALSE) = {r} /\ Locked(q.to, TRUE) = {r}
        /\ Unexplained(r)' = Unexplained(r) + q.amount

LEMMA SameStore ==
  ASSUME UNCHANGED store, NEW r \in Place
  PROVE  Unexplained(r)' = Unexplained(r)
  BY DEF Unexplained, store

LEMMA StockMove ==
  ASSUME IInv, [Next]_vars, NEW r \in Place, Unexplained(r)' # Unexplained(r)
  PROVE  Doubled(r)
  <1>1. ~UNCHANGED store
    BY SameStore
  <1>2. plan.place \subseteq Place /\ Amount \subseteq Nat /\ StoreOK
    BY Constants DEF IInv, Plan
  <1>3. ASSUME NEW p \in Agency \X (Location \cup {None}), NEW create, NEW n \in Int,
               \E x \in Locked(p, create) : Put(x, n)
        PROVE  FALSE
    <2>1. PICK x \in Locked(p, create) : Put(x, n)
      BY <1>3
    <2>2. x \in Place
      BY <1>2, LockedRow DEF StoreOK
    <2> QED BY <1>2, <2>1, <2>2, PutExplained
  <1>4. \A p \in Place : p \in Agency \X (Location \cup {None})
    BY DEF Place
  <1>5. ASSUME NEW p \in plan.place, NEW n \in Int, Change(p, n) PROVE FALSE
    BY <1>2, <1>3, <1>4, <1>5 DEF Change
  <1>6. ASSUME NEW p \in plan.place, NEW n \in Int, InventoryCount(p, n) PROVE FALSE
    <2>1. PICK x \in Locked(p, FALSE) : Put(x, n - stock[x].current)
      BY <1>6 DEF InventoryCount
    <2>2. x \in Place
      BY <1>2, <1>4, LockedRow DEF StoreOK
    <2>3. n - stock[x].current \in Int
      BY <1>2, <2>2 DEF StoreOK, StockRow
    <2> QED BY <1>2, <2>1, <2>2, <2>3, PutExplained
  <1>7. ASSUME NEW p \in plan.place, NEW m \in Int, NEW n \in Int, Repair(p, m, n) PROVE FALSE
    <2>1. stock[p].current \in Int /\ ledger[p] \in Int
      BY <1>2 DEF StoreOK, StockRow
    <2>2. /\ stock'[p].current = stock[p].current - n /\ ledger'[p] = ledger[p] - n
          /\ \A x \in Place : x # p => stock'[x] = stock[x] /\ ledger'[x] = ledger[x]
      BY <1>2, <1>7 DEF Repair, StoreOK
    <2> QED BY <2>1, <2>2 DEF Unexplained
  <1>8. ASSUME NEW c \in Clerk, Receive(c) PROVE FALSE
    <2> DEFINE q == request[c]
               n == SumFunctionOnSet(q.items, LinesOf(q.order))
    <2>1. q \in ReceiptRequest
      BY <1>8, ReceiptShape DEF Receive, IInv, RequestOK
    <2>2. q.order \in Order /\ q.items \in [Line -> Nat] /\ q.place \in Location \cup {None}
      BY <2>1 DEF ReceiptRequest
    <2>3. \E x \in Locked(<<Buyer[q.order], q.place>>, TRUE) : Put(x, n)
      BY <1>8 DEF Receive
    <2> HIDE DEF q
    <2>4. IsFiniteSet(LinesOf(q.order)) /\ LinesOf(q.order) \subseteq Line
      BY Constants, FS_Subset DEF LinesOf
    <2>5. n \in Int
      BY <2>2, <2>4, SumNat
    <2>6. <<Buyer[q.order], q.place>> \in Agency \X (Location \cup {None})
      BY <2>2, Constants
    <2> HIDE DEF n
    <2> QED BY <1>3, <2>3, <2>5, <2>6
  <1>9. ASSUME NEW c \in Clerk, Transfer(c) PROVE Doubled(r)
    <2>1. request[c] # None /\ request[c].op = "transfer" /\ request'[c] = None
      BY <1>9 DEF Transfer, Holds, IInv, RequestOK
    <2>2. /\ Locked(request[c].from, FALSE) = {r} /\ Locked(request[c].to, TRUE) = {r}
          /\ Unexplained(r)' = Unexplained(r) + request[c].amount
      BY <1>9, TransferRows
    <2> QED BY <2>1, <2>2 DEF Doubled
  <1>10. CASE PurchasingNext
    <2>1. \A n \in Amount : n \in Int /\ -n \in Int /\ n - 1 \in Int /\ 0 \in Int
      BY <1>2
    <2> QED BY <1>1, <1>5, <1>6, <1>7, <1>8, <1>9, <1>10, <2>1
            DEF PurchasingNext, AskTransfer, CreateOrder, SetItem, Advance, CancelOrder, AskReceipt,
                Refused
  <1>11. CASE DebtNext
    BY <1>1, <1>11, DebtLeavesStore
  <1> QED BY <1>1, <1>10, <1>11 DEF Next, vars

\* Only a transfer that turns out to have one row at both ends makes parts no
\* movement accounts for, and stock covers what was promised
\* (part-stock.ts:15, part.routes.ts:129-132).
THEOREM StockMoves == Spec => StockExplained
  <1>1. IInv /\ IInv' /\ [Next]_vars =>
          [\A r \in Place :
              /\ stock'[r].reserved <= stock'[r].current
              /\ Unexplained(r)' # Unexplained(r) =>
                    \E c \in Clerk : LET q == request[c] IN
                        /\ q # None /\ request'[c] = None /\ q.op = "transfer"
                        /\ Locked(q.from, FALSE) = {r} /\ Locked(q.to, TRUE) = {r}
                        /\ Unexplained(r)' = Unexplained(r) + q.amount]_vars
    BY StockMove DEF Doubled, IInv, StoreOK
  <1> QED BY <1>1, Invariance, PTL DEF Spec, StockExplained

-----------------------------------------------------------------------------
(* Orders that are complete.                                               *)

\* a receipt began while the order was a draft whose lines changed since
ByEarlyReceipt(o) ==
    \E c \in Clerk : LET q == request[c] IN
        q # None /\ request'[c] = None /\ q.op = "receipt" /\ q.order = o /\ Reordered(q)

LEMMA CompleteStep ==
  ASSUME IInv, NEW c \in Clerk, Receive(c), NEW o \in Order, order[o] # "received",
         order'[o] = "received", ~ByEarlyReceipt(o), NEW l \in LinesOf(o)
  PROVE  line'[l].received = line'[l].ordered
  <1> DEFINE q == request[c]
             f == [k \in Line |-> IF q.items[k] > 0 THEN Left(k) - q.items[k]
                                  ELSE q.seen[k].ordered - q.seen[k].received]
  <1>1. q # None /\ q.op = "receipt" /\ q \in Request /\ request'[c] = None
    BY DEF Receive, Holds, IInv, RequestOK
  <1>2. /\ q.order \in Order /\ q.items \in [Line -> Nat] /\ q.seen \in [Line -> LineRow]
    BY <1>1, ReceiptShape DEF ReceiptRequest
  <1>3. /\ \A k \in Line : q.items[k] <= Left(k)
        /\ line' = [k \in Line |-> [line[k] EXCEPT !.received = @ + q.items[k]]]
        /\ order' = [order EXCEPT ![q.order] =
                        IF StillPending(q) <= 0 THEN "received" ELSE "partially_received"]
    BY DEF Receive
  <1>4. \A k \in Line : /\ q.seen[k].received <= line[k].received
                        /\ q.seen[k].received <= q.seen[k].ordered
    BY <1>1 DEF IInv, SeenOK
  <1>5. order \in [Order -> Status] /\ line \in [Line -> LineRow]
    BY DEF IInv, SupplyOK
  <1>6. o = q.order /\ StillPending(q) <= 0
    BY <1>2, <1>3, <1>5
  <1>7. \A k \in LinesOf(o) : q.seen[k].ordered = line[k].ordered
    BY <1>1, <1>6 DEF ByEarlyReceipt, Reordered
  <1>8. SumFunctionOnSet(f, LinesOf(o)) <= 0
    BY <1>6 DEF StillPending
  <1> HIDE DEF q
  <1>9. \A k \in LinesOf(o) :
           /\ f[k] \in Nat /\ line'[k].ordered - line'[k].received <= f[k]
           /\ line'[k].received \in Nat /\ line'[k].ordered \in Nat
           /\ line'[k].received <= line'[k].ordered
    <2> TAKE k \in LinesOf(o)
    <2>1. k \in Line
      BY DEF LinesOf
    <2>2. /\ q.seen[k].ordered = line[k].ordered /\ q.seen[k].received <= line[k].received
          /\ q.seen[k].received \in Nat /\ line[k].received \in Nat /\ line[k].ordered \in Nat
          /\ q.seen[k].received <= q.seen[k].ordered
          /\ q.items[k] \in Nat /\ q.items[k] <= Left(k)
      BY <1>2, <1>3, <1>4, <1>5, <1>7, <2>1 DEF LineRow
    <2>3. Left(k) = line[k].ordered - line[k].received
      BY DEF Left
    <2>4. /\ line'[k].received = line[k].received + q.items[k]
          /\ line'[k].ordered = line[k].ordered
      BY <1>3, <1>5, <2>1 DEF LineRow
    <2>5. f[k] = IF q.items[k] > 0 THEN Left(k) - q.items[k]
                 ELSE q.seen[k].ordered - q.seen[k].received
      BY <2>1
    <2> HIDE DEF f
    <2>6. CASE q.items[k] > 0
      BY <2>2, <2>3, <2>4, <2>5, <2>6
    <2>7. CASE ~(q.items[k] > 0)
      <3>1. q.items[k] = 0
        BY <2>2, <2>7
      <3>2. f[k] = line[k].ordered - q.seen[k].received
        BY <2>2, <2>5, <2>7
      <3>3. line'[k].received = line[k].received /\ line'[k].ordered = line[k].ordered
        BY <2>2, <2>4, <3>1
      <3>4. line[k].received <= line[k].ordered
        BY <2>1 DEF IInv, SupplyOK
      <3> QED BY <2>2, <3>2, <3>3, <3>4
    <2> QED BY <2>6, <2>7
  <1>10. IsFiniteSet(LinesOf(o))
    BY Constants, FS_Subset DEF LinesOf
  <1> HIDE DEF f
  <1>11. f[l] = 0
    BY <1>8, <1>9, <1>10, NothingLeft
  <1> QED BY <1>9, <1>11

LEMMA ReceivedStep ==
  ASSUME IInv, [Next]_vars, NEW o \in Order, order[o] # "received", order'[o] = "received"
  PROVE  (\A l \in LinesOf(o) : line'[l].received = line'[l].ordered) \/ ByEarlyReceipt(o)
  <1>1. order \in [Order -> Status]
    BY DEF IInv, SupplyOK
  <1>2. ~UNCHANGED order
    OBVIOUS
  <1>3. CASE PurchasingNext
    <2>1. \/ UNCHANGED order
          \/ \E p \in Order, n \in Amount : \E lines \in SUBSET (LinesOf(p) \cap plan.line) \ {{}} :
                \E wanted \in [lines -> Amount] : CreateOrder(p, wanted, n)
          \/ \E p \in Order : Advance(p) \/ CancelOrder(p)
          \/ \E c \in Clerk : Receive(c)
      BY <1>3 DEF PurchasingNext, Change, InventoryCount, Repair, AskTransfer, AskReceipt, Transfer,
                  Refused, SetItem, supply
    <2>2. ASSUME NEW p \in Order, NEW n, NEW wanted, CreateOrder(p, wanted, n) PROVE FALSE
      BY <1>1, <2>2 DEF CreateOrder
    <2>3. ASSUME NEW p \in Order, Advance(p) \/ CancelOrder(p) PROVE FALSE
      BY <1>1, <2>3 DEF Advance, CancelOrder
    <2> QED BY <1>2, <2>1, <2>2, <2>3, CompleteStep
  <1>4. CASE DebtNext
    BY <1>2, <1>4, DebtLeavesStore DEF supply
  <1> QED BY <1>2, <1>3, <1>4 DEF Next, vars, supply

\* No line receives more than was ordered, and an order becomes received only when
\* it is complete, but for receipts begun before its last changes
\* (part.routes.ts:143).
THEOREM ReceiptsBounded == Spec => ReceiptsWithinOrder
  <1>1. IInv /\ IInv' /\ [Next]_vars =>
          [/\ \A l \in Line : line'[l].received = ReceivedOf(l)' /\ line'[l].received <= line'[l].ordered
           /\ \A o \in Order : order[o] # "received" /\ order'[o] = "received" =>
                 \/ \A l \in LinesOf(o) : line'[l].received = line'[l].ordered
                 \/ \E c \in Clerk : LET q == request[c] IN
                        /\ q # None /\ request'[c] = None /\ q.op = "receipt" /\ q.order = o
                        /\ Reordered(q)]_vars
    BY ReceivedStep DEF ByEarlyReceipt, IInv, SupplyOK
  <1> QED BY <1>1, Invariance, PTL DEF Spec, ReceiptsWithinOrder

-----------------------------------------------------------------------------
(* Orders that ended.                                                      *)

LEMMA EndedStep ==
  ASSUME IInv, [Next]_vars, NEW o \in Order, order[o] \in Ended
  PROVE  /\ order'[o] = order[o]
         /\ \A l \in LinesOf(o) : line'[l] = line[l]
         /\ \A k \in Key : receipt'[<<o, k>>] = receipt[<<o, k>>]
  <1> DEFINE Same == /\ order'[o] = order[o]
                     /\ \A l \in LinesOf(o) : line'[l] = line[l]
                     /\ \A k \in Key : receipt'[<<o, k>>] = receipt[<<o, k>>]
  <1>1. /\ order \in [Order -> Status] /\ line \in [Line -> LineRow]
        /\ receipt \in [Order \X Key -> [Line -> Nat]]
        /\ \A l \in Line : Of[l] \in Order
    BY Constants DEF IInv, SupplyOK
  <1>2. order[o] \notin {"none", "draft"} /\ order[o] \notin Receivable
    BY DEF Ended, Receivable
  <1>3. CASE UNCHANGED supply
    BY <1>3 DEF supply
  <1>4. ASSUME NEW p \in Order, NEW lines \in SUBSET LinesOf(p), NEW wanted \in [lines -> Amount],
               NEW price \in Amount, CreateOrder(p, wanted, price)
        PROVE  Same
    BY <1>1, <1>2, <1>4 DEF CreateOrder, LinesOf
  <1>5. ASSUME NEW l \in Line, NEW n \in Amount, NEW price \in Amount, SetItem(l, n, price)
        PROVE  Same
    BY <1>1, <1>2, <1>5 DEF SetItem, LinesOf
  <1>6. ASSUME NEW p \in Order, Advance(p) PROVE Same
    <2>1. UNCHANGED <<line, receipt>> /\ order[p] \in {"draft", "sent"}
      BY <1>6 DEF Advance
    <2>2. o # p
      BY <2>1 DEF Ended
    <2>3. order'[o] = order[o]
      BY <1>1, <1>6, <2>2 DEF Advance
    <2> QED BY <2>1, <2>3
  <1>7. ASSUME NEW p \in Order, CancelOrder(p) PROVE Same
    BY <1>1, <1>2, <1>7 DEF CancelOrder
  <1>8. ASSUME NEW c \in Clerk, Receive(c) PROVE Same
    <2> DEFINE q == request[c]
    <2>1. q # None /\ q.op = "receipt" /\ q \in Request
      BY <1>8 DEF Receive, IInv, RequestOK
    <2>2. q.order \in Order /\ q.key \in Key /\ q.items \in [Line -> Nat]
      BY <2>1, ReceiptShape DEF ReceiptRequest
    <2>3. \A l \in Line : q.items[l] > 0 => Of[l] = q.order
      BY <2>1 DEF IInv, RequestOK
    <2>4. /\ order[q.order] \in Receivable
          /\ line' = [l \in Line |-> [line[l] EXCEPT !.received = @ + q.items[l]]]
          /\ receipt' = [receipt EXCEPT ![<<q.order, q.key>>] = q.items]
          /\ order' = [order EXCEPT ![q.order] =
                        IF StillPending(q) <= 0 THEN "received" ELSE "partially_received"]
      BY <1>8 DEF Receive
    <2> HIDE DEF q
    <2>5. o # q.order
      BY <1>2, <2>4
    <2>6. order'[o] = order[o] /\ \A k \in Key : receipt'[<<o, k>>] = receipt[<<o, k>>]
      BY <1>1, <2>4, <2>5
    <2>7. ASSUME NEW l \in LinesOf(o) PROVE line'[l] = line[l]
      <3>1. l \in Line /\ Of[l] = o
        BY DEF LinesOf
      <3>2. q.items[l] = 0
        BY <2>2, <2>3, <2>5, <3>1
      <3>3. line[l] \in LineRow
        BY <1>1, <3>1
      <3> QED BY <2>4, <3>1, <3>2, <3>3 DEF LineRow
    <2> QED BY <2>6, <2>7
  <1>9. CASE PurchasingNext
    <2>1. \/ UNCHANGED supply
          \/ \E p \in Order, n \in Amount : \E lines \in SUBSET (LinesOf(p) \cap plan.line) \ {{}} :
                \E wanted \in [lines -> Amount] : CreateOrder(p, wanted, n)
          \/ \E l \in plan.line, n, price \in Amount : SetItem(l, n, price)
          \/ \E p \in Order : Advance(p) \/ CancelOrder(p)
          \/ \E c \in Clerk : Receive(c)
      BY <1>9 DEF PurchasingNext, Change, InventoryCount, Repair, AskTransfer, AskReceipt, Transfer,
                  Refused
    <2>2. plan.line \subseteq Line
      BY DEF IInv, Plan
    <2> HIDE DEF Same
    <2>3. UNCHANGED supply => Same
      BY <1>3 DEF Same
    <2>4. ASSUME NEW p \in Order, NEW n \in Amount,
                 NEW lines \in SUBSET (LinesOf(p) \cap plan.line) \ {{}},
                 NEW wanted \in [lines -> Amount], CreateOrder(p, wanted, n)
          PROVE  Same
      BY <1>4, <2>4
    <2>5. ASSUME NEW l \in plan.line, NEW n \in Amount, NEW price \in Amount, SetItem(l, n, price)
          PROVE  Same
      BY <1>5, <2>2, <2>5
    <2>6. ASSUME NEW p \in Order, Advance(p) \/ CancelOrder(p) PROVE Same
      BY <1>6, <1>7, <2>6
    <2>7. ASSUME NEW c \in Clerk, Receive(c) PROVE Same
      BY <1>8, <2>7
    <2>8. Same
      BY <2>1, <2>3, <2>4, <2>5, <2>6, <2>7
    <2> QED BY <2>8 DEF Same
  <1>10. CASE DebtNext
    <2>1. UNCHANGED supply
      BY <1>10, DebtLeavesStore
    <2> QED BY <1>3, <2>1
  <1>11. CASE UNCHANGED vars
    BY <1>3, <1>11 DEF vars
  <1> QED BY <1>9, <1>10, <1>11 DEF Next

\* A received or cancelled order is never written again (part.routes.ts:142-143).
THEOREM OrdersEnd == Spec => EndedForGood
  <1>1. IInv /\ [Next]_vars =>
          [\A o \in Order : order[o] \in Ended =>
              /\ order'[o] = order[o]
              /\ \A l \in LinesOf(o) : line'[l] = line[l]
              /\ \A k \in Key : receipt'[<<o, k>>] = receipt[<<o, k>>]]_vars
    BY EndedStep
  <1> QED BY <1>1, Invariance, PTL DEF Spec, EndedForGood

-----------------------------------------------------------------------------
(* The balance of an invoice.                                              *)

LEMMA NoDebt ==
  ASSUME IInv, NEW i \in Invoice, invoice[i].status # "VALIDATED"
  PROVE  Credited(i) = 0 /\ Paid(i) = 0
  <1>1. {n \in Credit : credit[n].invoice = i /\ credit[n].status = "VALIDATED"} = {}
    BY DEF IInv, DebtOK
  <1>2. PaidBy(i) = {}
    BY DEF IInv, DebtOK, PaidBy
  <1> QED BY <1>1, <1>2, SumEmpty DEF Credited, Paid

LEMMA SameCredits ==
  ASSUME IInv, IInv', NEW i \in Invoice,
         \A n \in Credit : /\ credit'[n].status = "VALIDATED" <=> credit[n].status = "VALIDATED"
                           /\ credit[n].status = "VALIDATED" => credit'[n] = credit[n]
  PROVE  Credited(i)' = Credited(i)
  <1> DEFINE S == {n \in Credit : credit[n].invoice = i /\ credit[n].status = "VALIDATED"}
             f == [n \in Credit |-> credit[n].amount]
             g == [n \in Credit |-> credit'[n].amount]
  <1>1. S = {n \in Credit : credit'[n].invoice = i /\ credit'[n].status = "VALIDATED"}
    OBVIOUS
  <1>2. \A n \in S : f[n] = g[n]
    OBVIOUS
  <1>3. IsFiniteSet(S)
    BY Constants, FS_Subset
  <1>4. Credited(i)' = SumFunctionOnSet(g, S) /\ Credited(i) = SumFunctionOnSet(f, S)
    BY <1>1 DEF Credited
  <1> HIDE DEF f, g, S
  <1> QED BY <1>2, <1>3, <1>4, SumSame

\* the balance falls below zero, explained
Explained(i) ==
    \/ Len(payments') > Len(payments) /\ payments'[Len(payments')].route = "treasury"
    \/ \E c \in Clerk : LET q == request[c] IN
          /\ q # None /\ request'[c] = None
          /\ \/ q.op = "credit" /\ credit[q.credit].invoice = i /\ q.due # Due(i)
             \/ q.op = "payment" /\ q.invoice = i /\ q.credited < Credited(i)

\* it falls by a payment larger than it
LEMMA SettleDue ==
  ASSUME IInv, NEW i \in Invoice, NEW j \in Invoice, NEW n \in Amount,
         NEW route \in {"supplier", "treasury"}, Settle(j, n, route),
         Due(i) >= 0, Due(i)' < 0
  PROVE  i = j /\ n > Due(j)
  <1>1. /\ Total(i)' = Total(i) /\ Credited(i)' = Credited(i)
        /\ Total(i) \in Nat /\ Credited(i) \in Nat /\ Paid(i) \in Nat /\ n \in Nat
    <2>1. UNCHANGED <<invoice, credit>>
      BY DEF Settle
    <2> QED BY <2>1, DueInt, Amounts DEF Total, Credited
  <1>2. Paid(i)' = IF i = j THEN Paid(i) + n ELSE Paid(i)
    BY SettlePaid
  <1> QED BY <1>1, <1>2 DEF Due

LEMMA DisburseDue ==
  ASSUME IInv, NEW i \in Invoice, NEW j \in Invoice, NEW n \in Amount, Disburse(j, n)
  PROVE  Explained(i)
  <1>1. payments \in Seq(PaymentRow)
    BY DEF IInv, DebtOK
  <1>2. payments' = Append(payments, [invoice |-> j, amount |-> n, route |-> "treasury",
                                      reversed |-> FALSE])
    BY DEF Disburse, Settle
  <1>3. Len(payments') > Len(payments) /\ payments'[Len(payments')].route = "treasury"
    BY <1>1, <1>2
  <1> QED BY <1>3 DEF Explained

LEMMA ScopedDue ==
  ASSUME IInv, NEW i \in Invoice, NEW c \in Clerk, PayScoped(c), Due(i) >= 0, Due(i)' < 0
  PROVE  Explained(i)
  <1> DEFINE q == request[c]
  <1>1. /\ q # None /\ q.op = "payment" /\ request'[c] = None /\ q \in PaymentRequest
        /\ q.invoice \in Invoice /\ q.amount \in Amount
    BY ScopedShape
  <1>2. /\ q.amount <= Total(q.invoice) - q.credited - q.paid
        /\ Settle(q.invoice, q.amount, "supplier")
    BY DEF PayScoped
  <1>3. Paid(q.invoice) <= q.paid
    BY <1>1 DEF IInv, PaymentOK
  <1>4. q.credited \in Nat /\ q.paid \in Nat /\ q.amount \in Nat
    BY <1>1, Amounts DEF PaymentRequest
  <1> HIDE DEF q
  <1>5. i = q.invoice /\ q.amount > Due(i)
    BY <1>1, <1>2, SettleDue
  <1>6. Total(i) \in Nat /\ Credited(i) \in Nat /\ Paid(i) \in Nat
    BY DueInt
  <1>7. q.credited < Credited(i)
    BY <1>2, <1>3, <1>4, <1>5, <1>6 DEF Due
  <1> QED BY <1>1, <1>5, <1>7 DEF Explained, q

LEMMA ReverseDue ==
  ASSUME IInv, NEW i \in Invoice, NEW r \in DOMAIN payments, ReversePayment(r)
  PROVE  Due(i)' >= Due(i)
  <1>1. /\ Total(i)' = Total(i) /\ Credited(i)' = Credited(i)
        /\ Total(i) \in Nat /\ Credited(i) \in Nat /\ Paid(i) \in Nat
    <2>1. UNCHANGED <<invoice, credit>>
      BY DEF ReversePayment
    <2> QED BY <2>1, DueInt DEF Total, Credited
  <1>2. Paid(i)' \in Nat /\ Paid(i)' <= Paid(i)
    BY ReversePaid
  <1> QED BY <1>1, <1>2 DEF Due

LEMMA DecideDue ==
  ASSUME IInv, IInv', NEW i \in Invoice, NEW c \in Clerk, NEW verdict \in {"VALIDATED", "REJECTED"},
         Decide(c, verdict), Due(i) >= 0, Due(i)' < 0
  PROVE  Explained(i)
  <1> DEFINE n == request[c].credit
  <1>1. request[c] # None /\ request[c].op = "credit" /\ request[c] \in Request
    BY DEF Decide, IInv, RequestOK
  <1>2. n \in Credit /\ request[c].due \in Int
    BY <1>1, CreditShape DEF CreditRequest
  <1>3. /\ credit' = [credit EXCEPT ![n].status = verdict] /\ credit[n].status = "SUBMITTED"
        /\ verdict = "VALIDATED" => credit[n].amount <= request[c].due
        /\ Holds(c, None) /\ UNCHANGED <<invoice, payments>>
    BY DEF Decide
  <1> HIDE DEF n
  <1>4. credit[n] \in CreditRow /\ credit \in [Credit -> CreditRow]
    BY <1>2 DEF IInv, DebtOK
  <1>5. /\ Total(i)' = Total(i) /\ Paid(i)' = Paid(i)
        /\ Total(i) \in Nat /\ Credited(i) \in Nat /\ Paid(i) \in Nat
    BY <1>3, DueInt DEF Total, Paid, PaidBy
  <1>6. /\ \A k \in Credit : k # n => credit'[k] = credit[k]
        /\ credit'[n].status = verdict /\ credit'[n].invoice = credit[n].invoice
        /\ credit'[n].amount = credit[n].amount
    BY <1>2, <1>3, <1>4 DEF CreditRow
  <1>7. CASE verdict = "VALIDATED" /\ credit[n].invoice = i
    <2> DEFINE S == {k \in Credit : credit[k].invoice = i /\ credit[k].status = "VALIDATED"}
               f == [k \in Credit |-> credit[k].amount]
    <2>1. {k \in Credit : credit'[k].invoice = i /\ credit'[k].status = "VALIDATED"} = S \cup {n}
      BY <1>2, <1>6, <1>7
    <2>2. [k \in Credit |-> credit'[k].amount] = f
      BY <1>6
    <2>3. /\ Credited(i) = SumFunctionOnSet(f, S)
          /\ Credited(i)' = SumFunctionOnSet(f, S \cup {n})
      BY <2>1, <2>2 DEF Credited
    <2>4. IsFiniteSet(S) /\ n \notin S /\ f[n] = credit[n].amount
          /\ \A k \in S \cup {n} : f[k] \in Int
      <3>1. \A k \in Credit : credit[k].amount \in Int
        BY AmountOfCredit DEF IInv
      <3>2. IsFiniteSet(S)
        BY Constants, FS_Subset
      <3>3. \A k \in S \cup {n} : k \in Credit
        BY <1>2
      <3> QED BY <1>2, <1>3, <3>1, <3>2, <3>3
    <2>5. credit[n].amount \in Int
      BY <1>2, AmountOfCredit DEF IInv
    <2> HIDE DEF f, S
    <2>6. Credited(i)' = Credited(i) + credit[n].amount
      BY <2>3, <2>4, SumAdd
    <2>7. request[c].due # Due(i)
      BY <1>2, <1>3, <1>5, <1>7, <2>5, <2>6 DEF Due
    <2>8. request'[c] = None
      BY <1>3 DEF Holds, IInv, RequestOK
    <2> QED BY <1>1, <1>7, <2>7, <2>8 DEF Explained, n
  <1>8. CASE ~(verdict = "VALIDATED" /\ credit[n].invoice = i)
    <2> DEFINE S == {k \in Credit : credit[k].invoice = i /\ credit[k].status = "VALIDATED"}
               f == [k \in Credit |-> credit[k].amount]
    <2>1. {k \in Credit : credit'[k].invoice = i /\ credit'[k].status = "VALIDATED"} = S
      BY <1>2, <1>3, <1>6, <1>8
    <2>2. [k \in Credit |-> credit'[k].amount] = f
      BY <1>6
    <2>3. Credited(i)' = Credited(i)
      BY <2>1, <2>2 DEF Credited
    <2> QED BY <1>5, <2>3 DEF Due
  <1> QED BY <1>7, <1>8

\* the invoice changes, its credits and payments do not
LEMMA InvoiceDue ==
  ASSUME IInv, IInv', NEW i \in Invoice, UNCHANGED <<credit, payments>>,
         invoice'[i].bill = invoice[i].bill \/ invoice[i].status # "VALIDATED", Due(i) >= 0
  PROVE  ~(Due(i)' < 0)
  <1>1. Credited(i)' = Credited(i) /\ Paid(i)' = Paid(i)
    BY DEF Credited, Paid, PaidBy
  <1>2. Total(i)' \in Nat
    BY DueNext DEF DueNat
  <1>3. CASE invoice'[i].bill = invoice[i].bill
    <2>1. Total(i)' = Total(i)
      BY <1>3 DEF Total
    <2>2. Due(i)' = Due(i) /\ Due(i) \in Int
      BY <1>1, <2>1, DueInt DEF Due
    <2> QED BY <2>2
  <1>4. CASE invoice[i].status # "VALIDATED"
    <2>1. Due(i)' = Total(i)'
      BY <1>1, <1>2, <1>4, NoDebt DEF Due
    <2> QED BY <1>2, <2>1
  <1> QED BY <1>3, <1>4

LEMMA OverrunStep ==
  ASSUME IInv, IInv', [Next]_vars, NEW i \in Invoice, Due(i) >= 0, Due(i)' < 0
  PROVE  Explained(i)
  <1>1. invoice \in [Invoice -> InvoiceRow] /\ credit \in [Credit -> CreditRow]
    BY DEF IInv, DebtOK
  <1>2. ~UNCHANGED debts
    BY InvoiceDue DEF debts
  <1>3. ASSUME NEW j \in Invoice, NEW b \in Bills,
               EditInvoice(j, b) \/ \E c \in Clerk : CreateInvoice(c, j, b)
        PROVE  FALSE
    <2>1. UNCHANGED <<credit, payments>>
          /\ (invoice'[i].bill = invoice[i].bill \/ invoice[i].status # "VALIDATED")
      BY <1>1, <1>3 DEF EditInvoice, CreateInvoice, Editable
    <2> QED BY <2>1, InvoiceDue
  <1>4. ASSUME NEW j \in Invoice, NEW status, Becomes(j, status) PROVE FALSE
    <2>1. UNCHANGED <<credit, payments>> /\ invoice'[i].bill = invoice[i].bill
      BY <1>1, <1>4 DEF Becomes, InvoiceRow
    <2> QED BY <2>1, InvoiceDue
  <1>5. ASSUME NEW j \in Invoice, Impute(j) PROVE FALSE
    <2>1. UNCHANGED <<credit, payments>> /\ invoice'[i].bill = invoice[i].bill
      BY <1>1, <1>5 DEF Impute, InvoiceRow
    <2> QED BY <2>1, InvoiceDue
  <1>6. ASSUME NEW j \in Invoice, NEW n \in Amount, PaySupplier(j, n) \/ Disburse(j, n)
        PROVE  Explained(i)
    <2>1. CASE Disburse(j, n)
      BY <2>1, DisburseDue
    <2>2. CASE PaySupplier(j, n)
      <3>1. Settle(j, n, "supplier") /\ n <= Due(j)
        BY <2>2 DEF PaySupplier
      <3>2. n > Due(j) /\ n \in Nat /\ Due(j) \in Int
        BY <3>1, SettleDue, DueInt, Amounts
      <3> QED BY <3>1, <3>2
    <2> QED BY <1>6, <2>1, <2>2
  <1>7. ASSUME NEW p \in DOMAIN payments, ReversePayment(p) PROVE FALSE
    <2>1. Due(i)' >= Due(i) /\ Due(i) \in Int
      BY <1>7, ReverseDue, DueInt
    <2>2. Due(i)' \in Int
      BY DueNext DEF DueNat
    <2> QED BY <2>1, <2>2
  <1>8. ASSUME UNCHANGED <<invoice, payments>>,
               \A n \in Credit : /\ credit'[n].status = "VALIDATED" <=> credit[n].status = "VALIDATED"
                                 /\ credit[n].status = "VALIDATED" => credit'[n] = credit[n]
        PROVE  FALSE
    <2>1. Credited(i)' = Credited(i)
      BY <1>8, SameCredits
    <2>2. Total(i)' = Total(i) /\ Paid(i)' = Paid(i)
      BY <1>8 DEF Total, Paid, PaidBy
    <2>3. Due(i)' = Due(i) /\ Due(i) \in Int
      BY <2>1, <2>2, DueInt DEF Due
    <2> QED BY <2>3
  <1>9. ASSUME NEW c \in Clerk, NEW n \in Credit, NEW j \in Invoice, NEW amount \in Amount,
               CreateCredit(c, n, j, amount)
        PROVE  FALSE
    BY <1>1, <1>8, <1>9 DEF CreateCredit
  <1>10. ASSUME NEW n \in Credit, SubmitCredit(n) PROVE FALSE
    BY <1>1, <1>8, <1>10 DEF SubmitCredit, CreditRow
  <1>11. ASSUME NEW c \in Clerk, NEW verdict \in {"VALIDATED", "REJECTED"}, Decide(c, verdict)
         PROVE  Explained(i)
    BY <1>11, DecideDue
  <1>12. ASSUME NEW c \in Clerk, PayScoped(c) PROVE Explained(i)
    BY <1>12, ScopedDue
  <1>13. CASE DebtNext
    BY <1>2, <1>3, <1>4, <1>5, <1>6, <1>7, <1>9, <1>10, <1>11, <1>12, <1>13
       DEF DebtNext, Submit, Reject, CancelInvoice, Validate, AskDecision, AskPayment
  <1> QED BY <1>2, <1>13 DEF Next, vars

\* A balance below zero comes from a credit note decided on an old balance, from
\* a payment of the treasury, or from a payment with the scope CONCESSION that did
\* not see a credit note (supplier-finance.routes.ts:42, 46; treasury.service.ts:957).
THEOREM OverrunsExplained == Spec => OverrunExplained
  <1>1. IInv /\ IInv' /\ [Next]_vars =>
          [\A i \in Invoice : Due(i) >= 0 /\ Due(i)' < 0 =>
             \/ Len(payments') > Len(payments) /\ payments'[Len(payments')].route = "treasury"
             \/ \E c \in Clerk : LET q == request[c] IN
                   /\ q # None /\ request'[c] = None
                   /\ \/ q.op = "credit" /\ credit[q.credit].invoice = i /\ q.due # Due(i)
                      \/ q.op = "payment" /\ q.invoice = i /\ q.credited < Credited(i)]_vars
    BY OverrunStep DEF Explained
  <1> QED BY <1>1, Invariance, PTL DEF Spec, OverrunExplained

=============================================================================
