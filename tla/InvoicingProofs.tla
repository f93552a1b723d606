-------------------------- MODULE InvoicingProofs --------------------------
(***************************************************************************)
(* Nobody is billed twice, with any number of requests and workers, any    *)
(* prices and any calendar: a period is rolled once, invoice numbers are   *)
(* unique, an invoice is announced once and moves along                    *)
(* INVOICE_TRANSITIONS, and no adjustment is lost or charged twice.        *)
(***************************************************************************)
EXTENDS Invoicing, FoldLemmas, SequenceTheorems, TLAPS

Subscription == [start : Nat, price : Prices, pending : Int]
Invoice == [month : Months, status : Statuses, number : Nat \X Nat, plan : Prices, over : 0..1, total : Nat]

RowsTyped ==
    /\ clock \in 0..MaxClock /\ over \in [Months -> 0..1]
    /\ sub \in Subscription /\ sub.start <= clock
    /\ invoices \in Seq(Invoice)
    /\ notices \in [1..MaxInvoices -> Nat] /\ renewals \in [0..MaxClock -> Nat]
    /\ adjusted \in Int

TxsTyped ==
    /\ pc \in [Procs -> {"idle", "work"}]
    /\ DOMAIN op = Procs /\ op = [r \in Procs |-> op[r]]
    /\ DOMAIN view = Procs /\ view = [r \in Procs |-> view[r]]
    /\ overtaken \in BOOLEAN /\ requests \in 0..MaxRequests /\ failures \in 0..MaxFailures

\* What a transaction at work has loaded, and what held when it went on.  The renewal
\* job's subscription is locked, so that its period is still the one it loaded.
TxOK(r, o, v) ==
    \/ o.kind = "draft" /\ o.month \in Months /\ v[1] \in Subscription /\ v[2] = {}
    \/ o.kind = "finalize" /\ o.inv \in DOMAIN invoices /\ v = <<"draft">>
    \/ o.kind = "pay" /\ o.inv \in DOMAIN invoices /\ \E x \in Statuses : v = <<x>> /\ MayMove(x, "paid")
    \/ o.kind = "void" /\ o.inv \in DOMAIN invoices /\ \E x \in Statuses : v = <<x>> /\ MayMove(x, "void")
    \/ o.kind = "change" /\ o.price \in Prices /\ v[1] \in Subscription
    \/ /\ o.kind = "renew" /\ o.month \in Months /\ v[1] \in Subscription /\ v[2] \subseteq DOMAIN invoices
       /\ r \in Workers /\ v[1].start = sub.start /\ PeriodEnd(sub) <= clock

TxsInv ==
    /\ \A r \in Procs : \A o \in {op[r]}, v \in {view[r]} :
          IF pc[r] = "idle" THEN o = Idle ELSE TxOK(r, o, v)
    /\ \A r, x \in Procs : op[r].kind = "renew" /\ op[x].kind = "renew" => r = x

\* A period that was rolled is over.
RenewalsInv == \A t \in 0..MaxClock : renewals[t] <= 1 /\ (t >= sub.start => renewals[t] = 0)

\* Numbers and announcements come together, and neither has a draft.
NoticesInv ==
    /\ \A i \in 1..MaxInvoices : i \notin DOMAIN invoices => notices[i] = 0
    /\ ~overtaken => \A i \in DOMAIN invoices :
          /\ notices[i] <= 1 /\ (notices[i] = 1 <=> invoices[i].number # NoNumber)
          /\ invoices[i].status = "draft" => invoices[i].number = NoNumber

\* Every invoice comes from a request or from a period that was rolled.
Drafting == {r \in Procs : op[r].kind = "draft"}
CountInv == IsFiniteSet(Drafting) /\ Len(invoices) + Cardinality(Drafting) <= requests + sub.start

IInv == RowsTyped /\ TxsTyped /\ TxsInv /\ RenewalsInv /\ NumbersUnique /\ NoticesInv /\ CountInv

----------------------------------------------------------------------------
(* The statuses, the calendar and the rows.                                *)

LEMMA StatusFacts ==
    /\ Statuses = {"draft", "open", "paid", "void", "uncollectible"}
    /\ "open" \in Transitions["draft"]
    /\ \A x \in Statuses : MayMove(x, "open") /\ x # "open" => x = "draft"
BY DEF Statuses, Transitions, MayMove

LEMMA BoundFacts ==
    /\ MaxClock \in Nat /\ MaxRequests \in Nat /\ MaxFailures \in Nat /\ MaxInvoices \in Nat
    /\ \A t \in 0..MaxClock : MonthOf[t] \in Months /\ MonthOf[t] \in Nat \ {0}
BY BoundAssumption DEF MaxInvoices, Months

LEMMA PricesAreInts == \A p \in Prices : p \in Int /\ p \in Nat
BY PriceAssumption

\* _next_number counts the numbers given; none of them is empty.
LEMMA NextNumberFacts ==
    ASSUME RowsTyped
    PROVE  NextNumber \in Nat \X Nat /\ NextNumber # NoNumber
<1> DEFINE S == {i \in DOMAIN invoices : invoices[i].number # NoNumber}
<1>1. Len(invoices) \in Nat /\ DOMAIN invoices = 1..Len(invoices)
  BY LenProperties DEF RowsTyped
<1>2. IsFiniteSet(1..Len(invoices)) /\ S \in SUBSET (1..Len(invoices))
  BY <1>1, FS_Interval
<1>3. IsFiniteSet(S)
  BY <1>2, FS_Subset
<1>4. Cardinality(S) \in Nat
  BY <1>3, FS_CardinalityType
<1>5. NextNumber = <<MonthOf[clock], Cardinality(S) + 1>>
  BY DEF NextNumber
<1>6. MonthOf[clock] \in Nat /\ MonthOf[clock] # 0
  BY BoundFacts DEF RowsTyped
<1> HIDE DEF S
<1> QED
  BY <1>4, <1>5, <1>6 DEF NoNumber

LEMMA InvoiceAt ==
    ASSUME RowsTyped, NEW i \in DOMAIN invoices
    PROVE  invoices[i] \in Invoice /\ i \in 1..Len(invoices) /\ Len(invoices) \in Nat
<1>1. Len(invoices) \in Nat /\ DOMAIN invoices = 1..Len(invoices)
  BY LenProperties DEF RowsTyped
<1> QED
  BY <1>1, ElementOfSeq DEF RowsTyped

\* finalize changes one invoice: its status and its number.
LEMMA FinalizedRows ==
    ASSUME RowsTyped, NEW i \in DOMAIN invoices
    PROVE  /\ Finalized(i) \in Seq(Invoice) /\ Len(Finalized(i)) = Len(invoices)
           /\ DOMAIN Finalized(i) = DOMAIN invoices
           /\ \A j \in DOMAIN invoices \ {i} : Finalized(i)[j] = invoices[j]
           /\ Finalized(i)[i].status = "open" /\ Finalized(i)[i].number = NextNumber
<1>1. PICK m : m = invoices[i]
  OBVIOUS
<1>2. m \in Invoice /\ i \in 1..Len(invoices) /\ Len(invoices) \in Nat /\ DOMAIN invoices = 1..Len(invoices)
  BY <1>1, InvoiceAt, LenProperties DEF RowsTyped
<1>3. PICK b : b = NextNumber /\ b \in Nat \X Nat
  BY NextNumberFacts
<1>4. PICK n : n = [m EXCEPT !.status = "open", !.number = b]
  OBVIOUS
<1>5. n \in Invoice /\ n.status = "open" /\ n.number = b
  BY <1>2, <1>3, <1>4, StatusFacts DEF Invoice
<1>6. Finalized(i) = [invoices EXCEPT ![i] = n]
  BY <1>1, <1>2, <1>3, <1>4 DEF Finalized
<1>7. [invoices EXCEPT ![i] = n] \in Seq(Invoice) /\ Len([invoices EXCEPT ![i] = n]) = Len(invoices)
  BY <1>2, <1>5, ExceptSeq DEF RowsTyped
<1> QED
  BY <1>2, <1>3, <1>5, <1>6, <1>7

\* record_payment and void change a status.
LEMMA MovedRows ==
    ASSUME RowsTyped, NEW i \in DOMAIN invoices, NEW x \in Statuses
    PROVE  /\ [invoices EXCEPT ![i].status = x] \in Seq(Invoice)
           /\ Len([invoices EXCEPT ![i].status = x]) = Len(invoices)
           /\ DOMAIN [invoices EXCEPT ![i].status = x] = DOMAIN invoices
           /\ \A j \in DOMAIN invoices \ {i} : [invoices EXCEPT ![i].status = x][j] = invoices[j]
           /\ [invoices EXCEPT ![i].status = x][i].status = x
           /\ [invoices EXCEPT ![i].status = x][i].number = invoices[i].number
<1>1. PICK m : m = invoices[i]
  OBVIOUS
<1>2. m \in Invoice /\ i \in 1..Len(invoices) /\ Len(invoices) \in Nat /\ DOMAIN invoices = 1..Len(invoices)
  BY <1>1, InvoiceAt, LenProperties DEF RowsTyped
<1>3. PICK n : n = [m EXCEPT !.status = x]
  OBVIOUS
<1>4. n \in Invoice /\ n.status = x /\ n.number = m.number
  BY <1>2, <1>3 DEF Invoice
<1>5. [invoices EXCEPT ![i].status = x] = [invoices EXCEPT ![i] = n]
  BY <1>1, <1>2, <1>3
<1>6. [invoices EXCEPT ![i] = n] \in Seq(Invoice) /\ Len([invoices EXCEPT ![i] = n]) = Len(invoices)
  BY <1>2, <1>4, ExceptSeq DEF RowsTyped
<1> QED
  BY <1>1, <1>2, <1>4, <1>5, <1>6

\* A draft has a line for the plan and the overage and a total that is not negative.
LEMMA DraftedRow ==
    ASSUME RowsTyped, NEW s \in Subscription, NEW m \in Months, NEW x \in Statuses, NEW b \in Nat \X Nat
    PROVE  /\ Drafted(s, m, x, b) \in Invoice
           /\ Drafted(s, m, x, b).status = x /\ Drafted(s, m, x, b).number = b
<1>1. s.price \in Prices /\ s.price \in Int /\ s.pending \in Int /\ over[m] \in 0..1
  BY PricesAreInts DEF Subscription, RowsTyped
<1>2. Subtotal(s, m) \in Int
  BY <1>1 DEF Subtotal
<1>3. PICK y : y = IF Subtotal(s, m) < 0 THEN 0 ELSE Subtotal(s, m)
  OBVIOUS
<1>4. y \in Nat
  BY <1>2, <1>3
<1>5. Drafted(s, m, x, b) = [month |-> m, status |-> x, number |-> b, plan |-> s.price, over |-> over[m], total |-> y]
  BY <1>3 DEF Drafted
<1> QED
  BY <1>1, <1>4, <1>5 DEF Invoice

LEMMA AppendedRows ==
    ASSUME RowsTyped, NEW n \in Invoice
    PROVE  /\ Append(invoices, n) \in Seq(Invoice) /\ Len(Append(invoices, n)) = Len(invoices) + 1
           /\ Len(invoices) \in Nat /\ DOMAIN invoices = 1..Len(invoices)
           /\ DOMAIN Append(invoices, n) = DOMAIN invoices \cup {Len(invoices) + 1}
           /\ Len(invoices) + 1 \notin DOMAIN invoices
           /\ \A i \in DOMAIN invoices : Append(invoices, n)[i] = invoices[i]
           /\ Append(invoices, n)[Len(invoices) + 1] = n
<1>1. Len(invoices) \in Nat /\ DOMAIN invoices = 1..Len(invoices)
  BY LenProperties DEF RowsTyped
<1>2. /\ Append(invoices, n) \in Seq(Invoice) /\ Len(Append(invoices, n)) = Len(invoices) + 1
      /\ \A i \in 1..Len(invoices) : Append(invoices, n)[i] = invoices[i]
      /\ Append(invoices, n)[Len(invoices) + 1] = n
  BY AppendProperties DEF RowsTyped
<1>3. DOMAIN Append(invoices, n) = 1..(Len(invoices) + 1)
  BY <1>2, LenProperties
<1> QED
  BY <1>1, <1>2, <1>3

\* The adjustments of the subscription are drained; its period stays.
LEMMA DrainedRow ==
    ASSUME RowsTyped, NEW s \in Subscription, NEW m \in Months
    PROVE  Drained(s, m) \in Subscription /\ Drained(s, m).start = sub.start
<1>1. s.price \in Int /\ s.pending \in Int /\ over[m] \in 0..1 /\ sub.pending \in Int
  BY PricesAreInts DEF Subscription, RowsTyped
<1>2. Carry(s, m) \in Int
  BY <1>1 DEF Carry, Subtotal
<1>3. PICK y \in Int : y = Written(s.pending, Carry(s, m), sub.pending)
  BY <1>1, <1>2 DEF Written
<1>4. Drained(s, m) = [sub EXCEPT !.pending = y]
  BY <1>3 DEF Drained
<1> QED
  BY <1>4 DEF RowsTyped, Subscription

----------------------------------------------------------------------------
(* Transactions begin.                                                     *)

LEMMA InvoicingInitial == Init => IInv
<1> SUFFICES ASSUME Init PROVE IInv
  OBVIOUS
<1>1. << >> \in Seq(Invoice) /\ Len(<< >>) = 0 /\ DOMAIN << >> = {}
  BY EmptySeq
<1>2. RowsTyped
  <2>1. PICK p \in Prices : sub = [start |-> 0, price |-> p, pending |-> 0]
    BY DEF Init
  <2>2. sub \in Subscription /\ sub.start = 0
    BY <2>1 DEF Subscription
  <2>3. clock \in 0..MaxClock /\ sub.start <= clock /\ adjusted \in Int /\ invoices \in Seq(Invoice)
    BY <1>1, <2>2, BoundFacts DEF Init
  <2>4. over \in [Months -> 0..1] /\ notices \in [1..MaxInvoices -> Nat] /\ renewals \in [0..MaxClock -> Nat]
    BY DEF Init
  <2> QED
    BY <2>2, <2>3, <2>4 DEF RowsTyped
<1>3. TxsTyped
  <2>1. /\ pc \in [Procs -> {"idle", "work"}]
        /\ DOMAIN op = Procs /\ op = [r \in Procs |-> op[r]]
        /\ DOMAIN view = Procs /\ view = [r \in Procs |-> view[r]]
    BY DEF Init
  <2>2. requests \in 0..MaxRequests /\ failures \in 0..MaxFailures
    BY BoundFacts DEF Init
  <2>3. overtaken \in BOOLEAN
    BY DEF Init
  <2> QED
    BY <2>1, <2>2, <2>3 DEF TxsTyped
<1>4. TxsInv
  BY DEF Init, TxsInv, Idle
<1>5. RenewalsInv
  BY BoundFacts DEF Init, RenewalsInv
<1>6. NumbersUnique /\ NoticesInv
  BY <1>1 DEF Init, NumbersUnique, NoticesInv
<1>7. CountInv
  <2>1. Drafting = {}
    BY DEF Init, Drafting, Idle
  <2>2. IsFiniteSet(Drafting) /\ Cardinality(Drafting) = 0
    BY <2>1, FS_EmptySet
  <2>3. sub.start = 0 /\ requests = 0 /\ Len(invoices) = 0
    BY <1>1 DEF Init
  <2> QED
    BY <2>2, <2>3 DEF CountInv
<1> QED
  BY <1>2, <1>3, <1>4, <1>5, <1>6, <1>7 DEF IInv

\* What a transaction loaded stays what it was; only the renewal job relies on a row
\* that others might change.
LEMMA TxKept ==
    ASSUME NEW r, NEW o, NEW v, TxOK(r, o, v), DOMAIN invoices \subseteq DOMAIN invoices',
           o.kind = "renew" => sub'.start = sub.start, clock \in Nat, clock' \in Nat, clock <= clock',
           sub.start \in Nat
    PROVE  TxOK(r, o, v)'
BY DEF TxOK, PeriodEnd

LEMMA CountTypes ==
    ASSUME IInv
    PROVE  /\ Len(invoices) \in Nat /\ DOMAIN invoices = 1..Len(invoices) /\ sub.start \in Nat /\ clock \in Nat
           /\ requests \in Nat /\ Cardinality(Drafting) \in Nat /\ IsFiniteSet(Drafting)
           /\ Len(invoices) + Cardinality(Drafting) <= requests + sub.start
           /\ sub.start <= clock /\ clock <= MaxClock /\ requests <= MaxRequests
<1>1. Len(invoices) \in Nat /\ DOMAIN invoices = 1..Len(invoices)
  BY LenProperties DEF IInv, RowsTyped
<1>2. sub.start \in Nat /\ clock \in Nat /\ requests \in Nat /\ clock <= MaxClock /\ requests <= MaxRequests
  BY BoundFacts DEF IInv, RowsTyped, TxsTyped, Subscription
<1> QED
  BY <1>1, <1>2, FS_CardinalityType DEF IInv, CountInv, RowsTyped

\* A transaction begins with what it loads.
LEMMA StartKeeps ==
    ASSUME IInv, NEW r \in Procs, NEW o, Start(r, o), TxOK(r, o, View(o)),
           o.kind = "renew" => \A x \in Procs : op[x].kind # "renew",
           requests' \in 0..MaxRequests, requests <= requests', o.kind = "draft" => requests' = requests + 1
    PROVE  IInv'
<1>1. /\ pc' = [pc EXCEPT ![r] = "work"] /\ op' = [op EXCEPT ![r] = o] /\ view' = [view EXCEPT ![r] = View(o)]
      /\ pc[r] = "idle"
      /\ UNCHANGED <<sub, invoices, notices, adjusted, renewals, clock, over, failures, overtaken>>
  BY DEF Start, books, world
<1>2. /\ pc'[r] = "work" /\ op'[r] = o /\ view'[r] = View(o)
      /\ \A x \in Procs \ {r} : pc'[x] = pc[x] /\ op'[x] = op[x] /\ view'[x] = view[x]
  BY <1>1 DEF IInv, TxsTyped
<1>3. RowsTyped' /\ RenewalsInv' /\ NumbersUnique' /\ NoticesInv'
  BY <1>1 DEF IInv, RowsTyped, RenewalsInv, NumbersUnique, NoticesInv
<1>4. TxsTyped'
  BY <1>1 DEF IInv, TxsTyped
<1>5. TxsInv'
  <2>1. ASSUME NEW x \in Procs, NEW p, NEW v, p = op'[x], v = view'[x]
        PROVE  IF pc'[x] = "idle" THEN p = Idle ELSE TxOK(x, p, v)'
    <3>1. CASE x = r
      <4>1. TxOK(r, p, v)
        BY <1>2, <2>1, <3>1
      <4>2. TxOK(r, p, v)'
        BY <1>1, <4>1, CountTypes, TxKept
      <4> QED
        BY <1>2, <3>1, <4>2
    <3>2. CASE x # r
      <4>1. IF pc[x] = "idle" THEN p = Idle ELSE TxOK(x, p, v)
        BY <1>2, <2>1, <3>2 DEF IInv, TxsInv
      <4>2. TxOK(x, p, v) => TxOK(x, p, v)'
        BY <1>1, CountTypes, TxKept
      <4> QED
        BY <1>2, <3>2, <4>1, <4>2
    <3> QED
      BY <3>1, <3>2
  <2>2. ASSUME NEW x \in Procs, NEW y \in Procs, op'[x].kind = "renew", op'[y].kind = "renew"
        PROVE  x = y
    BY <1>2, <2>2 DEF IInv, TxsInv
  <2> QED
    BY <2>1, <2>2 DEF TxsInv
<1>6. CountInv'
  <2>1. Len(invoices') = Len(invoices) /\ sub'.start = sub.start
    BY <1>1
  <2>2. CASE o.kind = "draft"
    <3>1. Drafting' = Drafting \cup {r} /\ r \notin Drafting
      BY <1>1, <1>2, <2>2 DEF Drafting, Idle, IInv, TxsInv
    <3>2. IsFiniteSet(Drafting') /\ Cardinality(Drafting') = Cardinality(Drafting) + 1
      BY <3>1, CountTypes, FS_AddElement
    <3> QED
      BY <2>1, <2>2, <3>2, CountTypes DEF CountInv
  <2>3. CASE o.kind # "draft"
    <3>1. Drafting' = Drafting
      BY <1>1, <1>2, <2>3 DEF Drafting, Idle, IInv, TxsInv
    <3> QED
      BY <2>1, <3>1, CountTypes DEF CountInv
  <2> QED
    BY <2>2, <2>3
<1> QED
  BY <1>3, <1>4, <1>5, <1>6 DEF IInv

LEMMA RequestKeeps ==
    ASSUME IInv, NEW c \in Clients, Request(c)
    PROVE  IInv'
<1>1. requests' = requests + 1 /\ requests' \in 0..MaxRequests /\ requests <= requests' /\ c \in Procs
  BY BoundFacts DEF Request, IInv, TxsTyped, Procs
<1>2. ASSUME NEW m \in {MonthOf[t] : t \in 0..clock}, NEW o, o = [kind |-> "draft", month |-> m], GoesOn(o), Start(c, o)
      PROVE  IInv'
  <2>1. o.kind = "draft" /\ o.month = m /\ m \in Months
    <3>1. \A t \in 0..clock : t \in 0..MaxClock
      BY CountTypes, BoundFacts
    <3> QED
      BY <1>2, <3>1 DEF Months
  <2>2. View(o) = <<sub, DraftsOf(m)>> /\ DraftsOf(m) = {}
    BY <1>2, <2>1 DEF View, GoesOn
  <2>3. TxOK(c, o, View(o))
    BY <2>1, <2>2 DEF TxOK, IInv, RowsTyped
  <2> QED
    BY <1>1, <1>2, <2>1, <2>3, StartKeeps
<1>3. ASSUME NEW i \in DOMAIN invoices, NEW k \in {"finalize", "pay", "void"}, NEW o, o = [kind |-> k, inv |-> i],
             GoesOn(o), Start(c, o)
      PROVE  IInv'
  <2>1. o.kind = k /\ o.inv = i
    BY <1>3
  <2>2. View(o) = <<invoices[i].status>>
    BY <2>1 DEF View
  <2>3. invoices[i].status \in Statuses
    BY InvoiceAt DEF IInv, Invoice
  <2>4. CASE k = "finalize"
    <3>1. MayMove(invoices[i].status, "open") /\ invoices[i].status # "open"
      BY <1>3, <2>1, <2>4 DEF GoesOn, AlreadyOpen
    <3>2. invoices[i].status = "draft"
      BY <2>3, <3>1, StatusFacts
    <3> QED
      BY <2>1, <2>2, <2>4, <3>2, <1>1, <1>3, StartKeeps DEF TxOK
  <2>5. CASE k = "pay"
    <3>1. MayMove(invoices[i].status, "paid")
      BY <1>3, <2>1, <2>5 DEF GoesOn
    <3>2. TxOK(c, o, View(o))
      BY <2>1, <2>2, <2>3, <2>5, <3>1 DEF TxOK
    <3> QED
      BY <2>1, <2>5, <3>2, <1>1, <1>3, StartKeeps
  <2>6. CASE k = "void"
    <3>1. MayMove(invoices[i].status, "void")
      BY <1>3, <2>1, <2>6 DEF GoesOn
    <3>2. TxOK(c, o, View(o))
      BY <2>1, <2>2, <2>3, <2>6, <3>1 DEF TxOK
    <3> QED
      BY <2>1, <2>6, <3>2, <1>1, <1>3, StartKeeps
  <2> QED
    BY <2>4, <2>5, <2>6
<1>4. ASSUME NEW p \in Prices, NEW o, o = [kind |-> "change", price |-> p], Start(c, o)
      PROVE  IInv'
  <2>1. o.kind = "change" /\ o.price = p
    BY <1>4
  <2>2. View(o) = <<sub>>
    BY <2>1 DEF View
  <2>3. TxOK(c, o, View(o))
    BY <2>1, <2>2 DEF TxOK, IInv, RowsTyped
  <2> QED
    BY <1>1, <1>4, <2>1, <2>3, StartKeeps
<1> QED
  BY <1>2, <1>3, <1>4 DEF Request

\* The lock: whoever else renews would have to be at work.
LEMMA RenewersWork ==
    ASSUME IInv, NEW x \in Procs, op[x].kind = "renew"
    PROVE  pc[x] = "work" /\ x \in Workers
<1>1. PICK o, v : o = op[x] /\ v = view[x]
  OBVIOUS
<1>2. IF pc[x] = "idle" THEN o = Idle ELSE TxOK(x, o, v)
  BY <1>1 DEF IInv, TxsInv
<1> QED
  BY <1>1, <1>2 DEF Idle, TxOK, IInv, TxsTyped

LEMMA ClaimKeeps ==
    ASSUME IInv, NEW w \in Workers, Claim(w)
    PROVE  IInv'
<1>1. PICK o : o = [kind |-> "renew", month |-> MonthOf[sub.start]]
  OBVIOUS
<1>2. Due /\ RowFree /\ Start(w, o) /\ requests' = requests /\ w \in Procs
  BY <1>1 DEF Claim, Procs
<1>3. o.kind = "renew" /\ o.month \in Months
  BY <1>1, BoundFacts, CountTypes
<1>4. View(o) = <<sub, DraftsOf(o.month)>> /\ DraftsOf(o.month) \subseteq DOMAIN invoices
  BY <1>3 DEF View, DraftsOf
<1>5. TxOK(w, o, View(o))
  BY <1>2, <1>3, <1>4 DEF TxOK, IInv, RowsTyped, Due
<1>6. \A x \in Procs : op[x].kind # "renew"
  BY <1>2, RenewersWork DEF RowFree
<1>7. requests' \in 0..MaxRequests /\ requests <= requests'
  BY <1>2, CountTypes DEF IInv, TxsTyped
<1> QED
  BY <1>2, <1>3, <1>5, <1>6, <1>7, StartKeeps

----------------------------------------------------------------------------
(* Transactions end.                                                       *)

Leaves(r) ==
    /\ pc' = [pc EXCEPT ![r] = "idle"] /\ op' = [op EXCEPT ![r] = Idle] /\ view' = [view EXCEPT ![r] = <<>>]
    /\ UNCHANGED <<clock, over, requests>>

\* One transaction fewer; the others keep what they rely on, unless the period moves
\* under a renewal, which the lock excludes.
LEMMA LeavesKeeps ==
    ASSUME IInv, NEW r \in Procs, pc[r] = "work", Leaves(r), overtaken' \in BOOLEAN, failures' \in 0..MaxFailures,
           DOMAIN invoices \subseteq DOMAIN invoices',
           sub'.start = sub.start \/ \A x \in Procs \ {r} : op[x].kind # "renew"
    PROVE  /\ TxsTyped' /\ TxsInv'
           /\ IsFiniteSet(Drafting') /\ Cardinality(Drafting') \in Nat
           /\ Cardinality(Drafting') <= Cardinality(Drafting)
           /\ op[r].kind = "draft" => Cardinality(Drafting') + 1 = Cardinality(Drafting)
<1>1. /\ pc'[r] = "idle" /\ op'[r] = Idle
      /\ \A x \in Procs \ {r} : pc'[x] = pc[x] /\ op'[x] = op[x] /\ view'[x] = view[x]
  BY DEF IInv, TxsTyped, Leaves
<1>2. TxsTyped'
  BY DEF IInv, TxsTyped, Leaves
<1>3. ASSUME NEW x \in Procs, NEW p, NEW v, p = op'[x], v = view'[x]
      PROVE  IF pc'[x] = "idle" THEN p = Idle ELSE TxOK(x, p, v)'
  <2>1. CASE x = r
    BY <1>1, <1>3, <2>1
  <2>2. CASE x # r
    <3>1. IF pc[x] = "idle" THEN p = Idle ELSE TxOK(x, p, v)
      BY <1>1, <1>3, <2>2 DEF IInv, TxsInv
    <3>2. p.kind = "renew" => sub'.start = sub.start
      BY <1>1, <1>3, <2>2
    <3>3. clock \in Nat /\ clock' \in Nat /\ clock <= clock' /\ sub.start \in Nat
      BY CountTypes DEF Leaves
    <3>4. TxOK(x, p, v) => TxOK(x, p, v)'
      BY <3>2, <3>3, TxKept
    <3> QED
      BY <1>1, <2>2, <3>1, <3>4
  <2> QED
    BY <2>1, <2>2
<1>4. ASSUME NEW x \in Procs, NEW y \in Procs, op'[x].kind = "renew", op'[y].kind = "renew"
      PROVE  x = y
  BY <1>1, <1>4 DEF IInv, TxsInv, Idle
<1>5. TxsInv'
  BY <1>3, <1>4 DEF TxsInv
<1>6. Drafting' = Drafting \ {r}
  BY <1>1 DEF Drafting, Idle
<1>7. /\ IsFiniteSet(Drafting \ {r})
      /\ Cardinality(Drafting \ {r}) = IF r \in Drafting THEN Cardinality(Drafting) - 1 ELSE Cardinality(Drafting)
  BY CountTypes, FS_RemoveElement
<1>8. r \in Drafting <=> op[r].kind = "draft"
  BY DEF Drafting
<1>9. Cardinality(Drafting') \in Nat
  BY <1>6, <1>7, FS_CardinalityType
<1> QED
  BY <1>2, <1>5, <1>6, <1>7, <1>8, <1>9, CountTypes

LEMMA FailKeeps ==
    ASSUME IInv, NEW r \in Procs, Fail(r)
    PROVE  IInv'
<1>1. /\ pc[r] = "work" /\ Leaves(r)
      /\ UNCHANGED <<sub, invoices, notices, adjusted, renewals, overtaken>>
      /\ failures' \in 0..MaxFailures
  BY BoundFacts DEF Fail, Leaves, books, world, IInv, TxsTyped
<1>2. RowsTyped' /\ RenewalsInv' /\ NumbersUnique' /\ NoticesInv'
  BY <1>1 DEF Leaves, IInv, RowsTyped, RenewalsInv, NumbersUnique, NoticesInv
<1>3. overtaken' \in BOOLEAN
  BY <1>1 DEF IInv, TxsTyped
<1>4. /\ TxsTyped' /\ TxsInv'
      /\ IsFiniteSet(Drafting') /\ Cardinality(Drafting') \in Nat
      /\ Cardinality(Drafting') <= Cardinality(Drafting)
  BY <1>1, <1>3, LeavesKeeps
<1>5. CountInv'
  <2>1. Len(invoices') = Len(invoices) /\ sub'.start = sub.start /\ requests' = requests
    BY <1>1 DEF Leaves
  <2> QED
    BY <1>4, <2>1, CountTypes DEF CountInv
<1> QED
  BY <1>2, <1>4, <1>5 DEF IInv

LEMMA EndLeaves ==
    ASSUME IInv, NEW r \in Procs, End(r)
    PROVE  /\ Leaves(r) /\ failures' \in 0..MaxFailures /\ overtaken' \in BOOLEAN
           /\ ~overtaken' => ~overtaken /\ view[r] = View(op[r])
<1>1. Leaves(r) /\ failures' \in 0..MaxFailures
  BY DEF End, Leaves, world, IInv, TxsTyped
<1>2. overtaken' = (overtaken \/ view[r] # View(op[r]))
  BY DEF End
<1>3. overtaken' \in BOOLEAN
  BY <1>2
<1> QED
  BY <1>1, <1>2, <1>3

LEMMA AtWork ==
    ASSUME IInv, NEW r \in Procs, pc[r] = "work"
    PROVE  TxOK(r, op[r], view[r])
BY DEF IInv, TxsInv

\* An invoice is finalized by i's number: unique, and announced with it.
LEMMA FinalizedKeeps ==
    ASSUME IInv, NEW i \in DOMAIN invoices, NumberFree(i), invoices' = Finalized(i),
           notices' = [notices EXCEPT ![i] = @ + 1], overtaken' \in BOOLEAN,
           ~overtaken' => ~overtaken /\ invoices[i].status = "draft"
    PROVE  /\ invoices' \in Seq(Invoice) /\ DOMAIN invoices' = DOMAIN invoices /\ Len(invoices') = Len(invoices)
           /\ notices' \in [1..MaxInvoices -> Nat] /\ NumbersUnique' /\ NoticesInv'
<1>1. /\ invoices' \in Seq(Invoice) /\ DOMAIN invoices' = DOMAIN invoices /\ Len(invoices') = Len(invoices)
      /\ \A j \in DOMAIN invoices \ {i} : invoices'[j] = invoices[j]
      /\ invoices'[i].status = "open" /\ invoices'[i].number = NextNumber
  BY FinalizedRows DEF IInv
<1>2. i \in 1..MaxInvoices
  BY CountTypes, BoundFacts DEF MaxInvoices
<1>3. /\ notices' \in [1..MaxInvoices -> Nat] /\ notices'[i] = notices[i] + 1
      /\ \A j \in 1..MaxInvoices \ {i} : notices'[j] = notices[j]
  BY <1>2 DEF IInv, RowsTyped
<1>4. NumbersUnique'
  BY <1>1 DEF IInv, NumbersUnique, NumberFree
<1>5. NoticesInv'
  <2>1. \A j \in 1..MaxInvoices : j \notin DOMAIN invoices' => notices'[j] = 0
    BY <1>1, <1>3 DEF IInv, NoticesInv
  <2>2. ASSUME ~overtaken', NEW j \in DOMAIN invoices'
        PROVE  /\ notices'[j] <= 1 /\ (notices'[j] = 1 <=> invoices'[j].number # NoNumber)
               /\ invoices'[j].status = "draft" => invoices'[j].number = NoNumber
    <3>1. j \in 1..MaxInvoices /\ j \in DOMAIN invoices
      BY <1>1, <2>2, CountTypes, BoundFacts DEF MaxInvoices
    <3>2. CASE j = i
      <4>1. notices[i] <= 1 /\ notices[i] # 1 /\ notices[i] \in Nat
        BY <1>2, <2>2 DEF IInv, NoticesInv, RowsTyped
      <4>2. notices'[i] = 1
        BY <1>3, <4>1
      <4>3. NextNumber # NoNumber
        BY NextNumberFacts DEF IInv
      <4> QED
        BY <1>1, <3>2, <4>2, <4>3
    <3>3. CASE j # i
      BY <1>1, <1>3, <2>2, <3>1, <3>3 DEF IInv, NoticesInv
    <3> QED
      BY <3>2, <3>3
  <2> QED
    BY <2>1, <2>2 DEF NoticesInv
<1> QED
  BY <1>1, <1>3, <1>4, <1>5

LEMMA FinalizeKeeps ==
    ASSUME IInv, NEW r \in Procs, pc[r] = "work", End(r), Finalize(r)
    PROVE  IInv'
<1>1. /\ Leaves(r) /\ failures' \in 0..MaxFailures /\ overtaken' \in BOOLEAN
      /\ ~overtaken' => ~overtaken /\ view[r] = View(op[r])
  BY EndLeaves
<1>2. PICK o, v : o = op[r] /\ v = view[r]
  OBVIOUS
<1>3. /\ o.kind = "finalize" /\ NumberFree(o.inv) /\ invoices' = Finalized(o.inv)
      /\ notices' = [notices EXCEPT ![o.inv] = @ + 1] /\ UNCHANGED <<sub, adjusted, renewals>>
  BY <1>2 DEF Finalize
<1>4. o.inv \in DOMAIN invoices /\ v = <<"draft">>
  BY <1>2, <1>3, AtWork DEF TxOK
<1>5. ~overtaken' => ~overtaken /\ invoices[o.inv].status = "draft"
  <2>1. View(o) = <<invoices[o.inv].status>>
    BY <1>3 DEF View
  <2> QED
    BY <1>1, <1>2, <1>4, <2>1
<1>6. /\ invoices' \in Seq(Invoice) /\ DOMAIN invoices' = DOMAIN invoices /\ Len(invoices') = Len(invoices)
      /\ notices' \in [1..MaxInvoices -> Nat] /\ NumbersUnique' /\ NoticesInv'
  BY <1>1, <1>3, <1>4, <1>5, FinalizedKeeps
<1>7. RowsTyped' /\ RenewalsInv'
  BY <1>1, <1>3, <1>6 DEF Leaves, IInv, RowsTyped, RenewalsInv
<1>8. /\ TxsTyped' /\ TxsInv' /\ IsFiniteSet(Drafting') /\ Cardinality(Drafting') \in Nat
      /\ Cardinality(Drafting') <= Cardinality(Drafting)
  BY <1>1, <1>3, <1>6, LeavesKeeps
<1>9. CountInv'
  <2>1. sub'.start = sub.start /\ requests' = requests
    BY <1>1, <1>3 DEF Leaves
  <2> QED
    BY <1>6, <1>8, <2>1, CountTypes DEF CountInv
<1> QED
  BY <1>6, <1>7, <1>8, <1>9 DEF IInv

\* What a transaction that writes and commits has to show for the rows it writes.
LEMMA EndKeeps ==
    ASSUME IInv, NEW r \in Procs, pc[r] = "work", End(r),
           sub' \in Subscription, sub.start <= sub'.start, sub'.start <= clock,
           sub'.start = sub.start \/ \A x \in Procs \ {r} : op[x].kind # "renew",
           invoices' \in Seq(Invoice), DOMAIN invoices \subseteq DOMAIN invoices',
           \/ Len(invoices') + sub.start <= Len(invoices) + sub'.start
           \/ op[r].kind = "draft" /\ Len(invoices') = Len(invoices) + 1,
           notices' \in [1..MaxInvoices -> Nat], renewals' \in [0..MaxClock -> Nat], adjusted' \in Int,
           RenewalsInv', NumbersUnique', NoticesInv'
    PROVE  IInv'
<1>1. Leaves(r) /\ failures' \in 0..MaxFailures /\ overtaken' \in BOOLEAN
  BY EndLeaves
<1>2. RowsTyped'
  BY <1>1 DEF Leaves, IInv, RowsTyped
<1>3. /\ TxsTyped' /\ TxsInv' /\ IsFiniteSet(Drafting') /\ Cardinality(Drafting') \in Nat
      /\ Cardinality(Drafting') <= Cardinality(Drafting)
      /\ op[r].kind = "draft" => Cardinality(Drafting') + 1 = Cardinality(Drafting)
  BY <1>1, LeavesKeeps
<1>4. CountInv'
  <2>1. requests' = requests /\ sub'.start \in Nat /\ Len(invoices') \in Nat
    BY <1>1, LenProperties DEF Leaves, Subscription
  <2>2. PICK l \in Nat, k \in Nat, a \in Nat, b \in Nat, c \in Nat, d \in Nat, n \in Nat :
          /\ l = Len(invoices) /\ k = Len(invoices') /\ a = sub.start /\ b = sub'.start
          /\ c = Cardinality(Drafting) /\ d = Cardinality(Drafting') /\ n = requests
          /\ l + c <= n + a
    BY <1>3, <2>1, CountTypes
  <2>3. a <= b /\ d <= c
    BY <1>3, <2>2
  <2>4. k + a <= l + b \/ (k = l + 1 /\ d + 1 = c)
    <3>1. CASE Len(invoices') + sub.start <= Len(invoices) + sub'.start
      BY <2>2, <3>1
    <3>2. CASE op[r].kind = "draft" /\ Len(invoices') = Len(invoices) + 1
      <4>1. Cardinality(Drafting') + 1 = Cardinality(Drafting)
        BY <1>3, <3>2
      <4> QED
        BY <2>2, <3>2, <4>1
    <3> QED
      BY <3>1, <3>2
  <2>5. k + d <= n + b
    <3>1. l + c <= n + a
      BY <2>2
    <3>2. CASE k + a <= l + b
      BY <2>3, <3>1, <3>2
    <3>3. CASE k = l + 1 /\ d + 1 = c
      BY <2>3, <3>1, <3>3
    <3> QED
      BY <2>4, <3>2, <3>3
  <2> QED
    BY <1>3, <2>1, <2>2, <2>5 DEF CountInv
<1> QED
  BY <1>2, <1>3, <1>4 DEF IInv

LEMMA DraftKeeps ==
    ASSUME IInv, NEW r \in Procs, pc[r] = "work", End(r), Draft(r)
    PROVE  IInv'
<1>1. overtaken' \in BOOLEAN /\ (~overtaken' => ~overtaken)
  BY EndLeaves
<1>2. PICK o, v : o = op[r] /\ v = view[r]
  OBVIOUS
<1>3. /\ o.kind = "draft" /\ invoices' = Append(invoices, Drafted(v[1], o.month, "draft", NoNumber))
      /\ sub' = Drained(v[1], o.month) /\ UNCHANGED <<notices, adjusted, renewals>>
  BY <1>2 DEF Draft
<1>4. o.month \in Months /\ v[1] \in Subscription
  BY <1>2, <1>3, AtWork DEF TxOK
<1>5. PICK n : n = Drafted(v[1], o.month, "draft", NoNumber)
  OBVIOUS
<1>6. n \in Invoice /\ n.status = "draft" /\ n.number = NoNumber
  <2>1. "draft" \in Statuses /\ NoNumber \in Nat \X Nat
    BY StatusFacts DEF NoNumber
  <2> QED
    BY <1>4, <1>5, <2>1, DraftedRow DEF IInv
<1>7. PICK k : k = Len(invoices) + 1
  OBVIOUS
<1>8. /\ invoices' \in Seq(Invoice) /\ Len(invoices') = Len(invoices) + 1
      /\ DOMAIN invoices' = DOMAIN invoices \cup {k} /\ k \notin DOMAIN invoices
      /\ \A i \in DOMAIN invoices : invoices'[i] = invoices[i]
      /\ invoices'[k] = n
  BY <1>3, <1>5, <1>6, <1>7, AppendedRows DEF IInv
<1>9. sub' \in Subscription /\ sub'.start = sub.start
  BY <1>3, <1>4, DrainedRow DEF IInv
<1>10. RenewalsInv'
  BY <1>3, <1>9 DEF IInv, RenewalsInv
<1>11. NumbersUnique'
  BY <1>6, <1>8 DEF IInv, NumbersUnique
<1>12. NoticesInv'
  <2>1. \A j \in 1..MaxInvoices : j \notin DOMAIN invoices' => notices'[j] = 0
    BY <1>3, <1>8 DEF IInv, NoticesInv
  <2>2. k \in 1..MaxInvoices
    <3>1. op[r].kind = "draft" /\ r \in Drafting
      BY <1>2, <1>3 DEF Drafting
    <3>2. Cardinality(Drafting) # 0
      BY <3>1, CountTypes, FS_EmptySet
    <3> QED
      BY <1>7, <3>2, CountTypes, BoundFacts DEF MaxInvoices
  <2>3. notices[k] = 0
    BY <1>8, <2>2 DEF IInv, NoticesInv
  <2>4. ASSUME ~overtaken', NEW j \in DOMAIN invoices'
        PROVE  /\ notices'[j] <= 1 /\ (notices'[j] = 1 <=> invoices'[j].number # NoNumber)
               /\ invoices'[j].status = "draft" => invoices'[j].number = NoNumber
    <3>1. CASE j = k
      BY <1>3, <1>6, <1>8, <2>3, <3>1
    <3>2. CASE j # k
      BY <1>1, <1>3, <1>8, <2>4, <3>2 DEF IInv, NoticesInv
    <3> QED
      BY <3>1, <3>2
  <2> QED
    BY <2>1, <2>4 DEF NoticesInv
<1>13. /\ sub.start <= sub'.start /\ sub'.start <= clock
       /\ notices' \in [1..MaxInvoices -> Nat] /\ renewals' \in [0..MaxClock -> Nat] /\ adjusted' \in Int
  BY <1>3, <1>9, CountTypes DEF IInv, RowsTyped
<1> QED
  BY <1>2, <1>3, <1>8, <1>9, <1>10, <1>11, <1>12, <1>13, EndKeeps

\* Paying and voiding keep numbers and announcements, and make no draft.
LEMMA MoveKeeps ==
    ASSUME IInv, NEW r \in Procs, pc[r] = "work", End(r), NEW k, NEW x \in Statuses \ {"draft"}, k \in {"pay", "void"},
           Move(r, k, x)
    PROVE  IInv'
<1>1. overtaken' \in BOOLEAN /\ (~overtaken' => ~overtaken)
  BY EndLeaves
<1>2. PICK o, v : o = op[r] /\ v = view[r]
  OBVIOUS
<1>3. /\ o.kind = k /\ UNCHANGED <<sub, notices, adjusted, renewals>>
      /\ invoices' = [invoices EXCEPT ![o.inv].status = Written(v[1], x, @)]
  BY <1>2 DEF Move
<1>4. o.inv \in DOMAIN invoices
  BY <1>2, <1>3, AtWork DEF TxOK
<1>5. PICK i : i = o.inv
  OBVIOUS
<1>6. PICK y : y = Written(v[1], x, invoices[i].status)
  OBVIOUS
<1>7. y \in Statuses /\ (y = "draft" => invoices[i].status = "draft")
  <2>1. invoices[i].status \in Statuses
    BY <1>4, <1>5, InvoiceAt DEF IInv, Invoice
  <2> QED
    BY <1>6, <2>1 DEF Written
<1>8. invoices' = [invoices EXCEPT ![i].status = y]
  BY <1>3, <1>5, <1>6
<1>9. /\ invoices' \in Seq(Invoice) /\ Len(invoices') = Len(invoices) /\ DOMAIN invoices' = DOMAIN invoices
      /\ \A j \in DOMAIN invoices \ {i} : invoices'[j] = invoices[j]
      /\ invoices'[i].status = y /\ invoices'[i].number = invoices[i].number
  BY <1>4, <1>5, <1>7, <1>8, MovedRows DEF IInv
<1>10. /\ \A j \in DOMAIN invoices : invoices'[j].number = invoices[j].number
       /\ \A j \in DOMAIN invoices : invoices'[j].status = "draft" => invoices[j].status = "draft"
  BY <1>7, <1>9
<1>11. RenewalsInv'
  BY <1>3 DEF IInv, RenewalsInv
<1>12. NumbersUnique'
  BY <1>9, <1>10 DEF IInv, NumbersUnique
<1>13. NoticesInv'
  BY <1>1, <1>3, <1>9, <1>10 DEF IInv, NoticesInv
<1>14. /\ sub' \in Subscription /\ sub'.start = sub.start /\ sub.start <= sub'.start /\ sub'.start <= clock
       /\ notices' \in [1..MaxInvoices -> Nat] /\ renewals' \in [0..MaxClock -> Nat] /\ adjusted' \in Int
  BY <1>3, CountTypes DEF IInv, RowsTyped
<1>15. Len(invoices') + sub.start <= Len(invoices) + sub'.start
  BY <1>9, <1>14, CountTypes
<1> QED
  BY <1>9, <1>11, <1>12, <1>13, <1>14, <1>15, EndKeeps

LEMMA ChangePlanKeeps ==
    ASSUME IInv, NEW r \in Procs, pc[r] = "work", End(r), ChangePlan(r)
    PROVE  IInv'
<1>1. overtaken' \in BOOLEAN /\ (~overtaken' => ~overtaken)
  BY EndLeaves
<1>2. PICK o, v, s : o = op[r] /\ v = view[r] /\ s = v[1]
  OBVIOUS
<1>3. PICK adj : adj = IF PeriodEnd(s) > clock THEN ((s.price - o.price) * (clock - s.start)) \div 2 ELSE 0
  OBVIOUS
<1>4. /\ o.kind = "change" /\ RowFree
      /\ sub' = [start   |-> IF PeriodEnd(s) > clock THEN sub.start ELSE clock,
                 price   |-> Written(s.price, o.price, sub.price),
                 pending |-> Written(s.pending, s.pending + adj, sub.pending)]
      /\ adjusted' = adjusted + adj
      /\ UNCHANGED <<invoices, notices, renewals>>
  BY <1>2, <1>3 DEF ChangePlan
<1>5. o.price \in Prices /\ s \in Subscription
  BY <1>2, <1>4, AtWork DEF TxOK
<1>6. s.price \in Int /\ o.price \in Int /\ s.start \in Int /\ s.pending \in Int /\ clock \in Int
  BY <1>5, PricesAreInts, CountTypes DEF Subscription
<1>7. adj \in Int
  <2>1. PICK z \in Int : z = (s.price - o.price) * (clock - s.start)
    BY <1>6
  <2>2. z \div 2 \in Int
    BY <2>1
  <2> QED
    BY <1>3, <2>1, <2>2
<1>8. sub.price \in Prices /\ sub.pending \in Int /\ sub.start \in Nat /\ sub.start <= clock
  BY CountTypes DEF IInv, RowsTyped, Subscription
<1>9. PICK a, b, d : /\ a = IF PeriodEnd(s) > clock THEN sub.start ELSE clock
                     /\ b = Written(s.price, o.price, sub.price)
                     /\ d = Written(s.pending, s.pending + adj, sub.pending)
  OBVIOUS
<1>10. a \in Nat /\ sub.start <= a /\ a <= clock
  BY <1>8, <1>9, CountTypes
<1>11. b \in Prices
  BY <1>5, <1>8, <1>9 DEF Written
<1>12. d \in Int
  BY <1>6, <1>7, <1>8, <1>9 DEF Written
<1>13. sub' = [start |-> a, price |-> b, pending |-> d]
  BY <1>4, <1>9
<1>14. sub' \in Subscription /\ sub'.start = a
  BY <1>10, <1>11, <1>12, <1>13 DEF Subscription
<1>15. \A x \in Procs \ {r} : op[x].kind # "renew"
  BY <1>4, RenewersWork DEF RowFree
<1>16. RenewalsInv'
  <2>1. \A t \in 0..MaxClock : t >= a => t >= sub.start
    BY <1>8, <1>10, BoundFacts
  <2> QED
    BY <1>4, <1>14, <2>1 DEF IInv, RenewalsInv
<1>17. NumbersUnique' /\ NoticesInv'
  BY <1>1, <1>4 DEF IInv, NumbersUnique, NoticesInv
<1>18. /\ invoices' \in Seq(Invoice) /\ DOMAIN invoices \subseteq DOMAIN invoices'
       /\ notices' \in [1..MaxInvoices -> Nat] /\ renewals' \in [0..MaxClock -> Nat]
  BY <1>4 DEF IInv, RowsTyped
<1>19. adjusted' \in Int
  BY <1>4, <1>7 DEF IInv, RowsTyped
<1>20. sub.start <= sub'.start /\ sub'.start <= clock /\ Len(invoices') + sub.start <= Len(invoices) + sub'.start
  BY <1>4, <1>10, <1>14, CountTypes
<1> QED
  BY <1>14, <1>15, <1>16, <1>17, <1>18, <1>19, <1>20, EndKeeps

----------------------------------------------------------------------------
(* The renewal job.                                                        *)

\* The period a renewal rolls has not been rolled before, and will not be again.
LEMMA RollKeeps ==
    ASSUME IInv, NEW w \in Procs, pc[w] = "work", op[w].kind = "renew", RollForward(w),
           sub'.start = sub.start + 2
    PROVE  /\ renewals' \in [0..MaxClock -> Nat] /\ RenewalsInv' /\ sub'.start \in Nat
           /\ sub.start <= sub'.start /\ sub'.start <= clock
           /\ \A x \in Procs \ {w} : op[x].kind # "renew"
<1>1. view[w][1].start = sub.start /\ PeriodEnd(sub) <= clock
  BY AtWork DEF TxOK
<1>2. /\ sub.start \in 0..MaxClock /\ sub'.start \in Nat
      /\ sub.start <= sub'.start /\ sub'.start <= clock
  BY <1>1, CountTypes, BoundFacts DEF PeriodEnd
<1>3. renewals' = [renewals EXCEPT ![sub.start] = @ + 1]
  BY <1>1 DEF RollForward
<1>4. renewals[sub.start] = 0
  BY <1>2, CountTypes DEF IInv, RenewalsInv
<1>5. /\ renewals' \in [0..MaxClock -> Nat] /\ renewals'[sub.start] = 1
      /\ \A t \in 0..MaxClock \ {sub.start} : renewals'[t] = renewals[t]
  BY <1>2, <1>3, <1>4 DEF IInv, RowsTyped
<1>6. ASSUME NEW t \in 0..MaxClock
      PROVE  renewals'[t] <= 1 /\ (t >= sub'.start => renewals'[t] = 0)
  <2>1. CASE t = sub.start
    BY <1>2, <1>5, <2>1, CountTypes
  <2>2. CASE t # sub.start
    <3>1. renewals[t] <= 1 /\ (t >= sub.start => renewals[t] = 0)
      BY DEF IInv, RenewalsInv
    <3>2. t >= sub'.start => t >= sub.start
      BY <1>2, CountTypes, BoundFacts
    <3>3. renewals'[t] = renewals[t]
      BY <1>5, <2>2
    <3> QED
      BY <3>1, <3>2, <3>3
  <2> QED
    BY <2>1, <2>2
<1>7. \A x \in Procs \ {w} : op[x].kind # "renew"
  BY DEF IInv, TxsInv
<1> QED
  BY <1>2, <1>5, <1>6, <1>7 DEF RenewalsInv

LEMMA RolledRow ==
    ASSUME NEW s \in Subscription
    PROVE  Rolled(s) \in Subscription /\ Rolled(s).start = s.start + 2
BY DEF Rolled, PeriodEnd, Subscription

LEMMA RenewDraftKeeps ==
    ASSUME IInv, NEW r \in Procs, pc[r] = "work", End(r), RenewDraft(r)
    PROVE  IInv'
<1>1. overtaken' \in BOOLEAN /\ (~overtaken' => ~overtaken)
  BY EndLeaves
<1>2. PICK o, v, k : o = op[r] /\ v = view[r] /\ k = Len(invoices) + 1
  OBVIOUS
<1>3. /\ o.kind = "renew" /\ NumberFree(k) /\ adjusted' = adjusted
      /\ invoices' = Append(invoices, Drafted(v[1], o.month, "open", NextNumber))
      /\ notices' = [notices EXCEPT ![k] = @ + 1]
      /\ sub' = Rolled(Drained(v[1], o.month))
      /\ RollForward(r)
  BY <1>2 DEF RenewDraft
<1>4. o.month \in Months /\ v[1] \in Subscription
  BY <1>2, <1>3, AtWork DEF TxOK
<1>5. PICK n : n = Drafted(v[1], o.month, "open", NextNumber)
  OBVIOUS
<1>6. n \in Invoice /\ n.status = "open" /\ n.number = NextNumber /\ NextNumber # NoNumber
  <2>1. "open" \in Statuses /\ NextNumber \in Nat \X Nat /\ NextNumber # NoNumber
    BY StatusFacts, NextNumberFacts DEF IInv
  <2> QED
    BY <1>4, <1>5, <2>1, DraftedRow DEF IInv
<1>7. /\ invoices' \in Seq(Invoice) /\ Len(invoices') = Len(invoices) + 1
      /\ DOMAIN invoices' = DOMAIN invoices \cup {k} /\ k \notin DOMAIN invoices
      /\ \A i \in DOMAIN invoices : invoices'[i] = invoices[i]
      /\ invoices'[k] = n
  BY <1>2, <1>3, <1>5, <1>6, AppendedRows DEF IInv
<1>8. sub' \in Subscription /\ sub'.start = sub.start + 2
  BY <1>3, <1>4, DrainedRow, RolledRow DEF IInv
<1>9. /\ renewals' \in [0..MaxClock -> Nat] /\ RenewalsInv'
      /\ sub.start <= sub'.start /\ sub'.start <= clock
      /\ \A x \in Procs \ {r} : op[x].kind # "renew"
  BY <1>2, <1>3, <1>8, RollKeeps
<1>10. k \in 1..MaxInvoices
  <2>1. sub.start + 2 <= MaxClock
    BY <1>8, <1>9, CountTypes, BoundFacts
  <2>2. ASSUME NEW d \in Nat, d = Cardinality(Drafting) PROVE Len(invoices) + 1 <= MaxRequests + MaxClock
    BY <2>1, <2>2, CountTypes, BoundFacts
  <2>3. Len(invoices) + 1 <= MaxRequests + MaxClock
    BY <2>2, CountTypes
  <2> QED
    BY <1>2, <2>3, CountTypes, BoundFacts DEF MaxInvoices
<1>11. /\ notices' \in [1..MaxInvoices -> Nat] /\ notices'[k] = 1
       /\ \A j \in 1..MaxInvoices \ {k} : notices'[j] = notices[j]
  <2>1. notices[k] = 0
    BY <1>7, <1>10 DEF IInv, NoticesInv
  <2> QED
    BY <1>3, <1>10, <2>1 DEF IInv, RowsTyped
<1>12. NumbersUnique'
  <2>1. \A j \in DOMAIN invoices : invoices[j].number # NextNumber
    BY <1>3, <1>7 DEF NumberFree
  <2> QED
    BY <1>6, <1>7, <2>1 DEF IInv, NumbersUnique
<1>13. NoticesInv'
  <2>1. \A j \in 1..MaxInvoices : j \notin DOMAIN invoices' => notices'[j] = 0
    BY <1>7, <1>11 DEF IInv, NoticesInv
  <2>2. ASSUME ~overtaken', NEW j \in DOMAIN invoices'
        PROVE  /\ notices'[j] <= 1 /\ (notices'[j] = 1 <=> invoices'[j].number # NoNumber)
               /\ invoices'[j].status = "draft" => invoices'[j].number = NoNumber
    <3>1. CASE j = k
      BY <1>6, <1>7, <1>11, <3>1
    <3>2. CASE j # k
      <4>1. j \in DOMAIN invoices /\ j \in 1..MaxInvoices
        BY <1>7, <3>2, CountTypes, BoundFacts DEF MaxInvoices
      <4> QED
        BY <1>1, <1>7, <1>11, <2>2, <3>2, <4>1 DEF IInv, NoticesInv
    <3> QED
      BY <3>1, <3>2
  <2> QED
    BY <2>1, <2>2 DEF NoticesInv
<1>14. adjusted' \in Int
  BY <1>3 DEF IInv, RowsTyped
<1>15. Len(invoices') + sub.start <= Len(invoices) + sub'.start
  BY <1>7, <1>8, CountTypes
<1> QED
  BY <1>7, <1>8, <1>9, <1>11, <1>12, <1>13, <1>14, <1>15, EndKeeps

LEMMA RenewFoundKeeps ==
    ASSUME IInv, NEW r \in Procs, pc[r] = "work", End(r), RenewFound(r)
    PROVE  IInv'
<1>1. overtaken' \in BOOLEAN /\ (~overtaken' => ~overtaken /\ view[r] = View(op[r]))
  BY EndLeaves
<1>2. PICK o, v : o = op[r] /\ v = view[r]
  OBVIOUS
<1>3. PICK i \in v[2] : NumberFree(i) /\ invoices' = Finalized(i) /\ notices' = [notices EXCEPT ![i] = @ + 1]
  BY <1>2 DEF RenewFound
<1>4. o.kind = "renew" /\ sub' = Rolled(sub) /\ RollForward(r) /\ adjusted' = adjusted
  BY <1>2 DEF RenewFound
<1>5. i \in DOMAIN invoices
  BY <1>2, <1>3, <1>4, AtWork DEF TxOK
<1>6. ~overtaken' => ~overtaken /\ invoices[i].status = "draft"
  <2>1. View(o) = <<sub, DraftsOf(o.month)>>
    BY <1>4 DEF View
  <2> QED
    BY <1>1, <1>2, <1>3, <2>1 DEF DraftsOf
<1>7. /\ invoices' \in Seq(Invoice) /\ DOMAIN invoices' = DOMAIN invoices /\ Len(invoices') = Len(invoices)
      /\ notices' \in [1..MaxInvoices -> Nat] /\ NumbersUnique' /\ NoticesInv'
  BY <1>1, <1>3, <1>5, <1>6, FinalizedKeeps
<1>8. sub' \in Subscription /\ sub'.start = sub.start + 2
  BY <1>4, RolledRow DEF IInv, RowsTyped
<1>9. /\ renewals' \in [0..MaxClock -> Nat] /\ RenewalsInv'
      /\ sub.start <= sub'.start /\ sub'.start <= clock
      /\ \A x \in Procs \ {r} : op[x].kind # "renew"
  BY <1>2, <1>4, <1>8, RollKeeps
<1>10. adjusted' \in Int
  BY <1>4 DEF IInv, RowsTyped
<1>11. Len(invoices') + sub.start <= Len(invoices) + sub'.start
  BY <1>7, <1>8, CountTypes
<1> QED
  BY <1>7, <1>8, <1>9, <1>10, <1>11, EndKeeps

LEMMA RefusedKeeps ==
    ASSUME IInv, NEW r \in Procs, pc[r] = "work", End(r), Refused(r)
    PROVE  IInv'
<1>1. overtaken' \in BOOLEAN /\ (~overtaken' => ~overtaken)
  BY EndLeaves
<1>2. UNCHANGED <<sub, invoices, notices, adjusted, renewals>>
  BY DEF Refused, books
<1>3. /\ invoices' \in Seq(Invoice) /\ DOMAIN invoices \subseteq DOMAIN invoices' /\ sub' \in Subscription
      /\ notices' \in [1..MaxInvoices -> Nat] /\ renewals' \in [0..MaxClock -> Nat] /\ adjusted' \in Int
  BY <1>2 DEF IInv, RowsTyped
<1>4. RenewalsInv' /\ NumbersUnique'
  BY <1>2 DEF IInv, RenewalsInv, NumbersUnique
<1>5. NoticesInv'
  BY <1>1, <1>2 DEF IInv, NoticesInv
<1>6. /\ sub.start <= sub'.start /\ sub'.start <= clock /\ sub'.start = sub.start
      /\ Len(invoices') + sub.start <= Len(invoices) + sub'.start
  BY <1>2, CountTypes
<1> QED
  BY <1>3, <1>4, <1>5, <1>6, EndKeeps

----------------------------------------------------------------------------
(* The theorems.                                                           *)

\* Time passes and usage goes over: no row changes.
LEMMA WorldKeeps ==
    ASSUME IInv, Tick \/ Use \/ UNCHANGED vars
    PROVE  IInv'
<1>1. UNCHANGED <<sub, invoices, notices, adjusted, renewals, pc, op, view, requests, failures, overtaken>>
  BY DEF Tick, Use, vars, books, txs
<1>2. clock' \in 0..MaxClock /\ clock <= clock'
  BY CountTypes, BoundFacts DEF Tick, Use, vars, world, IInv, RowsTyped
<1>3. over' \in [Months -> 0..1]
  <2>1. CASE Use
    <3>1. MonthOf[clock] \in Months /\ over' = [over EXCEPT ![MonthOf[clock]] = 1]
      BY <2>1, BoundFacts DEF Use, IInv, RowsTyped
    <3> QED
      BY <3>1 DEF IInv, RowsTyped
  <2>2. CASE over' = over
    BY <2>2 DEF IInv, RowsTyped
  <2> QED
    BY <2>1, <2>2 DEF Tick, vars, world
<1>4. RowsTyped'
  <2>1. sub'.start <= clock'
    BY <1>1, <1>2, CountTypes, BoundFacts
  <2> QED
    BY <1>1, <1>2, <1>3, <2>1 DEF IInv, RowsTyped
<1>5. TxsTyped' /\ RenewalsInv' /\ NumbersUnique' /\ NoticesInv' /\ CountInv'
  BY <1>1 DEF IInv, TxsTyped, RenewalsInv, NumbersUnique, NoticesInv, CountInv, Drafting
<1>6. TxsInv'
  <2>1. ASSUME NEW x \in Procs, NEW p, NEW v, p = op'[x], v = view'[x]
        PROVE  IF pc'[x] = "idle" THEN p = Idle ELSE TxOK(x, p, v)'
    <3>1. IF pc[x] = "idle" THEN p = Idle ELSE TxOK(x, p, v)
      BY <1>1, <2>1 DEF IInv, TxsInv
    <3>2. clock \in Nat /\ clock' \in Nat /\ clock <= clock' /\ sub.start \in Nat
      BY <1>2, CountTypes, BoundFacts
    <3>3. TxOK(x, p, v) => TxOK(x, p, v)'
      BY <1>1, <3>2, TxKept
    <3> QED
      BY <1>1, <3>1, <3>3
  <2>2. \A x, y \in Procs : op'[x].kind = "renew" /\ op'[y].kind = "renew" => x = y
    BY <1>1 DEF IInv, TxsInv
  <2> QED
    BY <2>1, <2>2 DEF TxsInv
<1> QED
  BY <1>4, <1>5, <1>6 DEF IInv

LEMMA FinishKeeps ==
    ASSUME IInv, NEW r \in Procs, Finish(r)
    PROVE  IInv'
<1>1. pc[r] = "work" /\ End(r)
  BY DEF Finish
<1>2. {"paid", "void"} \subseteq Statuses \ {"draft"}
  BY StatusFacts
<1>3. CASE Draft(r)
  BY <1>1, <1>3, DraftKeeps
<1>4. CASE Finalize(r)
  BY <1>1, <1>4, FinalizeKeeps
<1>5. CASE Move(r, "pay", "paid")
  BY <1>1, <1>2, <1>5, MoveKeeps
<1>6. CASE Move(r, "void", "void")
  BY <1>1, <1>2, <1>6, MoveKeeps
<1>7. CASE ChangePlan(r)
  BY <1>1, <1>7, ChangePlanKeeps
<1>8. CASE RenewDraft(r)
  BY <1>1, <1>8, RenewDraftKeeps
<1>9. CASE RenewFound(r)
  BY <1>1, <1>9, RenewFoundKeeps
<1>10. CASE Refused(r)
  BY <1>1, <1>10, RefusedKeeps
<1> QED
  BY <1>3, <1>4, <1>5, <1>6, <1>7, <1>8, <1>9, <1>10 DEF Finish

LEMMA InvoicingStep == IInv /\ [Next]_vars => IInv'
<1> SUFFICES ASSUME IInv, [Next]_vars PROVE IInv'
  OBVIOUS
<1>1. CASE Tick \/ Use \/ UNCHANGED vars
  BY <1>1, WorldKeeps
<1>2. ASSUME NEW c \in Clients, Request(c) PROVE IInv'
  BY <1>2, RequestKeeps
<1>3. ASSUME NEW w \in Workers, Claim(w) PROVE IInv'
  BY <1>3, ClaimKeeps
<1>4. ASSUME NEW r \in Procs, Finish(r) PROVE IInv'
  BY <1>4, FinishKeeps
<1>5. ASSUME NEW r \in Procs, Fail(r) PROVE IInv'
  BY <1>5, FailKeeps
<1> QED
  BY <1>1, <1>2, <1>3, <1>4, <1>5 DEF Next

LEMMA IInvBilledOnce == IInv => BilledOnce
<1> SUFFICES ASSUME IInv PROVE BilledOnce
  OBVIOUS
<1>1. TypeOK
  <2>1. PeriodEnd(sub) <= MaxClock + 2 /\ Len(invoices) <= MaxInvoices
    BY CountTypes, BoundFacts DEF PeriodEnd, MaxInvoices
  <2>2. /\ clock \in 0..MaxClock /\ over \in [Months -> 0..1] /\ sub \in [start : Nat, price : Prices, pending : Int]
        /\ invoices \in Seq([month : Months, status : Statuses, number : Nat \X Nat,
                             plan : Prices, over : 0..1, total : Nat])
        /\ notices \in [1..MaxInvoices -> Nat] /\ renewals \in [0..MaxClock -> Nat] /\ adjusted \in Int
    BY DEF IInv, RowsTyped, Subscription, Invoice
  <2>3. /\ pc \in [Procs -> {"idle", "work"}] /\ overtaken \in BOOLEAN
        /\ requests \in 0..MaxRequests /\ failures \in 0..MaxFailures
    BY DEF IInv, TxsTyped
  <2> QED
    BY <2>1, <2>2, <2>3 DEF TypeOK
<1>2. RenewedOnce
  BY DEF IInv, RenewalsInv, RenewedOnce
<1>3. AnnouncedOnce
  <2>1. ASSUME ~overtaken, NEW i \in DOMAIN invoices
        PROVE  notices[i] <= 1 /\ (notices[i] = 1) = (invoices[i].number # NoNumber)
    BY <2>1 DEF IInv, NoticesInv
  <2> QED
    BY <2>1 DEF AnnouncedOnce
<1> QED
  BY <1>1, <1>2, <1>3 DEF IInv, BilledOnce

\* Nobody is billed twice (advance_recurring_billing, finalize, _next_number): a period is
\* rolled at most once, two invoices never share a number, and an invoice is announced
\* once, together with its number, unless two transactions had loaded the same rows.
THEOREM NobodyBilledTwice == Spec => []BilledOnce
<1>1. Init => IInv
  BY InvoicingInitial
<1>2. IInv /\ [Next]_vars => IInv'
  BY InvoicingStep
<1>3. IInv => BilledOnce
  BY IInvBilledOnce
<1> QED
  BY <1>1, <1>2, <1>3, PTL DEF Spec

\* Rows that a step leaves alone, or only adds to, move legally.
MovesLegally == ~overtaken' => \A i \in DOMAIN invoices :
    /\ \/ invoices'[i].status = invoices[i].status
       \/ invoices'[i].status \in Transitions[invoices[i].status]
    /\ invoices[i].number \in {NoNumber, invoices'[i].number}

LEMMA FinalizedLegally ==
    ASSUME IInv, NEW i \in DOMAIN invoices, invoices' = Finalized(i),
           ~overtaken' => ~overtaken /\ invoices[i].status = "draft"
    PROVE  MovesLegally
<1>1. /\ \A j \in DOMAIN invoices \ {i} : invoices'[j] = invoices[j]
      /\ invoices'[i].status = "open"
  BY FinalizedRows DEF IInv
<1>2. ASSUME ~overtaken' PROVE invoices[i].status = "draft" /\ invoices[i].number = NoNumber
  BY <1>2 DEF IInv, NoticesInv
<1>3. "open" \in Transitions["draft"]
  BY StatusFacts
<1> QED
  BY <1>1, <1>2, <1>3 DEF MovesLegally

LEMMA MovedLegally ==
    ASSUME IInv, NEW r \in Procs, pc[r] = "work", End(r),
           Move(r, "pay", "paid") \/ Move(r, "void", "void")
    PROVE  MovesLegally
<1>1. ~overtaken' => view[r] = View(op[r])
  BY EndLeaves
<1>2. PICK o, v : o = op[r] /\ v = view[r]
  OBVIOUS
<1>3. PICK x \in {"paid", "void"} :
        /\ invoices' = [invoices EXCEPT ![o.inv].status = Written(v[1], x, @)]
        /\ o.kind = IF x = "paid" THEN "pay" ELSE "void"
  BY <1>2 DEF Move
<1>4. o.inv \in DOMAIN invoices /\ (\E y \in Statuses : v = <<y>> /\ MayMove(y, x))
  BY <1>2, <1>3, AtWork DEF TxOK
<1>5. PICK i, z, y : i = o.inv /\ z = invoices[i].status /\ y = Written(v[1], x, z)
  OBVIOUS
<1>6. z \in Statuses /\ x \in Statuses
  BY <1>4, <1>5, InvoiceAt, StatusFacts DEF IInv, Invoice
<1>7. y \in Statuses
  BY <1>5, <1>6 DEF Written
<1>8. invoices' = [invoices EXCEPT ![i].status = y]
  BY <1>3, <1>5
<1>9. /\ \A j \in DOMAIN invoices \ {i} : invoices'[j] = invoices[j]
      /\ invoices'[i].status = y /\ invoices'[i].number = invoices[i].number
  BY <1>4, <1>5, <1>7, <1>8, MovedRows DEF IInv
<1>10. ASSUME ~overtaken' PROVE y = z \/ y \in Transitions[z]
  <2>1. View(o) = <<z>>
    BY <1>3, <1>5 DEF View
  <2>2. v[1] = z /\ MayMove(z, x)
    BY <1>1, <1>2, <1>4, <1>10, <2>1
  <2> QED
    BY <1>5, <2>2 DEF Written, MayMove
<1> QED
  BY <1>5, <1>9, <1>10 DEF MovesLegally

LEMMA NextMovesLegally ==
    ASSUME IInv, Next
    PROVE  MovesLegally
<1>1. ASSUME \A i \in DOMAIN invoices : invoices'[i] = invoices[i] PROVE MovesLegally
  BY <1>1 DEF MovesLegally
<1>2. CASE invoices' = invoices
  BY <1>1, <1>2
<1>3. ASSUME NEW r \in Procs, Finish(r) PROVE MovesLegally
  <2>1. /\ pc[r] = "work" /\ End(r)
        /\ ~overtaken' => ~overtaken /\ view[r] = View(op[r])
    BY <1>3, EndLeaves DEF Finish
  <2>2. PICK o, v : o = op[r] /\ v = view[r]
    OBVIOUS
  <2>3. CASE Draft(r) \/ RenewDraft(r)
    <3>1. PICK n : invoices' = Append(invoices, n)
      BY <2>3 DEF Draft, RenewDraft
    <3>2. DOMAIN invoices = 1..Len(invoices) /\ invoices \in Seq(Invoice)
      BY CountTypes DEF IInv, RowsTyped
    <3>3. \A i \in DOMAIN invoices : invoices'[i] = invoices[i]
      BY <3>1, <3>2
    <3> QED
      BY <1>1, <3>3
  <2>4. CASE Finalize(r)
    <3>1. o.kind = "finalize" /\ invoices' = Finalized(o.inv)
      BY <2>2, <2>4 DEF Finalize
    <3>2. o.inv \in DOMAIN invoices /\ v = <<"draft">>
      BY <2>1, <2>2, <3>1, AtWork DEF TxOK
    <3>3. View(o) = <<invoices[o.inv].status>>
      BY <3>1 DEF View
    <3>4. ~overtaken' => ~overtaken /\ invoices[o.inv].status = "draft"
      BY <2>1, <2>2, <3>2, <3>3
    <3> QED
      BY <3>1, <3>2, <3>4, FinalizedLegally
  <2>5. CASE Move(r, "pay", "paid") \/ Move(r, "void", "void")
    BY <2>1, <2>5, MovedLegally
  <2>6. CASE RenewFound(r)
    <3>1. PICK i \in v[2] : invoices' = Finalized(i)
      BY <2>2, <2>6 DEF RenewFound
    <3>2. o.kind = "renew"
      BY <2>2, <2>6 DEF RenewFound
    <3>3. i \in DOMAIN invoices
      BY <2>1, <2>2, <3>1, <3>2, AtWork DEF TxOK
    <3>4. View(o) = <<sub, DraftsOf(o.month)>>
      BY <3>2 DEF View
    <3>5. ~overtaken' => ~overtaken /\ invoices[i].status = "draft"
      BY <2>1, <2>2, <3>1, <3>4 DEF DraftsOf
    <3> QED
      BY <3>1, <3>3, <3>5, FinalizedLegally
  <2>7. CASE ChangePlan(r) \/ Refused(r)
    BY <1>2, <2>7 DEF ChangePlan, Refused, books
  <2> QED
    BY <1>3, <2>3, <2>4, <2>5, <2>6, <2>7 DEF Finish
<1>4. CASE Tick \/ Use
  BY <1>2, <1>4 DEF Tick, Use, books
<1>5. ASSUME NEW r, NEW o, Start(r, o) PROVE MovesLegally
  BY <1>2, <1>5 DEF Start, books
<1>6. ASSUME NEW c \in Clients, Request(c) PROVE MovesLegally
  BY <1>5, <1>6 DEF Request
<1>7. ASSUME NEW w \in Workers, Claim(w) PROVE MovesLegally
  BY <1>5, <1>7 DEF Claim
<1>8. ASSUME NEW r \in Procs, Fail(r) PROVE MovesLegally
  BY <1>2, <1>8 DEF Fail, books
<1> QED
  BY <1>3, <1>4, <1>6, <1>7, <1>8 DEF Next

\* Every step of a request or a job that had seen the current rows moves invoices along
\* INVOICE_TRANSITIONS and never takes a number away (_assert_invoice_transition).
THEOREM MovesAreLegal == Spec => LegalMoves
<1>1. IInv /\ [Next]_vars => [MovesLegally]_vars
  BY NextMovesLegally
<1>2. Init => IInv
  BY InvoicingInitial
<1>3. IInv /\ [Next]_vars => IInv'
  BY InvoicingStep
<1> QED
  BY <1>1, <1>2, <1>3, PTL DEF Spec, LegalMoves, MovesLegally

----------------------------------------------------------------------------
(* No adjustment is lost or charged twice.                                 *)

LEMMA InvoicesSummable ==
    ASSUME RowsTyped
    PROVE  Summable(Settled, DOMAIN invoices)
<1>1. IsFiniteSet(DOMAIN invoices)
  BY LenProperties, FS_Interval DEF RowsTyped
<1>2. ASSUME NEW i \in DOMAIN invoices PROVE Settled[i] \in Int
  <2>1. PICK n \in Invoice : n = invoices[i]
    BY InvoiceAt
  <2>2. n.total \in Int /\ n.plan \in Int /\ n.over \in Int
    BY PricesAreInts DEF Invoice
  <2> QED
    BY <2>1, <2>2 DEF Settled
<1> QED
  BY <1>1, <1>2 DEF Summable

\* Finalizing, paying and voiding an invoice change neither its lines nor its total.
LEMMA SettledSame ==
    ASSUME RowsTyped, DOMAIN invoices' = DOMAIN invoices,
           \A i \in DOMAIN invoices : /\ invoices'[i].total = invoices[i].total
                                      /\ invoices'[i].plan = invoices[i].plan
                                      /\ invoices'[i].over = invoices[i].over
    PROVE  SumFunctionOnSet(Settled, DOMAIN invoices)' = SumFunctionOnSet(Settled, DOMAIN invoices)
<1>1. Settled' = Settled
  BY DEF Settled
<1> QED
  BY <1>1

LEMMA FinalizedSettles ==
    ASSUME RowsTyped, NEW i \in DOMAIN invoices, invoices' = Finalized(i)
    PROVE  SumFunctionOnSet(Settled, DOMAIN invoices)' = SumFunctionOnSet(Settled, DOMAIN invoices)
<1>1. DOMAIN invoices' = DOMAIN invoices /\ \A j \in DOMAIN invoices \ {i} : invoices'[j] = invoices[j]
  BY FinalizedRows
<1>2. invoices[i] \in Invoice
  BY InvoiceAt
<1>3. /\ invoices'[i].total = invoices[i].total /\ invoices'[i].plan = invoices[i].plan
      /\ invoices'[i].over = invoices[i].over
  BY <1>2 DEF Finalized, Invoice
<1> QED
  BY <1>1, <1>3, SettledSame

LEMMA MovedSettles ==
    ASSUME RowsTyped, NEW i \in DOMAIN invoices, NEW x, invoices' = [invoices EXCEPT ![i].status = x]
    PROVE  SumFunctionOnSet(Settled, DOMAIN invoices)' = SumFunctionOnSet(Settled, DOMAIN invoices)
<1>2. invoices[i] \in Invoice
  BY InvoiceAt
<1>3. /\ invoices'[i].total = invoices[i].total /\ invoices'[i].plan = invoices[i].plan
      /\ invoices'[i].over = invoices[i].over
  BY <1>2 DEF Invoice
<1> QED
  BY <1>3, SettledSame

\* A draft settles what was pending, except for what is carried.
LEMMA DraftSettles ==
    ASSUME RowsTyped, NEW s \in Subscription, NEW m \in Months, NEW x \in Statuses, NEW b \in Nat \X Nat,
           invoices' = Append(invoices, Drafted(s, m, x, b))
    PROVE  /\ SumFunctionOnSet(Settled, DOMAIN invoices) \in Int
           /\ SumFunctionOnSet(Settled, DOMAIN invoices)'
                = SumFunctionOnSet(Settled, DOMAIN invoices) + (s.pending - Carry(s, m))
<1>1. PICK n : n = Drafted(s, m, x, b)
  OBVIOUS
<1>2. n \in Invoice
  BY <1>1, DraftedRow
<1>3. PICK k : k = Len(invoices) + 1
  OBVIOUS
<1>4. /\ DOMAIN invoices' = DOMAIN invoices \cup {k} /\ k \notin DOMAIN invoices
      /\ \A i \in DOMAIN invoices : invoices'[i] = invoices[i]
      /\ invoices'[k] = n
  BY <1>1, <1>2, <1>3, AppendedRows
<1>5. PICK f, S : f = Settled' /\ S = DOMAIN invoices
  OBVIOUS
<1>6. /\ \A i \in S : f[i] = Settled[i]
      /\ f[k] = n.total - n.plan - n.over
  BY <1>4, <1>5 DEF Settled
<1>7. s.price \in Int /\ s.pending \in Int /\ over[m] \in Int
  BY PricesAreInts DEF Subscription, RowsTyped
<1>8. f[k] = s.pending - Carry(s, m) /\ f[k] \in Int
  BY <1>1, <1>6, <1>7 DEF Drafted, Carry, Subtotal
<1>9. Summable(Settled, S) /\ Summable(f, S)
  BY <1>5, <1>6, InvoicesSummable DEF Summable
<1>10. SumFunctionOnSet(f, S) = SumFunctionOnSet(Settled, S)
  BY <1>6, <1>9, SumSame
<1>11. SumFunctionOnSet(f, S \cup {k}) = SumFunctionOnSet(f, S) + f[k]
  BY <1>4, <1>5, <1>8, <1>9, SumInsert
<1>12. SumFunctionOnSet(Settled, S) \in Int
  BY <1>9, SumType
<1> QED
  BY <1>4, <1>5, <1>8, <1>10, <1>11, <1>12

\* What a transaction that saw the current subscription leaves pending.
LEMMA DrainedPending ==
    ASSUME RowsTyped, NEW m \in Months
    PROVE  Drained(sub, m).pending = Carry(sub, m) /\ Carry(sub, m) \in Int /\ sub.pending \in Int
<1>1. sub.price \in Int /\ sub.pending \in Int /\ over[m] \in Int
  BY PricesAreInts DEF Subscription, RowsTyped
<1> QED
  BY <1>1 DEF Drained, Written, Carry, Subtotal, RowsTyped, Subscription

\* A step that saw the current rows keeps the balance.
LEMMA MoneyStep ==
    ASSUME IInv, Next, ~overtaken',
           SumFunctionOnSet(Settled, DOMAIN invoices) + sub.pending = adjusted
    PROVE  SumFunctionOnSet(Settled, DOMAIN invoices)' + sub'.pending = adjusted'
<1> DEFINE Sum == SumFunctionOnSet(Settled, DOMAIN invoices)
<1>0. RowsTyped /\ Sum \in Int /\ sub.pending \in Int /\ adjusted \in Int /\ sub \in Subscription
  BY InvoicesSummable, SumType DEF IInv, RowsTyped, Subscription
<1>1. ASSUME invoices' = invoices PROVE Sum' = Sum
  BY <1>1 DEF Settled
<1> HIDE DEF Sum
<1>2. ASSUME UNCHANGED <<invoices, sub, adjusted>> PROVE Sum' + sub'.pending = adjusted'
  BY <1>0, <1>1, <1>2 DEF Sum
<1>3. ASSUME NEW r \in Procs, Finish(r) PROVE Sum' + sub'.pending = adjusted'
  <2>1. pc[r] = "work" /\ End(r) /\ view[r] = View(op[r])
    BY <1>3, EndLeaves DEF Finish
  <2>2. PICK o, v : o = op[r] /\ v = view[r]
    OBVIOUS
  <2>3. TxOK(r, o, v) /\ v = View(o)
    BY <2>1, <2>2, AtWork
  <2>4. CASE Draft(r)
    <3>1. /\ o.kind = "draft" /\ invoices' = Append(invoices, Drafted(v[1], o.month, "draft", NoNumber))
          /\ sub' = Drained(v[1], o.month) /\ adjusted' = adjusted
      BY <2>2, <2>4 DEF Draft
    <3>2. v[1] = sub /\ o.month \in Months
      BY <2>3, <3>1 DEF View, TxOK
    <3>3. "draft" \in Statuses /\ NoNumber \in Nat \X Nat
      BY StatusFacts DEF NoNumber
    <3>4. Sum' = Sum + (sub.pending - Carry(sub, o.month))
      BY <1>0, <3>1, <3>2, <3>3, DraftSettles DEF Sum
    <3> QED
      BY <1>0, <3>1, <3>2, <3>4, DrainedPending DEF Sum
  <2>5. CASE RenewDraft(r)
    <3>1. /\ o.kind = "renew" /\ invoices' = Append(invoices, Drafted(v[1], o.month, "open", NextNumber))
          /\ sub' = Rolled(Drained(v[1], o.month)) /\ adjusted' = adjusted
      BY <2>2, <2>5 DEF RenewDraft
    <3>2. v[1] = sub /\ o.month \in Months
      BY <2>3, <3>1 DEF View, TxOK
    <3>3. "open" \in Statuses /\ NextNumber \in Nat \X Nat
      BY <1>0, StatusFacts, NextNumberFacts
    <3>4. Sum' = Sum + (sub.pending - Carry(sub, o.month))
      BY <1>0, <3>1, <3>2, <3>3, DraftSettles DEF Sum
    <3>5. sub'.pending = Drained(sub, o.month).pending
      BY <1>0, <3>1, <3>2, DrainedRow DEF Rolled, Subscription
    <3> QED
      BY <1>0, <3>1, <3>2, <3>4, <3>5, DrainedPending DEF Sum
  <2>6. CASE Finalize(r)
    <3>1. o.kind = "finalize" /\ invoices' = Finalized(o.inv) /\ UNCHANGED <<sub, adjusted>>
      BY <2>2, <2>6 DEF Finalize
    <3>2. o.inv \in DOMAIN invoices
      BY <2>3, <3>1 DEF TxOK
    <3>3. Sum' = Sum
      BY <1>0, <3>1, <3>2, FinalizedSettles DEF Sum
    <3> QED
      BY <3>1, <3>3 DEF Sum
  <2>7. CASE RenewFound(r)
    <3>1. PICK i \in v[2] : invoices' = Finalized(i)
      BY <2>2, <2>7 DEF RenewFound
    <3>2. o.kind = "renew" /\ sub' = Rolled(sub) /\ adjusted' = adjusted
      BY <2>2, <2>7 DEF RenewFound
    <3>3. i \in DOMAIN invoices
      BY <2>3, <3>1, <3>2 DEF TxOK
    <3>4. Sum' = Sum /\ sub'.pending = sub.pending
      BY <1>0, <3>1, <3>2, <3>3, FinalizedSettles DEF Sum, Rolled, Subscription
    <3> QED
      BY <3>2, <3>4 DEF Sum
  <2>8. CASE Move(r, "pay", "paid") \/ Move(r, "void", "void")
    <3>1. PICK x \in {"paid", "void"} :
            /\ invoices' = [invoices EXCEPT ![o.inv].status = Written(v[1], x, @)]
            /\ o.kind = IF x = "paid" THEN "pay" ELSE "void"
      BY <2>2, <2>8 DEF Move
    <3>2. o.inv \in DOMAIN invoices /\ UNCHANGED <<sub, adjusted>>
      BY <2>2, <2>3, <2>8, <3>1 DEF Move, TxOK
    <3>3. PICK i, y : i = o.inv /\ y = Written(v[1], x, invoices[i].status)
      OBVIOUS
    <3>4. invoices' = [invoices EXCEPT ![i].status = y]
      BY <3>1, <3>3
    <3>5. Sum' = Sum
      BY <1>0, <3>2, <3>3, <3>4, MovedSettles DEF Sum
    <3> QED
      BY <3>2, <3>5 DEF Sum
  <2>9. CASE ChangePlan(r)
    <3>1. PICK adj : adj = IF PeriodEnd(sub) > clock THEN ((sub.price - o.price) * (clock - sub.start)) \div 2 ELSE 0
      OBVIOUS
    <3>2. o.kind = "change" /\ invoices' = invoices
      BY <2>2, <2>9 DEF ChangePlan
    <3>3. v[1] = sub
      BY <2>3, <3>2 DEF View
    <3>4. /\ sub' = [start   |-> IF PeriodEnd(sub) > clock THEN sub.start ELSE clock,
                     price   |-> Written(sub.price, o.price, sub.price),
                     pending |-> Written(sub.pending, sub.pending + adj, sub.pending)]
          /\ adjusted' = adjusted + adj
      BY <2>2, <2>9, <3>1, <3>3 DEF ChangePlan
    <3>5. sub.price \in Int /\ o.price \in Int /\ clock \in Int /\ sub.start \in Int
      BY <1>0, <2>3, <3>2, PricesAreInts, CountTypes DEF TxOK, Subscription
    <3>6. adj \in Int
      <4>1. PICK z \in Int : z = (sub.price - o.price) * (clock - sub.start)
        BY <3>5
      <4>2. z \div 2 \in Int
        BY <4>1
      <4> QED
        BY <3>1, <4>1, <4>2
    <3>7. sub'.pending = sub.pending + adj
      BY <1>0, <3>4, <3>6 DEF Written
    <3>8. Sum' = Sum
      BY <1>1, <3>2
    <3> QED
      BY <1>0, <3>4, <3>6, <3>7, <3>8 DEF Sum
  <2>10. CASE Refused(r)
    BY <1>2, <2>10 DEF Refused, books
  <2> QED
    BY <1>3, <2>4, <2>5, <2>6, <2>7, <2>8, <2>9, <2>10 DEF Finish
<1>4. CASE Tick \/ Use
  <2>1. UNCHANGED books
    BY <1>4 DEF Tick, Use
  <2> QED
    BY <1>2, <2>1 DEF books, Sum
<1>5. ASSUME NEW r, NEW o, Start(r, o) PROVE Sum' + sub'.pending = adjusted'
  BY <1>2, <1>5 DEF Start, books
<1>6. ASSUME NEW c \in Clients, Request(c) PROVE Sum' + sub'.pending = adjusted'
  BY <1>5, <1>6 DEF Request
<1>7. ASSUME NEW w \in Workers, Claim(w) PROVE Sum' + sub'.pending = adjusted'
  BY <1>5, <1>7 DEF Claim
<1>8. ASSUME NEW r \in Procs, Fail(r) PROVE Sum' + sub'.pending = adjusted'
  BY <1>2, <1>8 DEF Fail, books
<1> QED
  BY <1>3, <1>4, <1>6, <1>7, <1>8 DEF Next, Sum

LEMMA OvertakenStays ==
    ASSUME IInv, Next, overtaken
    PROVE  overtaken'
<1>1. ASSUME NEW r \in Procs, Finish(r) PROVE overtaken'
  BY <1>1 DEF Finish, End
<1>2. ASSUME NEW r, NEW o, Start(r, o) PROVE overtaken'
  BY <1>2 DEF Start
<1> QED
  BY <1>1, <1>2 DEF Next, Tick, Use, Request, Claim, Fail

\* draft_invoice, change_plan and _renew_locally_billed, for any prices, months and
\* numbers of invoices: every adjustment is invoiced once, and what is left of a credit
\* is carried, as long as no transaction overwrites what it did not see.
THEOREM MoneyIsConserved == Spec => []MoneyConserved
<1>1. Init => IInv /\ MoneyConserved
  <2> SUFFICES ASSUME Init PROVE MoneyConserved
    BY InvoicingInitial
  <2>1. DOMAIN invoices = {} /\ sub.pending = 0 /\ adjusted = 0
    BY DEF Init
  <2>2. SumFunctionOnSet(Settled, DOMAIN invoices) = 0
    BY <2>1, SumEmpty
  <2> QED
    BY <2>1, <2>2 DEF MoneyConserved
<1>2. IInv /\ MoneyConserved /\ [Next]_vars => (IInv /\ MoneyConserved)'
  <2> SUFFICES ASSUME IInv, MoneyConserved, [Next]_vars PROVE MoneyConserved'
    BY InvoicingStep
  <2>1. CASE Next
    BY <2>1, MoneyStep, OvertakenStays DEF MoneyConserved
  <2>2. CASE UNCHANGED vars
    BY <2>2 DEF MoneyConserved, Settled, vars, books
  <2> QED
    BY <2>1, <2>2
<1> QED
  BY <1>1, <1>2, PTL DEF Spec
====
