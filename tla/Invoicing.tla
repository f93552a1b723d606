----------------------------- MODULE Invoicing -----------------------------
(***************************************************************************)
(* Invoices of one organization that is billed locally (a provider without *)
(* recurring_hosted): API requests draft, finalize, pay and void invoices  *)
(* and change the plan, while the hourly job advance_recurring_billing     *)
(* invoices every period that ended and rolls it forward.                  *)
(*                                                                         *)
(* A request or a job is one READ COMMITTED transaction of two steps: it   *)
(* loads the rows its decisions rest on, and writes and commits.  In       *)
(* between the rows may change: only the renewal job locks what it loads.  *)
(* (finalize takes a lock, but after it loaded the invoice.)               *)
(*                                                                         *)
(* Time is counted in half periods; an overage costs 1 a month.            *)
(***************************************************************************)
EXTENDS Integers, Sequences, FiniteSets, FiniteSetsExt

CONSTANTS
    Clients,      \* API requests that may run at the same time
    Workers,      \* processes that run the job
    Prices,       \* plan prices, even: half a period is prorated
    MonthOf,      \* the month of every half period
    MaxClock,     \* bound: half periods
    MaxRequests,  \* bound: API requests
    MaxFailures   \* bound: transactions that fail or whose process dies

ASSUME PriceAssumption ==
    /\ Prices # {}
    /\ \A p \in Prices : p \in Nat /\ p > 0 /\ p % 2 = 0

ASSUME BoundAssumption ==
    /\ {MaxClock, MaxRequests, MaxFailures} \subseteq Nat
    /\ MonthOf \in [0..MaxClock -> Nat \ {0}]

VARIABLES
    clock,
    over,         \* [month -> overage of the organization]
    sub,          \* subscription: start of the period, price, pending_adjustments
    invoices,     \* in order of creation
    notices,      \* [invoice -> invoice.created rows in the outbox]
    pc, op, view, \* transactions: at work or idle, what they do, what they loaded
    requests, failures,
    \* history
    adjusted,     \* sum of the adjustments plan changes queued
    renewals,     \* [start -> times the period was rolled]
    overtaken     \* some transaction wrote when what it had loaded had changed

books   == <<sub, invoices, notices, adjusted, renewals>>
world   == <<clock, over>>
txs     == <<pc, op, view>>
vars    == <<books, world, txs, requests, failures, overtaken>>

\* every request drafts one, and every renewal
MaxInvoices == MaxRequests + MaxClock

Procs   == Clients \cup Workers
Months  == {MonthOf[t] : t \in 0..MaxClock}
PeriodEnd(s) == s.start + 2
NoNumber == <<0, 0>>
Idle    == [kind |-> "none"]

\* A paid plan since the start of the first period.
Init ==
    /\ clock = 0
    /\ over = [m \in Months |-> 0]
    /\ sub \in {[start |-> 0, price |-> p, pending |-> 0] : p \in Prices}
    /\ invoices = <<>>
    /\ notices = [i \in 1..MaxInvoices |-> 0]
    /\ pc = [r \in Procs |-> "idle"]
    /\ op = [r \in Procs |-> Idle]
    /\ view = [r \in Procs |-> <<>>]
    /\ requests = 0 /\ failures = 0
    /\ adjusted = 0
    /\ renewals = [t \in 0..MaxClock |-> 0]
    /\ overtaken = FALSE

----------------------------------------------------------------------------
(* What a transaction loads *)

\* _find_draft
DraftsOf(m) == {i \in DOMAIN invoices : invoices[i].status = "draft" /\ invoices[i].month = m}

View(o) == CASE o.kind \in {"draft", "renew"} -> <<sub, DraftsOf(o.month)>>
             [] o.kind = "change" -> <<sub>>
             [] OTHER -> <<invoices[o.inv].status>>

\* INVOICE_TRANSITIONS
Transitions == [ draft |-> {"open", "void"}, open |-> {"paid", "void", "uncollectible"},
                 paid |-> {}, void |-> {}, uncollectible |-> {} ]

\* Mutant: the status is not checked.
MayMoveAny(from, to) == TRUE
\* _assert_invoice_transition
MayMove(from, to) == from = to \/ to \in Transitions[from]

\* "already finalized: keep its number and issued_at, emit nothing twice"
AlreadyOpen(o) == invoices[o.inv].status = "open"

\* The request does not end right after it loaded: an existing draft is
\* returned as it is, a transition that is not allowed is refused.
GoesOn(o) ==
    CASE o.kind = "draft"    -> DraftsOf(o.month) = {}
      [] o.kind = "finalize" -> ~AlreadyOpen(o) /\ MayMove(invoices[o.inv].status, "open")
      [] o.kind = "pay"      -> MayMove(invoices[o.inv].status, "paid")
      [] o.kind = "void"     -> MayMove(invoices[o.inv].status, "void")
      [] OTHER               -> TRUE

Start(r, o) ==
    /\ pc[r] = "idle"
    /\ pc' = [pc EXCEPT ![r] = "work"]
    /\ op' = [op EXCEPT ![r] = o]
    /\ view' = [view EXCEPT ![r] = View(o)]
    /\ UNCHANGED <<books, world, failures, overtaken>>

Request(c) ==
    /\ requests < MaxRequests
    /\ requests' = requests + 1
    /\ \/ \E m \in {MonthOf[t] : t \in 0..clock} :
             GoesOn([kind |-> "draft", month |-> m]) /\ Start(c, [kind |-> "draft", month |-> m])
       \/ \E i \in DOMAIN invoices, k \in {"finalize", "pay", "void"} :
             GoesOn([kind |-> k, inv |-> i]) /\ Start(c, [kind |-> k, inv |-> i])
       \/ \E p \in Prices : Start(c, [kind |-> "change", price |-> p])

\* Mutant: the job does not lock the rows it claims.
RowFreeAlways == TRUE
\* No worker holds the subscription (FOR UPDATE until its commit).
RowFree == \A w \in Workers : pc[w] = "idle"

\* FOR UPDATE SKIP LOCKED on a subscription whose period ended.
Due == PeriodEnd(sub) <= clock

Claim(w) ==
    /\ Due /\ RowFree
    /\ Start(w, [kind |-> "renew", month |-> MonthOf[sub.start]])
    /\ UNCHANGED requests

----------------------------------------------------------------------------
(* What it writes *)

End(r) ==
    /\ pc' = [pc EXCEPT ![r] = "idle"]
    /\ op' = [op EXCEPT ![r] = Idle]
    /\ view' = [view EXCEPT ![r] = <<>>]
    /\ overtaken' = (overtaken \/ view[r] # View(op[r]))
    /\ UNCHANGED <<world, requests, failures>>

\* An UPDATE names the columns that differ from what was loaded.
Written(loaded, new, there) == IF new = loaded THEN there ELSE new

\* Plan, overage and adjustments of a draft for month m.
Subtotal(s, m) == s.price + over[m] + s.pending

\* Mutant: a credit that is larger than the charges is dropped.
CarryDropped(s, m) == 0
\* What is left of a credit goes to the next draft; otherwise all is drained.
Carry(s, m) == IF Subtotal(s, m) < 0 THEN Subtotal(s, m) ELSE 0

Drained(s, m) == [sub EXCEPT !.pending = Written(s.pending, Carry(s, m), @)]

Drafted(s, m, status, number) ==
    [month |-> m, status |-> status, number |-> number, plan |-> s.price, over |-> over[m],
     total |-> IF Subtotal(s, m) < 0 THEN 0 ELSE Subtotal(s, m)]

\* Mutant: only unpaid invoices are counted.
NextNumberOpen == <<MonthOf[clock], Cardinality({i \in DOMAIN invoices : invoices[i].status = "open"}) + 1>>
\* _next_number, under the lock of the organization
NextNumber == <<MonthOf[clock], Cardinality({i \in DOMAIN invoices : invoices[i].number # NoNumber}) + 1>>

\* uq_invoices_org_number lets invoice i have the next number.
NumberFree(i) == \A j \in DOMAIN invoices \ {i} : invoices[j].number # NextNumber

Draft(c) ==
    /\ op[c].kind = "draft"
    /\ invoices' = Append(invoices, Drafted(view[c][1], op[c].month, "draft", NoNumber))
    /\ sub' = Drained(view[c][1], op[c].month)
    /\ sub' # sub => RowFree
    /\ UNCHANGED <<notices, adjusted, renewals>>

Finalized(i) == [invoices EXCEPT ![i].status = "open", ![i].number = NextNumber]

Finalize(c) ==
    /\ op[c].kind = "finalize" /\ NumberFree(op[c].inv)
    /\ invoices' = Finalized(op[c].inv)
    /\ notices' = [notices EXCEPT ![op[c].inv] = @ + 1]
    /\ UNCHANGED <<sub, adjusted, renewals>>

\* record_payment, void
Move(c, kind, status) ==
    /\ op[c].kind = kind
    /\ invoices' = [invoices EXCEPT ![op[c].inv].status = Written(view[c][1], status, @)]
    /\ UNCHANGED <<sub, notices, adjusted, renewals>>

\* BillingService.change_plan: a period that is still running is kept, and its
\* elapsed part corrected; after its end a new one starts now.
ChangePlan(c) ==
    LET s    == view[c][1]
        live == PeriodEnd(s) > clock
        adj  == IF live THEN ((s.price - op[c].price) * (clock - s.start)) \div 2 ELSE 0
    IN  /\ op[c].kind = "change" /\ RowFree
        /\ sub' = [start   |-> IF live THEN sub.start ELSE clock,
                   price   |-> Written(s.price, op[c].price, sub.price),
                   pending |-> Written(s.pending, s.pending + adj, sub.pending)]
        /\ adjusted' = adjusted + adj
        /\ UNCHANGED <<invoices, notices, renewals>>

Rolled(s) == [s EXCEPT !.start = PeriodEnd(s)]

RollForward(w) == renewals' = [renewals EXCEPT ![view[w][1].start] = @ + 1]

\* _renew_locally_billed: a new invoice for the ended period, ...
RenewDraft(w) ==
    LET s == view[w][1]  n == Len(invoices) + 1 IN
    /\ op[w].kind = "renew" /\ view[w][2] = {}
    /\ NumberFree(n)
    /\ invoices' = Append(invoices, Drafted(s, op[w].month, "open", NextNumber))
    /\ notices' = [notices EXCEPT ![n] = @ + 1]
    /\ sub' = Rolled(Drained(s, op[w].month))
    /\ RollForward(w)
    /\ UNCHANGED adjusted

\* ... or the draft somebody made for its month.
RenewFound(w) ==
    /\ op[w].kind = "renew"
    /\ \E i \in view[w][2] :
         /\ view[w][2] = {i} /\ NumberFree(i)
         /\ invoices' = Finalized(i)
         /\ notices' = [notices EXCEPT ![i] = @ + 1]
    /\ sub' = Rolled(sub)
    /\ RollForward(w)
    /\ UNCHANGED adjusted

\* MultipleResultsFound, or the number is taken: the savepoint (or the request) is
\* rolled back.
Refused(r) ==
    /\ \/ op[r].kind = "renew" /\ Cardinality(view[r][2]) > 1
       \/ op[r].kind = "renew" /\ view[r][2] = {} /\ ~NumberFree(Len(invoices) + 1)
       \/ op[r].kind = "renew" /\ \E i \in view[r][2] : ~NumberFree(i)
       \/ op[r].kind = "finalize" /\ ~NumberFree(op[r].inv)
    /\ UNCHANGED books

Finish(r) ==
    /\ pc[r] = "work"
    /\ \/ Draft(r) \/ Finalize(r) \/ Move(r, "pay", "paid") \/ Move(r, "void", "void")
       \/ ChangePlan(r) \/ RenewDraft(r) \/ RenewFound(r) \/ Refused(r)
    /\ End(r)

\* The database or the process fails: nothing is written, the locks are gone.
Fail(r) ==
    /\ pc[r] = "work" /\ failures < MaxFailures
    /\ failures' = failures + 1
    /\ pc' = [pc EXCEPT ![r] = "idle"]
    /\ op' = [op EXCEPT ![r] = Idle]
    /\ view' = [view EXCEPT ![r] = <<>>]
    /\ UNCHANGED <<books, world, requests, overtaken>>

----------------------------------------------------------------------------
(* The world *)

Tick ==
    /\ clock < MaxClock
    /\ clock' = clock + 1
    /\ UNCHANGED <<over, books, txs, requests, failures, overtaken>>

\* Usage beyond the included amount.
Use ==
    /\ over[MonthOf[clock]] = 0
    /\ over' = [over EXCEPT ![MonthOf[clock]] = 1]
    /\ UNCHANGED <<clock, books, txs, requests, failures, overtaken>>

Next ==
    \/ Tick \/ Use
    \/ \E c \in Clients : Request(c)
    \/ \E w \in Workers : Claim(w)
    \/ \E r \in Procs : Finish(r) \/ Fail(r)

Spec == Init /\ [][Next]_vars

\* The job comes back every hour, and what has started ends.
Fairness == /\ \A r \in Procs : WF_vars(Finish(r))
            /\ WF_vars(\E w \in Workers : Claim(w))

FairSpec == Spec /\ Fairness

----------------------------------------------------------------------------
Statuses == DOMAIN Transitions

\* Rows and transactions are well typed.
TypeOK ==
    /\ clock \in 0..MaxClock
    /\ over \in [Months -> 0..1]
    /\ sub \in [start : Nat, price : Prices, pending : Int]
    /\ PeriodEnd(sub) <= MaxClock + 2
    /\ invoices \in Seq([month : Months, status : Statuses, number : Nat \X Nat,
                         plan : Prices, over : 0..1, total : Nat])
    /\ Len(invoices) <= MaxInvoices
    /\ notices \in [1..MaxInvoices -> Nat] /\ renewals \in [0..MaxClock -> Nat]
    /\ pc \in [Procs -> {"idle", "work"}]
    /\ adjusted \in Int /\ overtaken \in BOOLEAN
    /\ requests \in 0..MaxRequests /\ failures \in 0..MaxFailures

\* "N workers never renew the same subscription twice": a period is rolled at
\* most once, whatever workers, requests and crashes do.
RenewedOnce == \A t \in 0..MaxClock : renewals[t] <= 1

\* Numbers identify the invoices of an organization, also after two finalize
\* calls of one invoice, which count differently.
NumbersUnique == \A i, j \in DOMAIN invoices :
    invoices[i].number = invoices[j].number /\ i # j => invoices[i].number = NoNumber

\* The adjustments an invoice settled: what it charges beyond plan and overage.
Settled == [i \in DOMAIN invoices |-> invoices[i].total - invoices[i].plan - invoices[i].over]

\* What was invoiced and what is still pending add up to what was charged and
\* adjusted: no draft loses or repeats an adjustment or the rest of a credit, as
\* long as no transaction overwrites what it did not see.
MoneyConserved == ~overtaken => SumFunctionOnSet(Settled, DOMAIN invoices) + sub.pending = adjusted

\* "keep its number and issued_at, emit nothing twice": an invoice is announced
\* once, by the job or by a request, unless both had loaded it as a draft.
AnnouncedOnce == ~overtaken =>
    \A i \in DOMAIN invoices : /\ notices[i] <= 1
                               /\ (notices[i] = 1) = (invoices[i].number # NoNumber)

\* Invoices move along INVOICE_TRANSITIONS and keep their number, in every step
\* that had seen the current row.
LegalMoves == [][~overtaken' => \A i \in DOMAIN invoices :
    /\ \/ invoices'[i].status = invoices[i].status
       \/ invoices'[i].status \in Transitions[invoices[i].status]
    /\ invoices[i].number \in {NoNumber, invoices'[i].number}]_vars

\* Every period that ended is renewed, unless some transaction was overtaken
\* (which can leave two drafts of a month, or a number that is taken).
Renews == []~overtaken => (Due ~> ~Due)

\* Nobody is billed twice: a period is rolled once, its invoice has a number of its
\* own and is announced once.
BilledOnce == TypeOK /\ RenewedOnce /\ NumbersUnique /\ AnnouncedOnce
====
