--------------------------- MODULE BillingWebhooks ---------------------------
(***************************************************************************)
(* Billing events of a hosted provider for one organization: the provider  *)
(* (external) moves its subscription and its invoices and reports every    *)
(* move with an event of its own; POST /billing/webhooks/{provider} takes  *)
(* the events in (BillingWebhookService.handle).  The provider retries an  *)
(* event until it is answered with 200, so events may be sent twice, at    *)
(* the same time, and after younger ones.                                  *)
(*                                                                         *)
(* A handler is one READ COMMITTED transaction: it inserts the event into  *)
(* the ledger, loads the row it is about, and commits the changed columns. *)
(***************************************************************************)
EXTENDS Integers, Sequences, FiniteSets

CONSTANTS
    Handlers,     \* webhook requests that may run at the same time
    Invoices,     \* invoices of the provider
    MaxEvent,     \* bound: events the provider emits
    MaxAgain,     \* bound: times it sends an event it had an answer for
    MaxFailures   \* bound: requests that fail and answers that get lost

ASSUME BoundAssumption == MaxEvent \in Nat /\ MaxAgain \in Nat /\ MaxFailures \in Nat

VARIABLES
    \* the provider
    log,          \* the events it emitted; an event's id is its place
    pstat, pref,  \* status and id of its current subscription
    pinv,         \* [invoice -> status]
    acked,        \* events answered with 200
    again,
    \* committed rows
    subs,         \* subscriptions of the organization, by created_at
    invRows,      \* [invoice -> number of rows in invoices]
    invStatus,    \* [invoice -> status]
    ledger,       \* provider_webhook_events
    outbox,       \* [event -> outbox rows its handler appended]
    charges,      \* open invoices recorded by checkouts, which no provider knows
    \* handlers
    pc, ev,
    seen,         \* the row a handler loaded: its place (0: none) and status
    \* history
    handled,      \* [event -> commits that applied or rejected it]
    reordered,    \* some event was sent while an older one was outstanding
    failures

provider == <<log, pstat, pref, pinv>>
network  == <<acked, again, reordered, failures>>
tables   == <<subs, invRows, invStatus, ledger, outbox, charges, handled>>
requests == <<pc, ev, seen>>
vars     == <<provider, network, tables, requests>>

OCCUPYING == {"trialing", "active", "past_due"}

\* ALLOWED_TRANSITIONS
Allowed == [ incomplete |-> {"trialing", "active", "past_due", "canceled"},
             trialing   |-> {"active", "past_due", "canceled", "incomplete"},
             active     |-> {"past_due", "canceled", "unpaid", "active"},
             past_due   |-> {"active", "canceled", "unpaid"},
             unpaid     |-> {"active", "canceled"},
             canceled   |-> {"active"} ]

CanTransition(from, to) == from = to \/ to \in Allowed[from]

Nobody == [row |-> 0, status |-> "none"]

\* The organization starts on the default plan, which no provider knows.
Init ==
    /\ log = <<>>
    /\ pstat = "none" /\ pref = 0
    /\ pinv = [i \in Invoices |-> "none"]
    /\ acked = {} /\ again = 0
    /\ subs = <<[status |-> "active", ref |-> 0]>>
    /\ invRows = [i \in Invoices |-> 0]
    /\ invStatus = [i \in Invoices |-> "none"]
    /\ ledger = {}
    /\ outbox = [e \in 1..MaxEvent |-> 0]
    /\ charges = 0
    /\ pc = [d \in Handlers |-> "idle"]
    /\ ev = [d \in Handlers |-> 0]
    /\ seen = [d \in Handlers |-> Nobody]
    /\ handled = [e \in 1..MaxEvent |-> 0]
    /\ reordered = FALSE
    /\ failures = 0

----------------------------------------------------------------------------
(* The provider *)

Emit(event) ==
    /\ Len(log) < MaxEvent
    /\ log' = Append(log, event)
    /\ UNCHANGED <<network, tables, requests>>

StatusEvent(type, status) == [type |-> type, status |-> status, ref |-> pref]

\* A hosted checkout ends in a new subscription.
Subscribe ==
    /\ pstat \in {"none", "canceled"}
    /\ pstat' = "active" /\ pref' = pref + 1
    /\ Emit([type |-> "checkout", status |-> "active", ref |-> pref + 1])
    /\ UNCHANGED pinv

\* The event that goes with a new subscription.
Created ==
    /\ pstat = "active"
    /\ ~\E e \in 1..Len(log) : log[e].type = "created" /\ log[e].ref = pref
    /\ Emit(StatusEvent("created", "active"))
    /\ UNCHANGED <<pstat, pref, pinv>>

\* An event of a type nobody here knows, or that cannot be translated.
Other ==
    /\ Emit([type |-> "other"])
    /\ UNCHANGED <<pstat, pref, pinv>>

\* Dunning, recovery and end of the subscription.
Move(from, to, type) ==
    /\ pstat \in from
    /\ pstat' = to
    /\ Emit(StatusEvent(type, to))
    /\ UNCHANGED <<pref, pinv>>

\* Attempts to collect an invoice.
Charge(i, outcome) ==
    /\ pref > 0
    /\ pinv[i] # "paid" /\ pinv[i] # outcome
    /\ pinv' = [pinv EXCEPT ![i] = outcome]
    /\ Emit([type |-> "invoice", status |-> outcome, inv |-> i])
    /\ UNCHANGED <<pstat, pref>>

ProviderStep ==
    \/ Subscribe \/ Created \/ Other
    \/ Move({"active"}, "past_due", "updated")
    \/ Move({"active", "past_due"}, "unpaid", "updated")
    \/ Move({"past_due", "unpaid"}, "active", "updated")
    \/ Move({"active", "past_due", "unpaid"}, "canceled", "deleted")
    \/ \E i \in Invoices : Charge(i, "uncollectible") \/ Charge(i, "paid")

\* Event e is sent, for the first time or again.
Send(d, e) ==
    /\ pc[d] = "idle"
    /\ e \in 1..Len(log)
    /\ e \in acked => again < MaxAgain
    /\ again' = IF e \in acked THEN again + 1 ELSE again
    /\ reordered' = (reordered \/ \E f \in 1..(e - 1) : f \notin acked)
    /\ pc' = [pc EXCEPT ![d] = "insert"]
    /\ ev' = [ev EXCEPT ![d] = e]
    /\ UNCHANGED <<provider, acked, failures, tables, seen>>

----------------------------------------------------------------------------
(* The handler *)

Event(d) == log[ev[d]]

End(d) ==
    /\ pc' = [pc EXCEPT ![d] = "idle"]
    /\ ev' = [ev EXCEPT ![d] = 0]
    /\ seen' = [seen EXCEPT ![d] = Nobody]

\* Mutant: the answer of the insert is not looked at.
IsDuplicateNever(e) == FALSE
IsDuplicate(e) == e \in ledger

\* INSERT ... ON CONFLICT DO NOTHING waits for an uncommitted row of the same id.
InsertTurn(d) ==
    /\ pc[d] = "insert"
    /\ \A f \in Handlers \ {d} : ev[f] = ev[d] => pc[f] = "insert"

\* 200 "duplicate": nothing to do.
Duplicate(d) ==
    /\ InsertTurn(d)
    /\ IsDuplicate(ev[d])
    /\ acked' = acked \cup {ev[d]}
    /\ End(d)
    /\ UNCHANGED <<provider, again, reordered, failures, tables>>

Insert(d) ==
    /\ InsertTurn(d)
    /\ ~IsDuplicate(ev[d])
    /\ pc' = [pc EXCEPT ![d] = "load"]
    /\ UNCHANGED <<provider, network, tables, ev, seen>>

\* current_for_org: the newest subscription that occupies the organization.
Current ==
    LET O == {i \in 1..Len(subs) : subs[i].status \in OCCUPYING} IN
    IF O = {} THEN 0 ELSE CHOOSE i \in O : \A j \in O : j <= i

\* The row the event is about, as a SELECT finds it now.
Found(event) ==
    CASE event.type = "other" -> Nobody
      [] event.type = "invoice" ->
            [row |-> invRows[event.inv], status |-> invStatus[event.inv]]
      [] OTHER -> IF Current = 0 THEN Nobody
                  ELSE [row |-> Current, status |-> subs[Current].status]

Load(d) ==
    /\ pc[d] = "load"
    /\ seen' = [seen EXCEPT ![d] = Found(Event(d))]
    /\ pc' = [pc EXCEPT ![d] = "apply"]
    /\ UNCHANGED <<provider, network, tables, ev>>

\* The status _apply asks for; Mutant: event.status is not looked at.
TargetIgnored(event) == IF event.type = "deleted" THEN "canceled" ELSE "active"
Target(event) == CASE event.type = "deleted" -> "canceled"
                   [] event.type = "created" -> "active"
                   [] event.type = "updated" -> event.status

\* An UPDATE names the columns that differ from what was loaded.
Written(loaded, new, there) == IF new = loaded THEN there ELSE new

\* assert_transition; a transition that is not allowed is a DomainError, which
\* undoes the savepoint and leaves its trace on the ledger row only.
Accepts(s, event) == s.row # 0 /\ CanTransition(s.status, Target(event))

\* apply_provider_transition
AfterStatus(s, event) ==
    IF Accepts(s, event)
    THEN [subs EXCEPT ![s.row].status = Written(s.status, Target(event), @)]
    ELSE subs

\* complete_checkout: change_plan on the loaded subscription, or a new one.
AfterCheckout(s, event) ==
    IF s.row = 0 THEN Append(subs, [status |-> "active", ref |-> event.ref])
    ELSE [subs EXCEPT ![s.row].status = Written(s.status, "active", @),
                      ![s.row].ref = event.ref]

AfterSub(d) == CASE Event(d).type = "checkout" -> AfterCheckout(seen[d], Event(d))
                 [] Event(d).type \in {"created", "updated", "deleted"} ->
                        AfterStatus(seen[d], Event(d))
                 [] OTHER -> subs

\* append_outbox: the plan change and the recorded invoice of a checkout, the
\* status change, the payment.
Notices(d) == CASE Event(d).type = "checkout" -> 2
                [] Event(d).type = "invoice" -> IF Event(d).status = "paid" THEN 1 ELSE 0
                [] Event(d).type = "other" -> 0
                [] OTHER -> IF Accepts(seen[d], Event(d)) THEN 1 ELSE 0

\* uq_subscriptions_one_per_org
OnePerOrg(S) == \A i, j \in 1..Len(S) :
    S[i].status \in OCCUPYING /\ S[j].status \in OCCUPYING => i = j

\* uq_invoices_provider_ref: the row appeared since the SELECT.
InsertsInvoice(d) == seen[d].row = 1 \/ invRows[Event(d).inv] = 0

\* The transaction can commit: no constraint stops its writes.
Commits(d) == IF Event(d).type = "invoice" THEN InsertsInvoice(d) ELSE OnePerOrg(AfterSub(d))

\* _apply_status, or complete_checkout with its _record_invoice.
ApplySub(d) ==
    /\ subs' = AfterSub(d)
    /\ charges' = IF Event(d).type = "checkout" THEN charges + 1 ELSE charges
    /\ UNCHANGED <<invRows, invStatus>>

\* _upsert_invoice
ApplyInvoice(d) ==
    LET i == Event(d).inv IN
    /\ invRows' = [invRows EXCEPT ![i] = IF seen[d].row = 0 THEN @ + 1 ELSE @]
    /\ invStatus' = [invStatus EXCEPT ![i] = Written(seen[d].status, Event(d).status, @)]
    /\ UNCHANGED <<subs, charges>>

\* The writes, the ledger row and the commit; then 200, which may get lost.
Apply(d) ==
    /\ pc[d] = "apply" /\ Commits(d)
    /\ IF Event(d).type = "invoice" THEN ApplyInvoice(d) ELSE ApplySub(d)
    /\ ledger' = ledger \cup {ev[d]}
    /\ outbox' = [outbox EXCEPT ![ev[d]] = @ + Notices(d)]
    /\ handled' = [handled EXCEPT ![ev[d]] = @ + 1]
    /\ \/ acked' = acked \cup {ev[d]} /\ UNCHANGED failures
       \/ failures < MaxFailures /\ failures' = failures + 1 /\ UNCHANGED acked
    /\ End(d)
    /\ UNCHANGED <<provider, again, reordered>>

\* Mutant: a failure is answered with 200.
RollBackAcks(d) ==
    /\ acked' = acked \cup {ev[d]}
    /\ End(d)
    /\ UNCHANGED <<provider, again, reordered, tables>>
\* Anything but a DomainError: the ledger row goes with the rest, the answer is 500.
RollBack(d) ==
    /\ End(d)
    /\ UNCHANGED <<provider, acked, again, reordered, tables>>

\* A constraint stopped the commit.
Conflict(d) ==
    /\ pc[d] = "apply" /\ ~Commits(d)
    /\ RollBack(d)
    /\ UNCHANGED failures

\* The database, the network or the process fails.
Fail(d) ==
    /\ pc[d] \in {"insert", "load", "apply"} /\ failures < MaxFailures
    /\ failures' = failures + 1
    /\ RollBack(d)

Handle(d) == Duplicate(d) \/ Insert(d) \/ Load(d) \/ Apply(d) \/ Conflict(d)

Next ==
    \/ ProviderStep
    \/ \E d \in Handlers : \/ \E e \in 1..MaxEvent : Send(d, e)
                           \/ Handle(d) \/ Fail(d)

Spec == Init /\ [][Next]_vars

\* Handlers run to their end, and the provider retries every event it has no
\* answer for.
Fairness ==
    /\ \A d \in Handlers : WF_vars(Handle(d))
    /\ \A e \in 1..MaxEvent : WF_vars(e \notin acked /\ \E d \in Handlers : Send(d, e))

FairSpec == Spec /\ Fairness

----------------------------------------------------------------------------
\* Rows and handlers are well typed; a provider invoice has at most one row.
TypeOK ==
    /\ pstat \in {"none", "active", "past_due", "unpaid", "canceled"} /\ pref \in Nat
    /\ subs \in Seq([status : DOMAIN Allowed, ref : Nat])
    /\ invRows \in [Invoices -> 0..1]
    /\ invStatus \in [Invoices -> {"none", "paid", "uncollectible"}]
    /\ outbox \in [1..MaxEvent -> Nat] /\ charges \in Nat
    /\ ledger \subseteq 1..Len(log) /\ acked \subseteq 1..Len(log)
    /\ pc \in [Handlers -> {"idle", "insert", "load", "apply"}]
    /\ ev \in [Handlers -> 0..Len(log)]
    /\ again \in 0..MaxAgain /\ failures \in 0..MaxFailures /\ reordered \in BOOLEAN

Checkouts == {e \in 1..Len(log) : log[e].type = "checkout"}

\* "duplicate => 200 no-op": however often and however concurrently an event is
\* sent, one transaction at most applies it; the organization's own webhooks
\* hear of it once, and a checkout records one invoice.
AppliedOnce ==
    /\ \A e \in 1..MaxEvent : handled[e] <= 1 /\ (outbox[e] > 0 => handled[e] = 1)
    /\ charges = Cardinality({e \in Checkouts : handled[e] > 0})

\* An event that was answered, or that a retry will be told is a duplicate, was
\* really applied or rejected: no failure in between can lose it.
LedgerMeansHandled ==
    /\ \A e \in ledger : handled[e] = 1
    /\ acked \subseteq ledger

Quiet == acked = 1..Len(log) /\ \A d \in Handlers : pc[d] = "idle"

\* What we believe of the provider's subscription and invoices.
Agrees ==
    /\ pstat \in OCCUPYING => Current # 0 /\ subs[Current] = [status |-> pstat, ref |-> pref]
    /\ pstat \in {"unpaid", "canceled"} => Current = 0
    /\ invStatus = pinv

\* The provider recovered a subscription it had given up as unpaid.  The table
\* allows unpaid -> active, but current_for_org does not find an unpaid row.
Recovered == \E e, f \in 1..Len(log) :
    /\ e < f
    /\ log[e].type = "updated" /\ log[e].status = "unpaid"
    /\ log[f].type = "updated" /\ log[f].status = "active" /\ log[f].ref = log[e].ref

\* Provider retries are safe: events sent one after the other, with failures, lost
\* answers and duplicates, leave our rows in agreement with the provider once all
\* are answered.  Events that overtake each other need not (occurred_at is never
\* compared), and a subscription back from unpaid is not found.
InOrderConverges == ~reordered /\ ~Recovered /\ Quiet => Agrees

\* "the provider's retry re-processes the event": every event ends up handled.
EventsHandled == \A e \in 1..MaxEvent : Len(log) >= e ~> e \in ledger

\* Exactly once: an event that was answered was handled, and no event is handled
\* twice, with duplicates, failures and lost answers.
HandledOnce == TypeOK /\ AppliedOnce /\ LedgerMeansHandled
====
