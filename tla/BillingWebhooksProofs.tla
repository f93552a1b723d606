----------------------- MODULE BillingWebhooksProofs -----------------------
(***************************************************************************)
(* Proofs about BillingWebhooks, for any number of handlers, invoices,     *)
(* events, duplicates and failures: an event is applied once, and events   *)
(* sent in order leave our rows as the provider's.  And about              *)
(* VersionedCache, the cache of what an organization may use.              *)
(***************************************************************************)
EXTENDS BillingWebhooks, VersionedCache, FoldLemmas, FiniteSetTheorems, SequenceTheorems, TLAPS

----------------------------------------------------------------------------
(* The inductive invariant                                                 *)

Statuses == {"incomplete", "trialing", "active", "past_due", "unpaid", "canceled"}

\* What the provider may report.
EventRecord ==
    [type : {"checkout", "created", "updated", "deleted"}, status : Statuses, ref : Nat]
      \cup [type : {"other"}]
      \cup [type : {"invoice"}, status : {"paid", "uncollectible"}, inv : Invoices]

LogInv ==
    /\ log \in Seq(EventRecord) /\ Len(log) <= MaxEvent
    /\ handled \in [1..MaxEvent -> Nat]
    /\ pinv \in [Invoices -> {"none", "paid", "uncollectible"}]

\* A transaction that inserted its event holds it alone until it ends.
HandlerInv ==
    /\ \A d \in Handlers : pc[d] # "idle" => ev[d] \in 1..Len(log)
    /\ \A d \in Handlers : pc[d] \in {"load", "apply"} => ev[d] \notin ledger
    /\ \A d, f \in Handlers :
          d # f /\ pc[d] \in {"load", "apply"} /\ pc[f] \in {"load", "apply"} => ev[d] # ev[f]

\* The ledger is the set of the events that were handled.
LedgerInv ==
    /\ \A e \in 1..MaxEvent : handled[e] = IF e \in ledger THEN 1 ELSE 0
    /\ \A e \in 1..MaxEvent : e \notin ledger => outbox[e] = 0
    /\ acked \subseteq ledger

\* A checkout of the ledger recorded its invoice.
ChargesInv == charges = Cardinality(Checkouts \cap ledger)

IInv == TypeOK /\ LogInv /\ HandlerInv /\ LedgerInv /\ ChargesInv

----------------------------------------------------------------------------
(* Facts about the operators                                               *)

LEMMA AllowedStatuses == DOMAIN Allowed = Statuses
BY DEF Allowed, Statuses

\* The statuses of a provider subscription.
ProviderStatus == {"none", "active", "past_due", "unpaid", "canceled"}

LEMMA LogLength ==
    ASSUME LogInv
    PROVE  Len(log) \in Nat /\ Len(log) <= MaxEvent /\ 1..Len(log) \subseteq 1..MaxEvent
<1>1. Len(log) \in Nat /\ Len(log) <= MaxEvent
  BY LenProperties DEF LogInv
<1> QED
  BY <1>1, BoundAssumption

LEMMA EventType ==
    ASSUME LogInv, HandlerInv, NEW d \in Handlers, pc[d] # "idle"
    PROVE  Event(d) \in EventRecord /\ ev[d] \in 1..MaxEvent
<1>1. log \in Seq(EventRecord) /\ Len(log) <= MaxEvent /\ ev[d] \in 1..Len(log)
  BY DEF LogInv, HandlerInv
<1>2. log[ev[d]] \in EventRecord
  BY <1>1
<1>3. ev[d] \in 1..MaxEvent
  BY <1>1, BoundAssumption
<1> QED
  BY <1>2, <1>3 DEF Event

LEMMA RowType ==
    ASSUME NEW table \in Seq([status : Statuses, ref : Nat]), NEW i \in DOMAIN table
    PROVE  table[i] \in [status : Statuses, ref : Nat] /\ table[i].status \in Statuses
<1> DEFINE S == [status : Statuses, ref : Nat]
<1>1. table \in [DOMAIN table -> S]
  BY LenProperties
<1>2. table[i] \in S
  BY <1>1
<1> QED
  BY <1>2

\* Rewriting a row of a table leaves a table.
LEMMA RowUpdate ==
    ASSUME NEW S, NEW table \in Seq(S), NEW i, NEW row,
           i \in DOMAIN table => row \in S
    PROVE  [table EXCEPT ![i] = row] \in Seq(S)
<1>1. PICK n \in Nat : table \in [1..n -> S]
  BY SeqDef
<1>2. [table EXCEPT ![i] = row] \in [1..n -> S]
  BY <1>1
<1> QED
  BY <1>2, SeqDef

LEMMA RowColumns ==
    ASSUME NEW row \in [status : Statuses, ref : Nat], NEW status \in Statuses, NEW ref \in Nat
    PROVE  /\ [row EXCEPT !.status = status] \in [status : Statuses, ref : Nat]
           /\ [row EXCEPT !.ref = ref] \in [status : Statuses, ref : Nat]
OBVIOUS

\* Rows keep their types, whatever a handler loaded before.
LEMMA AfterSubType ==
    ASSUME IInv, NEW d \in Handlers, pc[d] = "apply"
    PROVE  AfterSub(d) \in Seq([status : Statuses, ref : Nat])
<1> DEFINE S == [status : Statuses, ref : Nat]
           event == Event(d)
           s == seen[d]
<1>1. subs \in Seq(S) /\ event \in EventRecord
  BY EventType, AllowedStatuses DEF IInv, TypeOK
<1>2. CASE event.type \in {"created", "updated", "deleted"}
  <2>1. Target(event) \in Statuses
    BY <1>1, <1>2 DEF EventRecord, Target, Statuses
  <2>2. AfterSub(d) = AfterStatus(s, event)
    BY <1>2 DEF AfterSub
  <2> HIDE DEF event, s
  <2> DEFINE row == [subs[s.row] EXCEPT !.status = Written(s.status, Target(event), @)]
  <2>3. s.row \in DOMAIN subs => row \in S
    <3>1. ASSUME s.row \in DOMAIN subs
          PROVE  subs[s.row] \in S /\ subs[s.row].status \in Statuses
      BY <1>1, <3>1, RowType
    <3>2. ASSUME s.row \in DOMAIN subs
          PROVE  Written(s.status, Target(event), subs[s.row].status) \in Statuses
      BY <2>1, <3>1, <3>2 DEF Written
    <3> QED
      BY <2>1, <3>1, <3>2, RowColumns
  <2>4. AfterStatus(s, event) = IF Accepts(s, event) THEN [subs EXCEPT ![s.row] = row] ELSE subs
    BY DEF AfterStatus
  <2> HIDE DEF row
  <2>5. AfterStatus(s, event) \in Seq(S)
    BY <1>1, <2>3, <2>4, RowUpdate
  <2> QED
    BY <2>2, <2>5
<1>3. CASE event.type = "checkout"
  <2>1. event.ref \in Nat /\ "active" \in Statuses
    BY <1>1, <1>3 DEF EventRecord, Statuses
  <2>2. AfterSub(d) = AfterCheckout(s, event)
    BY <1>3 DEF AfterSub
  <2> HIDE DEF event, s
  <2> DEFINE row == [[subs[s.row] EXCEPT !.status = Written(s.status, "active", @)] EXCEPT !.ref = event.ref]
             new == [status |-> "active", ref |-> event.ref]
  <2>3. s.row \in DOMAIN subs => row \in S
    <3>1. ASSUME s.row \in DOMAIN subs
          PROVE  subs[s.row] \in S /\ subs[s.row].status \in Statuses
      BY <1>1, <3>1, RowType
    <3>2. ASSUME s.row \in DOMAIN subs
          PROVE  Written(s.status, "active", subs[s.row].status) \in Statuses
      BY <2>1, <3>1, <3>2 DEF Written
    <3> QED
      BY <2>1, <3>1, <3>2, RowColumns
  <2>4. AfterCheckout(s, event) = IF s.row = 0 THEN Append(subs, new) ELSE [subs EXCEPT ![s.row] = row]
    BY DEF AfterCheckout
  <2>5. Append(subs, new) \in Seq(S)
    BY <1>1, <2>1
  <2> HIDE DEF row, new
  <2>6. [subs EXCEPT ![s.row] = row] \in Seq(S)
    BY <1>1, <2>3, RowUpdate
  <2>7. AfterCheckout(s, event) \in Seq(S)
    BY <2>4, <2>5, <2>6, Zenon
  <2> QED
    BY <2>2, <2>7
<1>4. CASE event.type \in {"other", "invoice"}
  BY <1>1, <1>4 DEF AfterSub
<1> QED
  BY <1>1, <1>2, <1>3, <1>4 DEF EventRecord

LEMMA NoticesType ==
    ASSUME IInv, NEW d \in Handlers, pc[d] = "apply"
    PROVE  Notices(d) \in Nat
<1>1. Event(d) \in EventRecord
  BY EventType DEF IInv
<1> QED
  BY <1>1 DEF EventRecord, Notices

----------------------------------------------------------------------------
(* The invariant holds initially and every step keeps it                   *)

LEMMA InitInv == Init => IInv
<1> SUFFICES ASSUME Init PROVE IInv
  OBVIOUS
<1> USE BoundAssumption DEF Init
<1>1. TypeOK
  <2>1. subs \in Seq([status : DOMAIN Allowed, ref : Nat])
    BY AllowedStatuses DEF Statuses
  <2>2. Len(log) = 0
    OBVIOUS
  <2>3. /\ invRows \in [Invoices -> 0..1]
        /\ invStatus \in [Invoices -> {"none", "paid", "uncollectible"}]
        /\ outbox \in [1..MaxEvent -> Nat] /\ charges \in Nat
    OBVIOUS
  <2>4. /\ pc \in [Handlers -> {"idle", "insert", "load", "apply"}]
        /\ ev \in [Handlers -> 0..Len(log)]
        /\ again \in 0..MaxAgain /\ failures \in 0..MaxFailures
    BY <2>2
  <2>5. /\ pstat \in {"none", "active", "past_due", "unpaid", "canceled"} /\ pref \in Nat
        /\ ledger \subseteq 1..Len(log) /\ acked \subseteq 1..Len(log)
    OBVIOUS
  <2>6. reordered \in BOOLEAN
    BY Zenon
  <2> QED
    BY <2>1, <2>3, <2>4, <2>5, <2>6, Zenon DEF TypeOK
<1>2. LogInv /\ HandlerInv /\ LedgerInv
  BY DEF LogInv, HandlerInv, LedgerInv
<1>3. ChargesInv
  <2>1. Checkouts \cap ledger = {}
    OBVIOUS
  <2> QED
    BY <2>1, FS_EmptySet DEF ChargesInv
<1> QED
  BY <1>1, <1>2, <1>3 DEF IInv

\* A new event is one that nobody has handled.
LEMMA EmitKeeps ==
    ASSUME IInv, NEW event \in EventRecord, Emit(event),
           pstat' \in ProviderStatus, pref' \in Nat,
           pinv' \in [Invoices -> {"none", "paid", "uncollectible"}]
    PROVE  IInv'
<1> USE DEF network, tables, requests
<1>0. /\ Len(log) \in Nat /\ Len(log) < MaxEvent
      /\ log' = Append(log, event) /\ log \in Seq(EventRecord)
  BY DEF IInv, LogInv, Emit
<1>1. /\ log' \in Seq(EventRecord) /\ Len(log') = Len(log) + 1
      /\ \A e \in 1..Len(log) : log'[e] = log[e]
  BY <1>0
<1>2. TypeOK'
  BY <1>0, <1>1 DEF IInv, TypeOK, Emit, ProviderStatus
<1>3. LogInv' /\ HandlerInv' /\ LedgerInv'
  BY <1>0, <1>1, BoundAssumption DEF IInv, LogInv, HandlerInv, LedgerInv, Emit, TypeOK
<1>4. (Checkouts \cap ledger)' = Checkouts \cap ledger
  BY <1>0, <1>1 DEF IInv, TypeOK, Checkouts, Emit
<1>5. ChargesInv'
  BY <1>4 DEF IInv, ChargesInv, Emit
<1> QED
  BY <1>2, <1>3, <1>5 DEF IInv

LEMMA ProviderKeeps == ASSUME IInv, ProviderStep PROVE IInv'
<1>0. pstat \in ProviderStatus /\ pref \in Nat /\ pinv \in [Invoices -> {"none", "paid", "uncollectible"}]
  BY DEF IInv, TypeOK, LogInv, ProviderStatus
<1>1. CASE Subscribe
  <2>1. [type |-> "checkout", status |-> "active", ref |-> pref + 1] \in EventRecord
    BY <1>0 DEF EventRecord, Statuses
  <2> QED
    BY <1>0, <1>1, <2>1, EmitKeeps DEF Subscribe, ProviderStatus
<1>2. CASE Created
  <2>1. StatusEvent("created", "active") \in EventRecord
    BY <1>0 DEF EventRecord, Statuses, StatusEvent
  <2> QED
    BY <1>0, <1>2, <2>1, EmitKeeps DEF Created
<1>3. CASE Other
  <2>1. [type |-> "other"] \in EventRecord
    BY DEF EventRecord
  <2> QED
    BY <1>0, <1>3, <2>1, EmitKeeps DEF Other
<1>4. ASSUME NEW from, NEW to \in ProviderStatus \ {"none"}, NEW type \in {"updated", "deleted"},
             Move(from, to, type)
      PROVE  IInv'
  <2>1. StatusEvent(type, to) \in EventRecord
    BY <1>0 DEF EventRecord, Statuses, StatusEvent, ProviderStatus
  <2> QED
    BY <1>0, <1>4, <2>1, EmitKeeps DEF Move
<1>5. ASSUME NEW i \in Invoices, NEW outcome \in {"paid", "uncollectible"}, Charge(i, outcome)
      PROVE  IInv'
  <2>1. [type |-> "invoice", status |-> outcome, inv |-> i] \in EventRecord
    BY DEF EventRecord
  <2> QED
    BY <1>0, <1>5, <2>1, EmitKeeps DEF Charge
<1> QED
  BY <1>1, <1>2, <1>3, <1>4, <1>5 DEF ProviderStep, ProviderStatus

\* A handler that ends without a commit leaves the tables as they are.
LEMMA EndKeeps ==
    ASSUME IInv, NEW d \in Handlers, End(d), UNCHANGED <<provider, again, reordered, tables>>,
           failures' \in 0..MaxFailures,
           acked' = acked \/ (ev[d] \in ledger /\ acked' = acked \cup {ev[d]})
    PROVE  IInv'
<1> USE DEF provider, tables, End
<1>0. Len(log) \in Nat
  BY LogLength DEF IInv
<1>a. acked' \subseteq 1..Len(log)
  <2>1. ledger \subseteq 1..Len(log) /\ acked \subseteq 1..Len(log)
    BY DEF IInv, TypeOK
  <2> QED
    BY <2>1
<1>b. /\ pc' \in [Handlers -> {"idle", "insert", "load", "apply"}]
      /\ ev' \in [Handlers -> 0..Len(log)]
  BY <1>0 DEF IInv, TypeOK
<1>1. TypeOK'
  BY <1>a, <1>b DEF IInv, TypeOK
<1>2. LogInv' /\ HandlerInv' /\ LedgerInv'
  BY DEF IInv, TypeOK, LogInv, HandlerInv, LedgerInv
<1>3. ChargesInv'
  BY DEF IInv, ChargesInv, Checkouts
<1> QED
  BY <1>1, <1>2, <1>3 DEF IInv

\* The commit: the event was in nobody's ledger, and no other handler holds it.
LEMMA ApplyKeeps ==
    ASSUME IInv, NEW d \in Handlers, Apply(d)
    PROVE  IInv'
<1> USE DEF provider, tables
<1>0. /\ TypeOK /\ LogInv /\ HandlerInv /\ LedgerInv /\ ChargesInv
      /\ pc[d] = "apply" /\ End(d) /\ Commits(d)
      /\ UNCHANGED <<provider, again, reordered>>
      /\ ledger' = ledger \cup {ev[d]}
      /\ outbox' = [outbox EXCEPT ![ev[d]] = @ + Notices(d)]
      /\ handled' = [handled EXCEPT ![ev[d]] = @ + 1]
  BY DEF IInv, Apply
<1>a. acked' \subseteq acked \cup {ev[d]} /\ failures' \in 0..MaxFailures
  BY <1>0, BoundAssumption DEF Apply, TypeOK
<1>b. /\ Event(d) \in EventRecord /\ ev[d] \in 1..MaxEvent /\ ev[d] \in 1..Len(log)
      /\ ev[d] \notin ledger /\ Notices(d) \in Nat
  BY <1>0, EventType, NoticesType DEF HandlerInv
<1>1. subs' \in Seq([status : DOMAIN Allowed, ref : Nat])
  <2>1. subs' = subs \/ subs' = AfterSub(d)
    BY DEF Apply, ApplyInvoice, ApplySub
  <2> QED
    BY <1>0, <2>1, AfterSubType, AllowedStatuses DEF TypeOK
<1>2. /\ invRows' \in [Invoices -> 0..1]
      /\ invStatus' \in [Invoices -> {"none", "paid", "uncollectible"}]
  <2>1. CASE Event(d).type = "invoice"
    <3>1. /\ Event(d).inv \in Invoices /\ Event(d).status \in {"paid", "uncollectible"}
          /\ ApplyInvoice(d) /\ InsertsInvoice(d)
      BY <1>0, <1>b, <2>1 DEF EventRecord, Apply, Commits
    <3>2. invRows' \in [Invoices -> 0..1]
      BY <1>0, <3>1 DEF ApplyInvoice, InsertsInvoice, TypeOK
    <3>3. invStatus' \in [Invoices -> {"none", "paid", "uncollectible"}]
      BY <1>0, <3>1 DEF ApplyInvoice, Written, TypeOK
    <3> QED
      BY <3>2, <3>3
  <2>2. CASE Event(d).type # "invoice"
    BY <1>0, <2>2 DEF Apply, ApplySub, TypeOK
  <2> QED
    BY <2>1, <2>2
<1>3. /\ charges' = charges + IF Event(d).type = "checkout" THEN 1 ELSE 0
      /\ charges' \in Nat
  BY <1>0 DEF Apply, ApplyInvoice, ApplySub, TypeOK
<1>4. /\ outbox' \in [1..MaxEvent -> Nat]
      /\ handled' \in [1..MaxEvent -> Nat]
      /\ ledger' \subseteq 1..Len(log) /\ acked' \subseteq 1..Len(log)
  <2>1. /\ outbox \in [1..MaxEvent -> Nat] /\ handled \in [1..MaxEvent -> Nat]
        /\ ledger \subseteq 1..Len(log) /\ acked \subseteq 1..Len(log)
    BY <1>0 DEF TypeOK, LogInv
  <2>2. outbox' \in [1..MaxEvent -> Nat] /\ handled' \in [1..MaxEvent -> Nat]
    BY <1>0, <1>b, <2>1
  <2>3. ledger' \subseteq 1..Len(log) /\ acked' \subseteq 1..Len(log)
    BY <1>0, <1>a, <1>b, <2>1
  <2> QED
    BY <2>2, <2>3
<1>5. /\ pc' \in [Handlers -> {"idle", "insert", "load", "apply"}]
      /\ ev' \in [Handlers -> 0..Len(log)]
  BY <1>0 DEF TypeOK, LogInv, End
<1>6. TypeOK'
  BY <1>0, <1>a, <1>1, <1>2, <1>3, <1>4, <1>5 DEF TypeOK
<1>7. LogInv'
  BY <1>0, <1>4 DEF LogInv
<1>8. HandlerInv'
  BY <1>0, <1>b DEF HandlerInv, TypeOK, End
<1>9. LedgerInv'
  BY <1>0, <1>a, <1>b DEF LedgerInv, TypeOK, LogInv
<1>10. ChargesInv'
  <2> DEFINE C == Checkouts \cap ledger
  <2>1. IsFiniteSet(C)
    <3>1. IsFiniteSet(1..Len(log))
      BY <1>0, LogLength, FS_Interval
    <3>2. C \in SUBSET (1..Len(log))
      BY <1>0 DEF Checkouts, TypeOK
    <3> QED
      BY <3>1, <3>2, FS_Subset
  <2>2. C' = IF Event(d).type = "checkout" THEN C \cup {ev[d]} ELSE C
    BY <1>0, <1>b DEF Checkouts, Event
  <2>3. ev[d] \notin C
    BY <1>b
  <2>4. Cardinality(C) = charges
    BY <1>0 DEF ChargesInv
  <2> HIDE DEF C
  <2>5. Cardinality(C') = charges'
    BY <1>3, <2>1, <2>2, <2>3, <2>4, FS_AddElement, FS_CardinalityType
  <2> QED
    BY <2>5 DEF ChargesInv, C
<1> QED
  BY <1>6, <1>7, <1>8, <1>9, <1>10 DEF IInv

LEMMA HandlerKeeps ==
    ASSUME IInv, NEW d \in Handlers, (\E e \in 1..MaxEvent : Send(d, e)) \/ Handle(d) \/ Fail(d)
    PROVE  IInv'
<1> USE DEF provider, tables, network, requests
<1>0. TypeOK /\ LogInv /\ HandlerInv /\ LedgerInv /\ ChargesInv
  BY DEF IInv
<1>1. ASSUME NEW e \in 1..MaxEvent, Send(d, e)
      PROVE  IInv'
  <2>1. again' \in 0..MaxAgain
    BY <1>0, <1>1, BoundAssumption DEF Send, TypeOK
  <2>2. reordered' \in BOOLEAN
    BY <1>1, Zenon DEF Send
  <2>3. TypeOK'
    BY <1>0, <1>1, <2>1, <2>2 DEF Send, TypeOK, LogInv
  <2>4. LogInv' /\ HandlerInv' /\ LedgerInv'
    BY <1>0, <1>1 DEF Send, TypeOK, LogInv, HandlerInv, LedgerInv
  <2>5. ChargesInv'
    BY <1>0, <1>1 DEF Send, ChargesInv, Checkouts
  <2> QED
    BY <2>3, <2>4, <2>5 DEF IInv
<1>2. CASE Duplicate(d)
  BY <1>0, <1>2, EndKeeps DEF Duplicate, IsDuplicate, TypeOK
<1>3. CASE Insert(d)
  <2>1. TypeOK'
    BY <1>0, <1>3 DEF Insert, TypeOK
  <2>2. LogInv' /\ LedgerInv'
    BY <1>0, <1>3 DEF Insert, LogInv, LedgerInv
  <2>3. HandlerInv'
    BY <1>0, <1>3 DEF Insert, InsertTurn, IsDuplicate, TypeOK, HandlerInv
  <2>4. ChargesInv'
    BY <1>0, <1>3 DEF Insert, ChargesInv, Checkouts
  <2> QED
    BY <2>1, <2>2, <2>3, <2>4 DEF IInv
<1>4. CASE Load(d)
  <2>0. /\ pc[d] = "load" /\ pc' = [pc EXCEPT ![d] = "apply"]
        /\ UNCHANGED <<provider, network, tables, ev>>
    BY <1>4 DEF Load
  <2>1. TypeOK'
    BY <1>0, <2>0 DEF TypeOK
  <2>2. LogInv' /\ LedgerInv' /\ HandlerInv'
    BY <1>0, <2>0 DEF LogInv, LedgerInv, TypeOK, HandlerInv
  <2>3. ChargesInv'
    BY <1>0, <2>0 DEF ChargesInv, Checkouts
  <2> QED
    BY <2>1, <2>2, <2>3 DEF IInv
<1>5. CASE Apply(d)
  BY <1>5, ApplyKeeps
<1>6. CASE Conflict(d)
  BY <1>0, <1>6, EndKeeps DEF Conflict, RollBack, TypeOK
<1>7. CASE Fail(d)
  BY <1>0, <1>7, EndKeeps, BoundAssumption DEF Fail, RollBack, TypeOK
<1> QED
  BY <1>1, <1>2, <1>3, <1>4, <1>5, <1>6, <1>7 DEF Handle

LEMMA InvStep == IInv /\ [Next]_vars => IInv'
<1> SUFFICES ASSUME IInv, [Next]_vars PROVE IInv'
  OBVIOUS
<1>1. CASE Next
  BY <1>1, ProviderKeeps, HandlerKeeps DEF Next
<1>2. CASE UNCHANGED vars
  BY <1>2 DEF vars, provider, network, tables, requests, IInv, TypeOK, LogInv, HandlerInv, LedgerInv,
      ChargesInv, Checkouts
<1> QED
  BY <1>1, <1>2

----------------------------------------------------------------------------
\* BillingWebhookService.handle, for any number of deliveries of the same event at
\* the same time: no event is applied or announced twice, a checkout records one
\* invoice, and an event that was answered with 200, or that a retry is told is a
\* duplicate, was really applied or rejected.
THEOREM EventsHandledOnce == Spec => []HandledOnce
<1>1. IInv => HandledOnce
  <2> SUFFICES ASSUME IInv PROVE HandledOnce
    OBVIOUS
  <2>0. ledger \subseteq 1..MaxEvent /\ Checkouts \subseteq 1..MaxEvent
    BY LogLength DEF IInv, TypeOK, Checkouts
  <2>1. \A e \in 1..MaxEvent : /\ handled[e] > 0 <=> e \in ledger
                               /\ handled[e] <= 1
                               /\ e \in ledger => handled[e] = 1
                               /\ e \notin ledger => outbox[e] = 0
    BY DEF IInv, LedgerInv
  <2>2. LedgerMeansHandled
    BY <2>0, <2>1 DEF IInv, LedgerInv, LedgerMeansHandled
  <2>3. {e \in Checkouts : handled[e] > 0} = Checkouts \cap ledger
    BY <2>0, <2>1
  <2>4. AppliedOnce
    BY <2>1, <2>3 DEF IInv, ChargesInv, AppliedOnce
  <2> QED
    BY <2>2, <2>4 DEF IInv, HandledOnce
<1> QED
  BY InitInv, InvStep, <1>1, PTL DEF Spec

----------------------------------------------------------------------------
(* Events sent in order leave our rows in agreement with the provider      *)

Latest(S, e) == e \in S /\ \A f \in S : f <= e
Before(S, e) == {f \in S : f < e}

\* The events of the subscription, and of an invoice.
SubEvents == {e \in 1..Len(log) : log[e].type \in {"checkout", "created", "updated", "deleted"}}
InvEvents(i) == {e \in 1..Len(log) : log[e].type = "invoice" /\ log[e].inv = i}

\* The moves the provider makes between two checkouts.
Leads(a, b) ==
    /\ a.ref = b.ref
    /\ \/ b.type = "created" /\ b.status = "active" /\ a.status = "active"
       \/ b.type = "updated" /\ b.status = "past_due" /\ a.status = "active"
       \/ b.type = "updated" /\ b.status = "unpaid" /\ a.status \in {"active", "past_due"}
       \/ b.type = "updated" /\ b.status = "active" /\ a.status \in {"past_due", "unpaid"}
       \/ b.type = "deleted" /\ b.status = "canceled" /\ a.status \in {"active", "past_due", "unpaid"}

\* An event of the subscription tells its state, and follows the one before.
SubLog ==
    /\ SubEvents = {} => pstat = "none"
    /\ \A e \in SubEvents : Latest(SubEvents, e) => pstat = log[e].status /\ pref = log[e].ref
    /\ \A e \in SubEvents :
         /\ log[e].status \in {"active", "past_due", "unpaid", "canceled"}
         /\ log[e].status = "unpaid" => log[e].type = "updated"
         /\ log[e].type = "checkout" => log[e].status = "active"
         /\ log[e].type # "checkout" =>
               \E p \in SubEvents : Latest(Before(SubEvents, e), p) /\ Leads(log[p], log[e])

\* The last event of an invoice tells its status.
InvLog == \A i \in Invoices :
    /\ InvEvents(i) = {} => pinv[i] = "none"
    /\ \A e \in InvEvents(i) : Latest(InvEvents(i), e) => pinv[i] = log[e].status

\* What is in hand or in the ledger was sent when all older events were answered.
InOrder == ~reordered =>
    /\ \A e \in ledger : 1..(e - 1) \subseteq acked
    /\ \A d \in Handlers : pc[d] # "idle" => 1..(ev[d] - 1) \subseteq acked

\* No commit came between the SELECT of a handler and its writes.
Fresh ==
    /\ DOMAIN seen = Handlers
    /\ ~reordered => \A d \in Handlers : pc[d] = "apply" => seen[d] = Found(Event(d))

\* The subscription row says what event e says.
Follows(e) ==
    /\ log[e].status \in OCCUPYING =>
          Current # 0 /\ subs[Current] = [status |-> log[e].status, ref |-> log[e].ref]
    /\ log[e].status \notin OCCUPYING => Current = 0

\* The rows follow the last event of the ledger.
SubsFollow ==
    /\ OnePerOrg(subs)
    /\ ~reordered /\ ~Recovered =>
          \A e \in SubEvents : Latest(SubEvents \cap ledger, e) => Follows(e)
InvoicesFollow == ~reordered => \A i \in Invoices :
    /\ InvEvents(i) \cap ledger = {} => invStatus[i] = "none"
    /\ \A e \in InvEvents(i) : Latest(InvEvents(i) \cap ledger, e) => invStatus[i] = log[e].status

OrderInv == SubLog /\ InvLog /\ InOrder /\ Fresh /\ SubsFollow /\ InvoicesFollow

----------------------------------------------------------------------------

LEMMA OrderInit == Init => OrderInv
<1> SUFFICES ASSUME Init PROVE OrderInv
  OBVIOUS
<1>1. Len(log) = 0 /\ ledger = {} /\ Len(subs) = 1 /\ \A d \in Handlers : pc[d] = "idle"
  BY DEF Init
<1>2. SubEvents = {} /\ \A i \in Invoices : InvEvents(i) = {}
  BY <1>1 DEF SubEvents, InvEvents
<1>3. SubLog /\ InvLog
  BY <1>2 DEF Init, SubLog, InvLog
<1>4. InOrder /\ Fresh
  BY <1>1 DEF Init, InOrder, Fresh
<1>5. OnePerOrg(subs)
  BY <1>1 DEF OnePerOrg
<1>6. SubsFollow /\ InvoicesFollow
  BY <1>2, <1>5 DEF SubsFollow, InvoicesFollow, Init
<1> QED
  BY <1>3, <1>4, <1>6 DEF OrderInv

\* A set of events has a last one.
LEMMA LastOf ==
    ASSUME NEW n \in Nat, NEW S \in SUBSET (1..n), S # {}
    PROVE  \E e \in S : Latest(S, e)
<1>1. IsFiniteSet(S) /\ S \in SUBSET Int
  <2>1. IsFiniteSet(1..n)
    BY FS_Interval
  <2>2. IsFiniteSet(S)
    BY <2>1, FS_Subset
  <2> QED
    BY <2>2
<1>2. Max(S) \in S /\ \A f \in S : f <= Max(S)
  BY <1>1, MaxIs
<1> QED
  BY <1>2 DEF Latest

\* What another event appended to the log changes for those before it.
LEMMA LogGrows ==
    ASSUME IInv, NEW event \in EventRecord, Emit(event)
    PROVE  /\ Len(log) \in Nat /\ Len(log') = Len(log) + 1 /\ log'[Len(log) + 1] = event
           /\ \A e \in 1..Len(log) : log'[e] = log[e] /\ e \in 1..Len(log')
           /\ SubEvents' = IF event.type \in {"checkout", "created", "updated", "deleted"}
                           THEN SubEvents \cup {Len(log) + 1} ELSE SubEvents
           /\ \A i \in Invoices : InvEvents(i)' = IF event.type = "invoice" /\ event.inv = i
                           THEN InvEvents(i) \cup {Len(log) + 1} ELSE InvEvents(i)
           /\ ledger' = ledger /\ ledger \in SUBSET (1..Len(log))
<1>1. /\ log \in Seq(EventRecord) /\ log' = Append(log, event)
      /\ ledger' = ledger /\ ledger \in SUBSET (1..Len(log))
  BY DEF IInv, LogInv, TypeOK, Emit, tables
<1>2. /\ Len(log) \in Nat /\ Len(log') = Len(log) + 1 /\ log'[Len(log) + 1] = event
      /\ \A e \in 1..Len(log) : log'[e] = log[e] /\ e \in 1..Len(log')
  BY <1>1
<1>3. SubEvents' = IF event.type \in {"checkout", "created", "updated", "deleted"}
                   THEN SubEvents \cup {Len(log) + 1} ELSE SubEvents
  BY <1>2 DEF SubEvents
<1>4. \A i \in Invoices : InvEvents(i)' = IF event.type = "invoice" /\ event.inv = i
                   THEN InvEvents(i) \cup {Len(log) + 1} ELSE InvEvents(i)
  BY <1>2 DEF InvEvents
<1> QED
  BY <1>1, <1>2, <1>3, <1>4

\* What does not depend on the log stays when an event is appended.
LEMMA RowsOutliveEmit ==
    ASSUME IInv, OrderInv, NEW event \in EventRecord, Emit(event)
    PROVE  InOrder' /\ Fresh' /\ SubsFollow' /\ InvoicesFollow'
<1> USE DEF network, tables, requests
<1>0. HandlerInv /\ TypeOK /\ InOrder /\ Fresh /\ SubsFollow /\ InvoicesFollow
  BY DEF IInv, OrderInv
<1>1. /\ Len(log) \in Nat /\ Len(log') = Len(log) + 1
      /\ \A e \in 1..Len(log) : log'[e] = log[e] /\ e \in 1..Len(log')
      /\ ledger \in SUBSET (1..Len(log))
      /\ UNCHANGED <<network, tables, requests>>
  BY LogGrows DEF Emit
<1>2. (SubEvents \cap ledger)' = SubEvents \cap ledger
  BY <1>1, LogGrows
<1>3. \A i \in Invoices : (InvEvents(i) \cap ledger)' = InvEvents(i) \cap ledger
  BY <1>1, LogGrows
<1>4. Recovered => Recovered'
  <2> SUFFICES ASSUME Recovered PROVE Recovered'
    OBVIOUS
  <2>1. PICK e, f \in 1..Len(log) :
           /\ e < f
           /\ log[e].type = "updated" /\ log[e].status = "unpaid"
           /\ log[f].type = "updated" /\ log[f].status = "active" /\ log[f].ref = log[e].ref
    BY DEF Recovered
  <2>2. /\ e \in 1..Len(log') /\ f \in 1..Len(log')
        /\ log'[e] = log[e] /\ log'[f] = log[f]
    BY <1>1, <2>1
  <2> QED
    BY <2>1, <2>2 DEF Recovered
<1>5. Current' = Current
  BY <1>1 DEF Current
<1>6. InOrder'
  BY <1>0, <1>1 DEF InOrder
<1>7. Fresh'
  <2> SUFFICES ASSUME ~reordered, NEW d \in Handlers, pc[d] = "apply"
               PROVE  seen'[d] = Found(Event(d))'
    BY <1>0, <1>1 DEF Fresh
  <2>1. Event(d)' = Event(d)
    BY <1>0, <1>1 DEF Event, HandlerInv
  <2>2. Found(Event(d))' = Found(Event(d))
    BY <1>1, <1>5, <2>1 DEF Found
  <2> QED
    BY <1>0, <1>1, <2>2 DEF Fresh
<1>8. SubsFollow'
  <2>1. \A e \in ledger : Follows(e) => Follows(e)'
    BY <1>1, <1>5 DEF Follows
  <2>2. OnePerOrg(subs)'
    BY <1>0, <1>1 DEF SubsFollow
  <2>3. ASSUME ~reordered, ~Recovered', NEW e \in SubEvents', Latest(SubEvents \cap ledger, e)
        PROVE  Follows(e)'
    <3>1. e \in SubEvents /\ e \in ledger
      BY <2>3 DEF Latest
    <3> QED
      BY <1>0, <1>4, <2>1, <2>3, <3>1 DEF SubsFollow
  <2> QED
    BY <1>1, <1>2, <2>2, <2>3 DEF SubsFollow, Latest
<1>9. InvoicesFollow'
  <2> SUFFICES ASSUME ~reordered, NEW i \in Invoices
               PROVE  /\ InvEvents(i) \cap ledger = {} => invStatus[i] = "none"
                      /\ \A e \in InvEvents(i)' : Latest(InvEvents(i) \cap ledger, e)
                                                     => invStatus[i] = log'[e].status
    BY <1>1, <1>3 DEF InvoicesFollow, Latest
  <2>1. InvEvents(i) \cap ledger = {} => invStatus[i] = "none"
    BY <1>0 DEF InvoicesFollow
  <2>2. ASSUME NEW e, Latest(InvEvents(i) \cap ledger, e)
        PROVE  invStatus[i] = log'[e].status
    <3>1. e \in InvEvents(i) /\ e \in ledger
      BY <2>2 DEF Latest
    <3> QED
      BY <1>0, <1>1, <2>2, <3>1 DEF InvoicesFollow
  <2> QED
    BY <2>1, <2>2
<1> QED
  BY <1>6, <1>7, <1>8, <1>9

\* An event of the subscription comes with the state it tells.
LEMMA SubEmitted ==
    ASSUME IInv, OrderInv, NEW event \in EventRecord, Emit(event),
           event.type \in {"checkout", "created", "updated", "deleted"},
           event.status \in {"active", "past_due", "unpaid", "canceled"},
           event.status = "unpaid" => event.type = "updated",
           event.type = "checkout" => event.status = "active",
           event.type # "checkout" =>
              pstat # "none" /\ Leads([status |-> pstat, ref |-> pref], event),
           pstat' = event.status, pref' = event.ref
    PROVE  SubLog'
<1> DEFINE n == Len(log) + 1
<1>1. /\ Len(log) \in Nat /\ log'[n] = event
      /\ \A e \in 1..Len(log) : log'[e] = log[e]
      /\ SubEvents' = SubEvents \cup {n}
      /\ SubEvents \in SUBSET (1..Len(log))
  BY LogGrows DEF SubEvents
<1>2. SubLog
  BY DEF OrderInv
<1>3. ASSUME NEW e \in SubEvents', Latest(SubEvents', e) PROVE e = n
  BY <1>1, <1>3 DEF Latest
<1>4. ASSUME NEW e \in SubEvents, log[e].type # "checkout"
      PROVE  \E p \in SubEvents' : Latest(Before(SubEvents', e), p) /\ Leads(log'[p], log'[e])
  <2>1. PICK p \in SubEvents : Latest(Before(SubEvents, e), p) /\ Leads(log[p], log[e])
    BY <1>2, <1>4 DEF SubLog
  <2>2. Before(SubEvents', e) = Before(SubEvents, e)
    BY <1>1 DEF Before
  <2>3. log'[p] = log[p] /\ log'[e] = log[e] /\ p \in SubEvents'
    BY <1>1
  <2> QED
    BY <2>1, <2>2, <2>3
<1>5. ASSUME event.type # "checkout"
      PROVE  \E p \in SubEvents' : Latest(Before(SubEvents', n), p) /\ Leads(log'[p], log'[n])
  <2>1. SubEvents # {} /\ Leads([status |-> pstat, ref |-> pref], event)
    BY <1>2, <1>5 DEF SubLog
  <2>2. PICK p \in SubEvents : Latest(SubEvents, p)
    BY <1>1, <2>1, LastOf
  <2>3. pstat = log[p].status /\ pref = log[p].ref
    BY <1>2, <2>2 DEF SubLog
  <2>4. Before(SubEvents', n) = SubEvents
    <3>1. ~(n < n) /\ \A e \in SubEvents : e < n
      BY <1>1
    <3> HIDE DEF n
    <3>2. SubEvents' = SubEvents \cup {n}
      BY <1>1
    <3> QED
      BY <3>1, <3>2 DEF Before
  <2>5. Leads(log[p], event)
    BY <2>1, <2>3 DEF Leads
  <2> QED
    BY <1>1, <2>2, <2>4, <2>5
<1>6. ASSUME NEW e \in SubEvents'
      PROVE  /\ log'[e].status \in {"active", "past_due", "unpaid", "canceled"}
             /\ log'[e].status = "unpaid" => log'[e].type = "updated"
             /\ log'[e].type = "checkout" => log'[e].status = "active"
             /\ log'[e].type # "checkout" =>
                   \E p \in SubEvents' : Latest(Before(SubEvents', e), p) /\ Leads(log'[p], log'[e])
  <2>1. CASE e = n
    BY <1>1, <1>5, <2>1
  <2>2. CASE e \in SubEvents
    <3>1. log'[e] = log[e]
      BY <1>1, <2>2
    <3> QED
      BY <1>2, <1>4, <2>2, <3>1 DEF SubLog
  <2> QED
    BY <1>1, <2>1, <2>2
<1>7. SubEvents' # {}
  BY <1>1
<1>8. \A e \in SubEvents' : Latest(SubEvents', e) => pstat' = log'[e].status /\ pref' = log'[e].ref
  BY <1>1, <1>3
<1> QED
  BY <1>6, <1>7, <1>8 DEF SubLog

\* Any other event leaves the subscription alone.
LEMMA OtherEmitted ==
    ASSUME IInv, OrderInv, NEW event \in EventRecord, Emit(event),
           event.type \notin {"checkout", "created", "updated", "deleted"},
           UNCHANGED <<pstat, pref>>
    PROVE  SubLog'
<1>1. /\ SubEvents' = SubEvents /\ SubEvents \in SUBSET (1..Len(log))
      /\ \A e \in 1..Len(log) : log'[e] = log[e]
  BY LogGrows DEF SubEvents
<1>2. \A e \in SubEvents : log'[e] = log[e]
  BY <1>1
<1>3. SubLog
  BY DEF OrderInv
<1> QED
  BY <1>1, <1>2, <1>3 DEF SubLog

\* An event of invoice i tells what became of it, and of no other one.
LEMMA InvEmitted ==
    ASSUME IInv, OrderInv, NEW event \in EventRecord, Emit(event),
           IF event.type = "invoice"
           THEN pinv' = [pinv EXCEPT ![event.inv] = event.status] ELSE pinv' = pinv
    PROVE  InvLog'
<1> SUFFICES ASSUME NEW i \in Invoices
             PROVE  /\ InvEvents(i)' = {} => pinv'[i] = "none"
                    /\ \A e \in InvEvents(i)' : Latest(InvEvents(i)', e) => pinv'[i] = log'[e].status
  BY DEF InvLog
<1> DEFINE n == Len(log) + 1
<1>1. /\ Len(log) \in Nat /\ log'[n] = event
      /\ \A e \in 1..Len(log) : log'[e] = log[e]
      /\ InvEvents(i) \in SUBSET (1..Len(log))
      /\ InvEvents(i)' = IF event.type = "invoice" /\ event.inv = i
                          THEN InvEvents(i) \cup {n} ELSE InvEvents(i)
  BY LogGrows DEF InvEvents
<1>2. InvLog /\ pinv \in [Invoices -> {"none", "paid", "uncollectible"}]
  BY DEF OrderInv, IInv, LogInv
<1>3. CASE event.type = "invoice" /\ event.inv = i
  <2>1. pinv'[i] = event.status
    BY <1>2, <1>3
  <2>2. \A e \in InvEvents(i)' : Latest(InvEvents(i)', e) => e = n
    BY <1>1, <1>3 DEF Latest
  <2> QED
    BY <1>1, <1>3, <2>1, <2>2
<1>4. CASE ~(event.type = "invoice" /\ event.inv = i)
  <2>1. pinv'[i] = pinv[i]
    BY <1>2, <1>4
  <2>2. InvEvents(i)' = InvEvents(i) /\ \A e \in InvEvents(i) : log'[e] = log[e]
    BY <1>1, <1>4
  <2> QED
    BY <1>2, <2>1, <2>2 DEF InvLog
<1> QED
  BY <1>3, <1>4

LEMMA ProviderOrder == ASSUME IInv, OrderInv, ProviderStep PROVE OrderInv'
<1>0. pstat \in ProviderStatus /\ pref \in Nat
  BY DEF IInv, TypeOK, ProviderStatus
<1>1. SUFFICES \E event \in EventRecord : Emit(event) /\ SubLog' /\ InvLog'
  BY RowsOutliveEmit DEF OrderInv
<1>2. CASE Subscribe
  <2> DEFINE event == [type |-> "checkout", status |-> "active", ref |-> pref + 1]
  <2>1. event \in EventRecord
    BY <1>0 DEF EventRecord, Statuses
  <2> QED
    BY <1>2, <2>1, SubEmitted, InvEmitted DEF Subscribe
<1>3. CASE Created
  <2> DEFINE event == StatusEvent("created", "active")
  <2>1. event \in EventRecord
    BY <1>0 DEF EventRecord, Statuses, StatusEvent
  <2>2. /\ event.type = "created" /\ event.status = "active" /\ event.ref = pref /\ pstat = "active"
        /\ Emit(event) /\ UNCHANGED <<pstat, pref, pinv>>
    BY <1>3 DEF StatusEvent, Created
  <2>3. Leads([status |-> pstat, ref |-> pref], event)
    BY <2>2 DEF Leads
  <2> HIDE DEF event
  <2> QED
    BY <2>1, <2>2, <2>3, SubEmitted, InvEmitted
<1>4. CASE Other
  <2>1. [type |-> "other"] \in EventRecord
    BY DEF EventRecord
  <2> QED
    BY <1>4, <2>1, OtherEmitted, InvEmitted DEF Other
<1>5. ASSUME NEW from, NEW to \in {"active", "past_due", "unpaid", "canceled"},
             NEW type \in {"updated", "deleted"}, Move(from, to, type), "none" \notin from,
             \A s \in from : Leads([status |-> s, ref |-> pref], StatusEvent(type, to)),
             to = "unpaid" => type = "updated"
      PROVE  \E event \in EventRecord : Emit(event) /\ SubLog' /\ InvLog'
  <2> DEFINE event == StatusEvent(type, to)
  <2>1. event \in EventRecord
    BY <1>0 DEF EventRecord, Statuses, StatusEvent
  <2>2. /\ event.type = type /\ event.status = to /\ event.ref = pref
        /\ Emit(event) /\ pstat \in from /\ pstat' = to /\ UNCHANGED <<pref, pinv>>
    BY <1>5 DEF StatusEvent, Move
  <2>3. Leads([status |-> pstat, ref |-> pref], event)
    BY <1>5, <2>2
  <2> HIDE DEF event
  <2> QED
    BY <1>5, <2>1, <2>2, <2>3, SubEmitted, InvEmitted
<1>6. ASSUME NEW i \in Invoices, NEW outcome \in {"paid", "uncollectible"}, Charge(i, outcome)
      PROVE  \E event \in EventRecord : Emit(event) /\ SubLog' /\ InvLog'
  <2>1. [type |-> "invoice", status |-> outcome, inv |-> i] \in EventRecord
    BY DEF EventRecord
  <2> QED
    BY <1>6, <2>1, OtherEmitted, InvEmitted DEF Charge
<1>7. CASE Move({"active"}, "past_due", "updated")
  BY <1>5, <1>7 DEF Leads, StatusEvent
<1>8. CASE Move({"active", "past_due"}, "unpaid", "updated")
  BY <1>5, <1>8 DEF Leads, StatusEvent
<1>9. CASE Move({"past_due", "unpaid"}, "active", "updated")
  BY <1>5, <1>9 DEF Leads, StatusEvent
<1>10. CASE Move({"active", "past_due", "unpaid"}, "canceled", "deleted")
  BY <1>5, <1>10 DEF Leads, StatusEvent
<1> QED
  BY <1>2, <1>3, <1>4, <1>6, <1>7, <1>8, <1>9, <1>10 DEF ProviderStep

----------------------------------------------------------------------------
(* The newest row that occupies the organization                           *)

CurrentOf(S) ==
    LET O == {i \in 1..Len(S) : S[i].status \in OCCUPYING} IN
    IF O = {} THEN 0 ELSE CHOOSE i \in O : \A j \in O : j <= i

Row == [status : Statuses, ref : Nat]

LEMMA CurrentRow ==
    ASSUME NEW S \in Seq(Row)
    PROVE  \/ /\ CurrentOf(S) = 0
              /\ \A i \in 1..Len(S) : S[i].status \notin OCCUPYING
           \/ /\ CurrentOf(S) \in 1..Len(S) /\ CurrentOf(S) # 0
              /\ S[CurrentOf(S)].status \in OCCUPYING
<1> DEFINE O == {i \in 1..Len(S) : S[i].status \in OCCUPYING}
<1>1. Len(S) \in Nat /\ O \in SUBSET (1..Len(S))
  BY LenProperties
<1>2. CASE O = {}
  BY <1>2 DEF CurrentOf
<1>3. CASE O # {}
  <2>1. \E i \in O : \A j \in O : j <= i
    <3> HIDE DEF O
    <3> QED
      BY <1>1, <1>3, LastOf DEF Latest
  <2>2. CurrentOf(S) = CHOOSE i \in O : \A j \in O : j <= i
    BY <1>3 DEF CurrentOf
  <2>3. CurrentOf(S) \in O
    BY <2>1, <2>2, Zenon
  <2> QED
    BY <1>1, <2>3
<1> QED
  BY <1>2, <1>3

\* The index on the table leaves one such row.
LEMMA TheOnlyRow ==
    ASSUME NEW S \in Seq(Row), OnePerOrg(S), NEW i \in 1..Len(S), S[i].status \in OCCUPYING
    PROVE  CurrentOf(S) = i
BY CurrentRow DEF OnePerOrg

\* When it stops occupying the organization, no row is left that does.
LEMMA RowGivenUp ==
    ASSUME NEW S \in Seq(Row), OnePerOrg(S), CurrentOf(S) # 0,
           NEW T \in Seq(Row), Len(T) = Len(S), T[CurrentOf(S)].status \notin OCCUPYING,
           \A i \in 1..Len(S) : i # CurrentOf(S) => T[i] = S[i]
    PROVE  CurrentOf(T) = 0
<1> SUFFICES ASSUME CurrentOf(T) # 0 PROVE FALSE
  OBVIOUS
<1>1. CurrentOf(T) \in 1..Len(T) /\ T[CurrentOf(T)].status \in OCCUPYING
  BY CurrentRow
<1>2. CurrentOf(T) # CurrentOf(S)
  BY <1>1
<1>3. CurrentOf(T) \in 1..Len(S) /\ S[CurrentOf(T)].status \in OCCUPYING
  BY <1>1, <1>2
<1> QED
  BY <1>2, <1>3, TheOnlyRow

LEMMA CurrentIs == Current = CurrentOf(subs) /\ Current' = CurrentOf(subs')
BY DEF Current, CurrentOf

LEMMA RowsType == IInv => subs \in Seq(Row)
BY AllowedStatuses DEF IInv, TypeOK, Row

----------------------------------------------------------------------------
(* A commit                                                                *)

\* In order, the ledger holds what is older than the event in hand, and nobody
\* else works on an event.
LEMMA LedgerSoFar ==
    ASSUME IInv, OrderInv, ~reordered, NEW d \in Handlers, pc[d] \in {"load", "apply"}
    PROVE  /\ ev[d] \in 1..Len(log) /\ ledger = 1..(ev[d] - 1)
           /\ \A f \in Handlers : pc[f] \in {"load", "apply"} => f = d
<1>1. /\ HandlerInv /\ acked \subseteq ledger /\ ledger \subseteq 1..Len(log) /\ Len(log) \in Nat
      /\ \A e \in ledger : 1..(e - 1) \subseteq acked
      /\ \A f \in Handlers : pc[f] # "idle" => 1..(ev[f] - 1) \subseteq acked
  BY LogLength DEF IInv, OrderInv, InOrder, LedgerInv, TypeOK
<1>2. \A f \in Handlers : pc[f] \in {"load", "apply"} =>
         ev[f] \in 1..Len(log) /\ ev[f] \notin ledger /\ 1..(ev[f] - 1) \subseteq acked
  BY <1>1 DEF HandlerInv
<1>3. ASSUME NEW f \in Handlers, pc[f] \in {"load", "apply"}, NEW e \in ledger PROVE e < ev[f]
  <2>1. ev[f] \in 1..Len(log) /\ ev[f] \notin ledger /\ e \in 1..Len(log)
    BY <1>1, <1>2, <1>3
  <2>2. ev[f] \notin 1..(e - 1)
    BY <1>1, <1>3, <2>1
  <2>3. ev[f] # e
    BY <1>3, <2>1
  <2> QED
    BY <2>1, <2>2, <2>3
<1>4. ASSUME NEW f \in Handlers, pc[f] \in {"load", "apply"} PROVE ledger = 1..(ev[f] - 1)
  <2>1. PICK n \in 1..Len(log) : n = ev[f]
    BY <1>2, <1>4
  <2>2. \A e \in ledger : e \in 1..Len(log) /\ e < n
    BY <1>1, <1>3, <1>4, <2>1
  <2>3. 1..(n - 1) \subseteq ledger
    BY <1>1, <1>2, <1>4, <2>1
  <2>4. ASSUME NEW e \in ledger PROVE e \in 1..(n - 1)
    BY <1>1, <2>2
  <2> QED
    BY <2>1, <2>3, <2>4
<1>5. ASSUME NEW f \in Handlers, pc[f] \in {"load", "apply"}, f # d PROVE FALSE
  <2>1. ev[f] \in 1..Len(log) /\ ev[d] \in 1..Len(log) /\ ev[f] # ev[d]
    BY <1>1, <1>2, <1>5 DEF HandlerInv
  <2>2. 1..(ev[f] - 1) = 1..(ev[d] - 1)
    BY <1>4, <1>5
  <2> QED
    BY <2>1, <2>2
<1> QED
  BY <1>2, <1>4, <1>5

\* The SELECT, made again now, finds what the handler knows.
LEMMA SeenNow ==
    ASSUME IInv, OrderInv, ~reordered, NEW d \in Handlers, pc[d] = "apply",
           Event(d).type \in {"checkout", "created", "updated", "deleted"}
    PROVE  seen[d] = IF Current = 0 THEN Nobody ELSE [row |-> Current, status |-> subs[Current].status]
<1>1. seen[d] = Found(Event(d))
  BY DEF OrderInv, Fresh
<1> QED
  BY <1>1 DEF Found

Switched(S, c, status, ref) ==
    [S EXCEPT ![c].status = Written(S[c].status, status, @), ![c].ref = ref]

LEMMA RowSwitched ==
    ASSUME NEW S \in Seq(Row), NEW c \in 1..Len(S), NEW status, NEW ref
    PROVE  Switched(S, c, status, ref) = [S EXCEPT ![c] = [status |-> status, ref |-> ref]]
<1>1. PICK row \in Row : row = S[c]
  OBVIOUS
<1>2. Written(row.status, status, row.status) = status
  BY DEF Written
<1> DEFINE mid == [status |-> status, ref |-> row.ref]
           T == [S EXCEPT ![c] = mid]
<1>3. [row EXCEPT !.status = status] = mid
  BY DEF Row
<1>4. [S EXCEPT ![c].status = Written(S[c].status, status, @)] = T
  BY <1>1, <1>2, <1>3
<1>5. [mid EXCEPT !.ref = ref] = [status |-> status, ref |-> ref]
  OBVIOUS
<1>6. [T EXCEPT ![c].ref = ref] = [S EXCEPT ![c] = [status |-> status, ref |-> ref]]
  <2>1. T[c] = mid /\ DOMAIN T = DOMAIN S
    OBVIOUS
  <2> HIDE DEF mid
  <2>2. [T EXCEPT ![c].ref = ref] = [T EXCEPT ![c] = [status |-> status, ref |-> ref]]
    BY <1>5, <2>1
  <2> QED
    BY <2>2
<1>7. Switched(S, c, status, ref) = [T EXCEPT ![c].ref = ref]
  BY <1>4 DEF Switched
<1> QED
  BY <1>6, <1>7

\* A checkout makes its subscription the current one.
LEMMA CheckoutApplied ==
    ASSUME IInv, OrderInv, ~reordered, NEW d \in Handlers, NEW e, e = ev[d],
           Apply(d), Event(d).type = "checkout"
    PROVE  Follows(e)'
<1> DEFINE event == Event(d)
           c == Current
<1>1. /\ pc[d] = "apply" /\ subs' = AfterCheckout(seen[d], event) /\ OnePerOrg(subs') /\ log' = log
  BY DEF Apply, ApplySub, AfterSub, Commits, provider
<1>2. subs \in Seq(Row) /\ subs' \in Seq(Row) /\ event \in EventRecord
  BY <1>1, RowsType, ApplyKeeps, AllowedStatuses, EventType DEF IInv, TypeOK, Row
<1>3. seen[d] = IF c = 0 THEN Nobody ELSE [row |-> c, status |-> subs[c].status]
  BY <1>1, SeenNow
<1>4. log[e].status = "active" /\ log[e].ref = event.ref /\ event.ref \in Nat
  <2>1. ev[d] \in SubEvents
    BY <1>1 DEF IInv, HandlerInv, SubEvents, Event
  <2> QED
    BY <1>2, <2>1 DEF OrderInv, SubLog, Event, EventRecord
<1> DEFINE new == [status |-> "active", ref |-> event.ref]
<1>5. \E i \in 1..Len(subs') : subs'[i] = new
  <2> HIDE DEF event, c
  <2>1. CASE c = 0
    <3>1. subs' = Append(subs, new)
      BY <1>1, <1>3, <2>1 DEF AfterCheckout, Nobody
    <3>2. Len(subs) + 1 \in 1..Len(subs') /\ subs'[Len(subs) + 1] = new
      BY <1>2, <3>1
    <3> QED
      BY <3>2
  <2>2. CASE c # 0
    <3>1. c \in 1..Len(subs)
      BY <1>2, <2>2, CurrentRow, CurrentIs DEF c
    <3>2. seen[d].row = c /\ seen[d].status = subs[c].status
      BY <1>3, <2>2
    <3>3. subs' = Switched(subs, c, "active", event.ref)
      BY <1>1, <2>2, <3>2 DEF AfterCheckout, Switched
    <3>4. subs' = [subs EXCEPT ![c] = new]
      BY <1>2, <3>1, <3>3, RowSwitched
    <3>5. Len(subs') = Len(subs) /\ subs'[c] = new
      BY <1>2, <3>1, <3>4
    <3> QED
      BY <3>1, <3>5
  <2> QED
    BY <2>1, <2>2
<1>6. PICK i \in 1..Len(subs') : subs'[i] = new
  BY <1>5
<1>7. Current' = i
  BY <1>1, <1>2, <1>6, TheOnlyRow, CurrentIs DEF OCCUPYING
<1> QED
  BY <1>1, <1>2, <1>4, <1>6, <1>7 DEF Follows, OCCUPYING

\* A move of the provider moves the row, which stood where the provider came from.
LEMMA MoveApplied ==
    ASSUME IInv, OrderInv, ~reordered, ~Recovered, NEW d \in Handlers, NEW e, e = ev[d],
           Apply(d), Event(d).type \in {"created", "updated", "deleted"}
    PROVE  Follows(e)'
<1> DEFINE event == Event(d)
           c == Current
<1>1. /\ pc[d] = "apply" /\ subs' = AfterStatus(seen[d], event) /\ OnePerOrg(subs') /\ log' = log
  BY DEF Apply, ApplySub, AfterSub, Commits, provider
<1>2. /\ subs \in Seq(Row) /\ subs' \in Seq(Row) /\ event \in EventRecord /\ OnePerOrg(subs)
      /\ event.status \in Statuses
  BY <1>1, RowsType, ApplyKeeps, AllowedStatuses, EventType DEF IInv, TypeOK, Row, OrderInv, SubsFollow,
     EventRecord
<1>3. seen[d] = IF c = 0 THEN Nobody ELSE [row |-> c, status |-> subs[c].status]
  BY <1>1, SeenNow
<1>4. PICK p \in SubEvents : Latest(Before(SubEvents, ev[d]), p) /\ Leads(log[p], event)
  <2>1. ev[d] \in SubEvents
    BY <1>1 DEF IInv, HandlerInv, SubEvents, Event
  <2> QED
    BY <2>1 DEF OrderInv, SubLog, Event
<1>5. Follows(p)
  <2>1. SubEvents \cap ledger = Before(SubEvents, ev[d])
    <3>1. SubEvents \in SUBSET (1..Len(log)) /\ Len(log) \in Nat
      BY LogLength DEF SubEvents, IInv
    <3>2. e \in 1..Len(log) /\ ledger = 1..(e - 1)
      BY <1>1, LedgerSoFar
    <3>3. \A f \in SubEvents : f \in 1..(e - 1) <=> f < e
      BY <3>1, <3>2
    <3> QED
      BY <3>2, <3>3 DEF Before
  <2> QED
    BY <1>4, <2>1 DEF OrderInv, SubsFollow
<1>6. Target(event) = event.status
  BY <1>4 DEF Leads, Target
<1>7. CASE log[p].status \in OCCUPYING
  <2>1. /\ c # 0 /\ subs[c].status = log[p].status /\ subs[c].ref = event.ref
        /\ c \in 1..Len(subs) /\ c = CurrentOf(subs)
    BY <1>2, <1>4, <1>5, <1>7, CurrentRow, CurrentIs DEF Follows, Leads
  <2>2. CanTransition(subs[c].status, event.status)
    BY <1>4, <1>7, <2>1 DEF Leads, CanTransition, Allowed
  <2>3. seen[d].row = c /\ seen[d].status = subs[c].status /\ Accepts(seen[d], event)
    BY <1>3, <1>6, <2>1, <2>2 DEF Accepts
  <2>4. PICK row \in Row : row = subs[c]
    BY <1>2, <2>1
  <2> HIDE DEF event, c
  <2>5. subs' = [subs EXCEPT ![c].status = event.status]
    BY <1>1, <1>6, <2>3 DEF AfterStatus, Written
  <2>6. subs' = [subs EXCEPT ![c] = [row EXCEPT !.status = event.status]]
    BY <2>4, <2>5
  <2>7. [row EXCEPT !.status = event.status] = [status |-> event.status, ref |-> event.ref]
    BY <2>1, <2>4 DEF Row
  <2>8. /\ Len(subs') = Len(subs) /\ subs'[c] = [status |-> event.status, ref |-> event.ref]
        /\ \A i \in 1..Len(subs) : i # c => subs'[i] = subs[i]
    BY <1>2, <2>1, <2>6, <2>7
  <2>9. CASE event.status \in OCCUPYING
    <3>1. Current' = c
      BY <1>1, <1>2, <2>1, <2>8, <2>9, TheOnlyRow, CurrentIs
    <3> QED
      BY <1>1, <2>1, <2>8, <2>9, <3>1 DEF Follows, Event, event
  <2>10. CASE event.status \notin OCCUPYING
    <3>1. Current' = 0
      BY <1>2, <2>1, <2>8, <2>10, RowGivenUp, CurrentIs
    <3> QED
      BY <1>1, <2>10, <3>1 DEF Follows, Event, event
  <2> QED
    BY <2>9, <2>10
<1>8. CASE log[p].status \notin OCCUPYING
  <2>1. c = 0 /\ subs' = subs /\ Current' = 0
    BY <1>1, <1>3, <1>5, <1>8, CurrentIs DEF Follows, Accepts, AfterStatus, Nobody
  <2>2. event.status \notin OCCUPYING
    <3>1. SUFFICES ASSUME event.type = "updated", event.status = "active", log[p].status = "unpaid"
                   PROVE  FALSE
      BY <1>4, <1>8 DEF Leads, OCCUPYING
    <3>2. log[p].type = "updated" /\ p < ev[d] /\ p \in 1..Len(log) /\ ev[d] \in 1..Len(log)
      BY <1>1, <1>4, <3>1 DEF OrderInv, SubLog, Latest, Before, SubEvents, IInv, HandlerInv
    <3> QED
      BY <1>4, <3>1, <3>2 DEF Recovered, Leads, Event
  <2> QED
    BY <1>1, <2>1, <2>2 DEF Follows, Event
<1> QED
  BY <1>7, <1>8

LEMMA OneRowApplied ==
    ASSUME IInv, OrderInv, NEW d \in Handlers, Apply(d)
    PROVE  OnePerOrg(subs')
<1>1. CASE Event(d).type = "invoice"
  BY <1>1 DEF Apply, ApplyInvoice, OrderInv, SubsFollow
<1>2. CASE Event(d).type # "invoice"
  BY <1>2 DEF Apply, ApplySub, Commits
<1> QED
  BY <1>1, <1>2

LEMMA SubsApplied == ASSUME IInv, OrderInv, NEW d \in Handlers, Apply(d) PROVE SubsFollow'
<1> SUFFICES ASSUME ~reordered, ~Recovered, NEW e \in SubEvents, Latest((SubEvents \cap ledger)', e)
             PROVE  Follows(e)'
  <2>1. (OnePerOrg(subs))'
    BY OneRowApplied
  <2>2. reordered' = reordered /\ log' = log
    BY DEF Apply, provider
  <2>3. SubEvents' = SubEvents /\ (Recovered' <=> Recovered)
    BY <2>2 DEF SubEvents, Recovered
  <2> QED
    BY <2>1, <2>2, <2>3 DEF SubsFollow, Latest
<1>1. /\ pc[d] = "apply" /\ log' = log /\ ledger' = ledger \cup {ev[d]}
      /\ IF Event(d).type = "invoice" THEN ApplyInvoice(d) ELSE ApplySub(d)
  BY DEF Apply, provider
<1>2. ev[d] \in 1..Len(log) /\ ledger = 1..(ev[d] - 1) /\ SubEvents' = SubEvents
  BY <1>1, LedgerSoFar DEF SubEvents
<1>3. CASE ev[d] \in SubEvents
  <2>1. e = ev[d]
    <3>1. e \in ledger' /\ ev[d] <= e
      BY <1>1, <1>2, <1>3 DEF Latest
    <3> QED
      BY <1>1, <1>2, <3>1
  <2> QED
    BY <1>3, <2>1, CheckoutApplied, MoveApplied DEF SubEvents, Event
<1>4. CASE ev[d] \notin SubEvents
  <2>1. (SubEvents \cap ledger)' = SubEvents \cap ledger
    BY <1>1, <1>2, <1>4
  <2>2. Follows(e)
    BY <2>1 DEF OrderInv, SubsFollow
  <2>3. subs' = subs
    <3>1. Event(d).type \notin {"checkout", "created", "updated", "deleted"}
      BY <1>2, <1>4 DEF SubEvents, Event
    <3> QED
      BY <1>1, <3>1 DEF ApplyInvoice, ApplySub, AfterSub
  <2> QED
    BY <1>1, <2>2, <2>3, CurrentIs DEF Follows
<1> QED
  BY <1>3, <1>4

LEMMA InvoicesApplied == ASSUME IInv, OrderInv, NEW d \in Handlers, Apply(d) PROVE InvoicesFollow'
<1>1. /\ pc[d] = "apply" /\ log' = log /\ ledger' = ledger \cup {ev[d]} /\ reordered' = reordered
      /\ IF Event(d).type = "invoice" THEN ApplyInvoice(d) ELSE ApplySub(d)
  BY DEF Apply, provider
<1>2. \A i \in Invoices : InvEvents(i)' = InvEvents(i)
  BY <1>1 DEF InvEvents
<1> SUFFICES ASSUME ~reordered, NEW i \in Invoices
             PROVE  /\ InvEvents(i) \cap ledger' = {} => invStatus'[i] = "none"
                    /\ \A e \in InvEvents(i) : Latest(InvEvents(i) \cap ledger', e)
                                                  => invStatus'[i] = log[e].status
  BY <1>1, <1>2 DEF InvoicesFollow, Latest
<1>3. ev[d] \in 1..Len(log) /\ ledger = 1..(ev[d] - 1)
  BY <1>1, LedgerSoFar
<1>4. /\ InvEvents(i) \cap ledger = {} => invStatus[i] = "none"
      /\ \A e \in InvEvents(i) : Latest(InvEvents(i) \cap ledger, e) => invStatus[i] = log[e].status
      /\ invStatus \in [Invoices -> {"none", "paid", "uncollectible"}]
  BY DEF OrderInv, InvoicesFollow, IInv, TypeOK
<1>5. CASE ev[d] \in InvEvents(i)
  <2>1. Event(d).type = "invoice" /\ Event(d).inv = i /\ Event(d).status = log[ev[d]].status
    BY <1>5 DEF InvEvents, Event
  <2>2. seen[d] = Found(Event(d))
    BY <1>1 DEF OrderInv, Fresh
  <2>3. seen[d].status = invStatus[i]
    BY <2>1, <2>2 DEF Found
  <2>4. invStatus'[i] = log[ev[d]].status
    BY <1>1, <1>4, <2>1, <2>3 DEF ApplyInvoice, Written
  <2>5. ASSUME NEW e, Latest(InvEvents(i) \cap ledger', e) PROVE e = ev[d]
    <3>1. e \in ledger' /\ ev[d] <= e
      BY <1>1, <1>3, <1>5, <2>5 DEF Latest
    <3> QED
      BY <1>1, <1>3, <3>1
  <2> QED
    BY <1>1, <1>5, <2>4, <2>5
<1>6. CASE ev[d] \notin InvEvents(i)
  <2>1. InvEvents(i) \cap ledger' = InvEvents(i) \cap ledger
    BY <1>1, <1>6
  <2>2. invStatus'[i] = invStatus[i]
    <3>1. ~(Event(d).type = "invoice" /\ Event(d).inv = i)
      BY <1>3, <1>6 DEF InvEvents, Event
    <3> QED
      BY <1>1, <1>4, <3>1 DEF ApplyInvoice, ApplySub
  <2> QED
    BY <1>4, <2>1, <2>2
<1> QED
  BY <1>5, <1>6

\* A step that leaves the log and the rows alone.
LEMMA RowsStay ==
    ASSUME OrderInv, UNCHANGED <<provider, subs, invRows, invStatus, ledger>>,
           ~reordered' => ~reordered
    PROVE  /\ SubLog' /\ InvLog' /\ SubsFollow' /\ InvoicesFollow'
           /\ \A event : Found(event)' = Found(event)
<1> USE DEF provider
<1>1. SubEvents' = SubEvents /\ (Recovered' <=> Recovered) /\ Current' = Current
  BY DEF SubEvents, Recovered, Current
<1>2. \A i : InvEvents(i)' = InvEvents(i)
  BY DEF InvEvents
<1>3. \A e : Follows(e)' <=> Follows(e)
  BY <1>1 DEF Follows
<1>4. SubLog' /\ InvLog'
  BY <1>1, <1>2 DEF OrderInv, SubLog, InvLog
<1>5. SubsFollow'
  BY <1>1, <1>3 DEF OrderInv, SubsFollow
<1>6. InvoicesFollow'
  BY <1>2 DEF OrderInv, InvoicesFollow
<1>7. \A event : Found(event)' = Found(event)
  BY <1>1 DEF Found
<1> QED
  BY <1>4, <1>5, <1>6, <1>7

\* A request that ends: nobody's row is written, and answers only grow.
LEMMA EndOrder ==
    ASSUME IInv, OrderInv, NEW d \in Handlers, End(d),
           UNCHANGED <<provider, again, reordered, tables>>, acked \subseteq acked'
    PROVE  OrderInv'
<1> USE DEF tables
<1>1. /\ SubLog' /\ InvLog' /\ SubsFollow' /\ InvoicesFollow'
      /\ \A event : Found(event)' = Found(event)
  BY RowsStay
<1>2. /\ pc \in [Handlers -> {"idle", "insert", "load", "apply"}] /\ ev \in [Handlers -> 0..Len(log)]
      /\ pc' = [pc EXCEPT ![d] = "idle"] /\ ev' = [ev EXCEPT ![d] = 0]
      /\ seen' = [seen EXCEPT ![d] = Nobody]
  BY DEF IInv, TypeOK, End
<1>3. \A f \in Handlers : pc'[f] # "idle" => /\ f # d /\ pc'[f] = pc[f] /\ ev'[f] = ev[f]
                                             /\ Event(f)' = Event(f)
  BY <1>2 DEF Event, provider
<1>4. \A f \in Handlers : f # d => seen'[f] = seen[f]
  BY <1>2
<1>5. InOrder'
  BY <1>3 DEF OrderInv, InOrder
<1>6. Fresh'
  <2> SUFFICES ASSUME ~reordered, NEW f \in Handlers, pc'[f] = "apply" PROVE seen'[f] = Found(Event(f))'
    BY <1>2 DEF OrderInv, Fresh
  <2>1. f # d /\ pc[f] = "apply" /\ Event(f)' = Event(f)
    BY <1>3
  <2>2. seen[f] = Found(Event(f))
    BY <2>1 DEF OrderInv, Fresh
  <2>3. Found(Event(f))' = Found(Event(f))
    BY <1>1, <2>1
  <2> QED
    BY <1>4, <2>1, <2>2, <2>3
<1> QED
  BY <1>1, <1>5, <1>6 DEF OrderInv

LEMMA ApplyOrder == ASSUME IInv, OrderInv, NEW d \in Handlers, Apply(d) PROVE OrderInv'
<1>1. /\ pc \in [Handlers -> {"idle", "insert", "load", "apply"}] /\ ev \in [Handlers -> 0..Len(log)]
      /\ pc[d] = "apply" /\ pc' = [pc EXCEPT ![d] = "idle"] /\ ev' = [ev EXCEPT ![d] = 0]
      /\ log' = log /\ reordered' = reordered /\ acked \subseteq acked' /\ ledger' = ledger \cup {ev[d]}
  BY DEF IInv, TypeOK, Apply, End, provider
<1>2. UNCHANGED <<pstat, pref, pinv>>
  BY DEF Apply, provider
<1>3. \A f \in Handlers : pc'[f] # "idle" => f # d /\ pc'[f] = pc[f] /\ ev'[f] = ev[f]
  BY <1>1
<1>4. SubLog' /\ InvLog'
  <2>1. SubEvents' = SubEvents /\ \A i : InvEvents(i)' = InvEvents(i)
    BY <1>1 DEF SubEvents, InvEvents
  <2> QED
    BY <1>1, <1>2, <2>1 DEF OrderInv, SubLog, InvLog
<1>5. InOrder'
  <2> SUFFICES ASSUME ~reordered
               PROVE  /\ \A e \in ledger' : 1..(e - 1) \subseteq acked'
                      /\ \A f \in Handlers : pc'[f] # "idle" => 1..(ev'[f] - 1) \subseteq acked'
    BY <1>1 DEF InOrder
  <2>1. /\ \A e \in ledger : 1..(e - 1) \subseteq acked
        /\ \A f \in Handlers : pc[f] # "idle" => 1..(ev[f] - 1) \subseteq acked
    BY DEF OrderInv, InOrder
  <2> QED
    BY <1>1, <1>3, <2>1
<1>6. Fresh'
  <2> SUFFICES ASSUME ~reordered, NEW f \in Handlers, pc'[f] = "apply" PROVE FALSE
    <3>1. seen' = [seen EXCEPT ![d] = Nobody]
      BY DEF Apply, End
    <3> QED
      BY <1>1, <3>1 DEF OrderInv, Fresh
  <2>1. f # d /\ pc[f] = "apply"
    BY <1>3
  <2> QED
    BY <1>1, <2>1, LedgerSoFar
<1> QED
  BY <1>4, <1>5, <1>6, SubsApplied, InvoicesApplied DEF OrderInv

LEMMA HandlerOrder ==
    ASSUME IInv, OrderInv, NEW d \in Handlers,
           (\E e \in 1..MaxEvent : Send(d, e)) \/ Handle(d) \/ Fail(d)
    PROVE  OrderInv'
<1> USE DEF tables, network, requests
<1>0. /\ pc \in [Handlers -> {"idle", "insert", "load", "apply"}] /\ ev \in [Handlers -> 0..Len(log)]
      /\ DOMAIN seen = Handlers
  BY DEF IInv, TypeOK, OrderInv, Fresh
<1>1. ASSUME NEW e \in 1..MaxEvent, Send(d, e) PROVE OrderInv'
  <2>1. /\ SubLog' /\ InvLog' /\ SubsFollow' /\ InvoicesFollow'
        /\ \A event : Found(event)' = Found(event)
    BY <1>1, RowsStay DEF Send
  <2>2. /\ pc' = [pc EXCEPT ![d] = "insert"] /\ ev' = [ev EXCEPT ![d] = e]
        /\ reordered' = (reordered \/ \E f \in 1..(e - 1) : f \notin acked)
        /\ log' = log /\ UNCHANGED <<acked, seen, ledger>>
    BY <1>1 DEF Send, provider
  <2>3. InOrder'
    BY <1>0, <2>2 DEF OrderInv, InOrder
  <2>4. Fresh'
    <3> SUFFICES ASSUME ~reordered, NEW f \in Handlers, pc'[f] = "apply" PROVE seen'[f] = Found(Event(f))'
      BY <1>0, <2>2 DEF Fresh
    <3>1. pc[f] = "apply" /\ Event(f)' = Event(f)
      BY <1>0, <2>2 DEF Event
    <3>2. seen[f] = Found(Event(f))
      BY <3>1 DEF OrderInv, Fresh
    <3> QED
      BY <2>1, <2>2, <3>1, <3>2
  <2> QED
    BY <2>1, <2>3, <2>4 DEF OrderInv
<1>2. CASE Duplicate(d)
  BY <1>2, EndOrder DEF Duplicate
<1>3. CASE Insert(d)
  <2>1. /\ SubLog' /\ InvLog' /\ SubsFollow' /\ InvoicesFollow'
        /\ \A event : Found(event)' = Found(event)
    BY <1>3, RowsStay DEF Insert
  <2>2. /\ pc[d] = "insert" /\ pc' = [pc EXCEPT ![d] = "load"] /\ log' = log
        /\ UNCHANGED <<acked, reordered, seen, ev, ledger>>
    BY <1>3 DEF Insert, InsertTurn, provider
  <2>3. InOrder'
    BY <1>0, <2>2 DEF OrderInv, InOrder
  <2>4. Fresh'
    <3> SUFFICES ASSUME ~reordered, NEW f \in Handlers, pc'[f] = "apply" PROVE seen'[f] = Found(Event(f))'
      BY <1>0, <2>2 DEF Fresh
    <3>1. pc[f] = "apply" /\ Event(f)' = Event(f)
      BY <1>0, <2>2 DEF Event
    <3>2. seen[f] = Found(Event(f))
      BY <3>1 DEF OrderInv, Fresh
    <3> QED
      BY <2>1, <2>2, <3>1, <3>2
  <2> QED
    BY <2>1, <2>3, <2>4 DEF OrderInv
<1>4. CASE Load(d)
  <2>1. /\ SubLog' /\ InvLog' /\ SubsFollow' /\ InvoicesFollow'
        /\ \A event : Found(event)' = Found(event)
    BY <1>4, RowsStay DEF Load
  <2>2. /\ pc[d] = "load" /\ pc' = [pc EXCEPT ![d] = "apply"] /\ log' = log
        /\ seen' = [seen EXCEPT ![d] = Found(Event(d))]
        /\ UNCHANGED <<acked, reordered, ev, ledger>>
    BY <1>4 DEF Load, provider
  <2>3. InOrder'
    BY <1>0, <2>2 DEF OrderInv, InOrder
  <2>4. Fresh'
    <3> SUFFICES ASSUME ~reordered, NEW f \in Handlers, pc'[f] = "apply" PROVE seen'[f] = Found(Event(f))'
      BY <1>0, <2>2 DEF Fresh
    <3>1. Event(f)' = Event(f)
      BY <2>2 DEF Event
    <3>2. seen'[f] = Found(Event(f))
      <4>1. CASE f = d
        BY <1>0, <2>2, <4>1
      <4>2. CASE f # d
        BY <1>0, <2>2, <4>2 DEF OrderInv, Fresh
      <4> QED
        BY <4>1, <4>2
    <3> QED
      BY <2>1, <3>1, <3>2
  <2> QED
    BY <2>1, <2>3, <2>4 DEF OrderInv
<1>5. CASE Apply(d)
  BY <1>5, ApplyOrder
<1>6. CASE Conflict(d)
  BY <1>6, EndOrder DEF Conflict, RollBack
<1>7. CASE Fail(d)
  BY <1>7, EndOrder DEF Fail, RollBack
<1> QED
  BY <1>1, <1>2, <1>3, <1>4, <1>5, <1>6, <1>7 DEF Handle

LEMMA OrderStep == IInv /\ OrderInv /\ [Next]_vars => OrderInv'
<1> SUFFICES ASSUME IInv, OrderInv, [Next]_vars PROVE OrderInv'
  OBVIOUS
<1>1. CASE Next
  BY <1>1, ProviderOrder, HandlerOrder DEF Next
<1>2. CASE UNCHANGED vars
  <2>1. /\ SubLog' /\ InvLog' /\ SubsFollow' /\ InvoicesFollow'
        /\ \A event : Found(event)' = Found(event)
    BY <1>2, RowsStay DEF vars, network, tables
  <2>2. InOrder'
    BY <1>2 DEF vars, provider, network, tables, requests, OrderInv, InOrder
  <2>3. Fresh'
    <3>1. UNCHANGED <<pc, seen, reordered>> /\ \A d : Event(d)' = Event(d)
      BY <1>2 DEF vars, provider, network, requests, Event
    <3> QED
      BY <2>1, <3>1 DEF OrderInv, Fresh
  <2> QED
    BY <2>1, <2>2, <2>3 DEF OrderInv
<1> QED
  BY <1>1, <1>2

\* The webhook handler, for any number of handlers, events, duplicates, failures
\* and lost answers: when no event overtook another one and the provider did not
\* take back a subscription it had given up as unpaid, our subscription and our
\* invoices agree with the provider's once every event is answered.
THEOREM EventsInOrderConverge == Spec => []InOrderConverges
<1>1. IInv /\ OrderInv => InOrderConverges
  <2> SUFFICES ASSUME IInv, OrderInv, ~reordered, ~Recovered, Quiet PROVE Agrees
    BY DEF InOrderConverges
  <2>1. /\ ledger = 1..Len(log) /\ Len(log) \in Nat
        /\ SubEvents \in SUBSET (1..Len(log)) /\ SubEvents \cap ledger = SubEvents
    BY LogLength DEF Quiet, IInv, LedgerInv, TypeOK, SubEvents
  <2>2. invStatus = pinv
    <3>1. ASSUME NEW i \in Invoices PROVE invStatus[i] = pinv[i]
      <4>1. InvEvents(i) \in SUBSET (1..Len(log)) /\ InvEvents(i) \cap ledger = InvEvents(i)
        BY <2>1 DEF InvEvents
      <4>2. CASE InvEvents(i) = {}
        BY <4>1, <4>2 DEF OrderInv, InvoicesFollow, InvLog
      <4>3. CASE InvEvents(i) # {}
        <5>1. PICK e \in InvEvents(i) : Latest(InvEvents(i), e)
          BY <2>1, <4>1, <4>3, LastOf
        <5> QED
          BY <4>1, <5>1 DEF OrderInv, InvoicesFollow, InvLog
      <4> QED
        BY <4>2, <4>3
    <3>2. /\ invStatus \in [Invoices -> {"none", "paid", "uncollectible"}]
          /\ pinv \in [Invoices -> {"none", "paid", "uncollectible"}]
      BY DEF IInv, TypeOK, LogInv
    <3> QED
      BY <3>1, <3>2
  <2>3. CASE SubEvents = {}
    <3>1. pstat = "none"
      BY <2>3 DEF OrderInv, SubLog
    <3> QED
      BY <2>2, <3>1 DEF Agrees, OCCUPYING
  <2>4. CASE SubEvents # {}
    <3>1. PICK e \in SubEvents : Latest(SubEvents, e)
      BY <2>1, <2>4, LastOf
    <3>2. pstat = log[e].status /\ pref = log[e].ref
      BY <3>1 DEF OrderInv, SubLog
    <3>3. Follows(e)
      BY <2>1, <3>1 DEF OrderInv, SubsFollow
    <3> QED
      BY <2>2, <3>2, <3>3 DEF Agrees, Follows, OCCUPYING
  <2> QED
    BY <2>3, <2>4
<1>2. Init => IInv /\ OrderInv
  BY InitInv, OrderInit
<1>3. IInv /\ OrderInv /\ [Next]_vars => (IInv /\ OrderInv)'
  BY InvStep, OrderStep
<1> QED
  BY <1>1, <1>2, <1>3, PTL DEF Spec

----------------------------------------------------------------------------
(* VersionedCache, for any scopes, readers and writers, any lifetimes and  *)
(* any number of lost bumps: the inductive invariant.                      *)

Stages == {"idle", "versions", "compute1", "compute2", "compute3", "store", "answered"}

\* The types behind CacheOK, and what the stages of readers and writers imply.
Shape ==
    /\ bodies \subseteq [token : [Indices -> Nat], body : SUBSET Writers, life : 1..BodyTtl]
    /\ wpc \in [Writers -> {"idle", "commit", "flush", "done"}]
    /\ rowOf \in [Writers -> RowSet] /\ since \in [Writers -> 0..Overdue]
    /\ rpc \in [Readers -> Stages] /\ token \in [Readers -> Seq(Nat)]
    /\ body \in [Readers -> SUBSET Writers] /\ spent \in [Readers -> 0..MaxRequest]
    /\ owed \in [Readers -> [announced : SUBSET committed, overdue : SUBSET committed]]
    /\ \A w \in Writers : /\ wpc[w] = "flush" => w \in committed
                          /\ w \notin committed => since[w] = 0
    /\ \A r \in Readers : /\ Len(token[r]) \in 0..Len(Scopes)
                          /\ rpc[r] = "idle" => owed[r] = Nothing
                          /\ rpc[r] \notin {"idle", "versions"} => Len(token[r]) = Len(Scopes)

\* On Redis counters only grow: nobody holds a version that is still to come.
VersionsInv ==
    ttl = 0 =>
        /\ \A b \in bodies, i \in Indices : b.token[i] <= version[Scopes[i]]
        /\ \A r \in Readers : \A i \in 1..Len(token[r]) : token[r][i] <= version[Scopes[i]]

Computing(r) == rpc[r] \in {"compute1", "compute2", "compute3", "store"}

\* From stage `at` on, a row of kind k is still to be queried.
ToQuery(at, k) ==
    \E i, j \in 1..Len(RowKinds) : at = Query[i] /\ i <= j /\ RowKinds[j] = k

\* The body reader r is computing has change w, or will have it.
Saw(r, w) == w \in body[r] \/ ToQuery(rpc[r], rowOf[w])

\* The versions t are older than the versions h in the scope that w bumps.
Below(t, h, w) == \E i \in Indices : Scopes[i] = ScopeBy(w) /\ t[i] < h[i]

\* Whatever a lookup under the versions h can find has w: bodies without it are, or
\* will be, stored under older versions.
Covered(h, w) ==
    /\ \A b \in bodies : w \in b.body \/ Below(b.token, h, w)
    /\ \A q \in Readers : Computing(q) => Saw(q, w) \/ Below(token[q], h, w)

\* The versions of the counters now, and those reader r has read or would read now.
Now == [i \in Indices |-> version[Scopes[i]]]
Horizon(r) == [i \in Indices |-> IF i <= Len(token[r]) THEN token[r][i] ELSE version[Scopes[i]]]

AnnouncedInv ==
    ttl = 0 => /\ \A w \in announced : Covered(Now, w)
               /\ \A r \in Readers : Reading(r) => \A w \in owed[r].announced : Covered(Horizon(r), w)

\* A body lacks a change only if its computation began before the change, and that
\* is no longer ago than the body's age and one request.
StaleInv ==
    /\ \A r \in Readers : \A w \in owed[r].overdue : since[w] = Overdue
    /\ \A w \in committed :
          /\ \A b \in bodies : since[w] > BodyTtl - b.life + MaxRequest => w \in b.body
          /\ \A q \in Readers : Computing(q) /\ since[w] > spent[q] => Saw(q, w)

CacheInv == CacheOK /\ Shape /\ VersionsInv /\ AnnouncedInv /\ StaleInv /\ AnnouncedIsSeen /\ StaleIsBounded

----------------------------------------------------------------------------
(* Facts about the constants                                               *)

\* Counters and kinds of rows are numbered from 1.
LEMMA Numbers ==
    /\ Len(Scopes) \in Nat \ {0} /\ Len(RowKinds) \in 1..3
    /\ \A i \in Indices : Scopes[i] \in ScopeSet
    /\ \A s \in ScopeSet : \E i \in Indices : Scopes[i] = s
    /\ \A k \in RowSet : \E j \in 1..Len(RowKinds) : RowKinds[j] = k
    /\ Overdue \in Nat /\ BodyTtl \in Nat \ {0} /\ MaxRequest \in Nat /\ VersionTtl \in Nat /\ MaxLost \in Nat
    /\ Overdue = BodyTtl + MaxRequest + 1
<1>1. Len(Scopes) \in Nat \ {0}
  BY ScopeAssumption, LenProperties, EmptySeq
<1>. QED BY <1>1, ScopeAssumption, QueryAssumption, TimeAssumption DEF Indices, ScopeSet, RowSet, Overdue

\* The queries of a computation are told apart by their stage, and the last is
\* followed by the store.
LEMMA Queries ==
    ASSUME NEW i \in 1..Len(RowKinds)
    PROVE  /\ Query[i] \in {"compute1", "compute2", "compute3"}
           /\ \A j \in 1..Len(RowKinds) : Query[i] = Query[j] => i = j
           /\ AfterQuery(i) \in {"compute2", "compute3", "store"}
           /\ i < Len(RowKinds) => AfterQuery(i) = Query[i + 1]
           /\ Query[1] = "compute1"
<1>1. Len(RowKinds) \in 1..3 BY Numbers
<1>. DEFINE n == Len(RowKinds)
<1>. HIDE DEF n
<1>2. \A j \in 1..n : j \in {1, 2, 3}
  <2>1. n \in {1, 2, 3} BY <1>1 DEF n
  <2>. QED BY <2>1
<1>. USE DEF n
<1>3. \A j \in 1..Len(RowKinds) : Query[j] = <<"compute1", "compute2", "compute3">>[j] BY DEF Query
<1>4. \A j \in 1..Len(RowKinds) :
         /\ j = 1 => Query[j] = "compute1"
         /\ j = 2 => Query[j] = "compute2"
         /\ j = 3 => Query[j] = "compute3"
  BY <1>3
<1>. QED BY <1>1, <1>2, <1>4 DEF AfterQuery

\* When a computation starts, every row is still to be queried; at the store, none is.
LEMMA QueryEnds ==
    /\ \A k \in RowSet : ToQuery("compute1", k)
    /\ \A k : ~ToQuery("store", k)
<1>1. 1 \in 1..Len(RowKinds) BY Numbers
<1>. QED BY <1>1, Numbers, Queries DEF ToQuery

----------------------------------------------------------------------------
(* Types                                                                   *)

LEMMA Initially == CacheInit => CacheInv
<1>. SUFFICES ASSUME CacheInit PROVE CacheInv OBVIOUS
<1>1. CacheOK BY Numbers, EmptySeq DEF CacheInit, CacheOK
<1>2. Shape BY Numbers, EmptySeq DEF CacheInit, Shape, Stages, Nothing
<1>3. VersionsInv BY EmptySeq DEF CacheInit, VersionsInv
<1>4. AnnouncedInv BY DEF CacheInit, AnnouncedInv, Nothing, Reading
<1>5. StaleInv BY DEF CacheInit, StaleInv, Nothing
<1>6. AnnouncedIsSeen /\ StaleIsBounded BY DEF CacheInit, AnnouncedIsSeen, StaleIsBounded
<1>. QED BY <1>1, <1>2, <1>3, <1>4, <1>5, <1>6 DEF CacheInv

\* A complete token is a function on the scopes.
LEMMA TokenComplete ==
    ASSUME NEW t \in Seq(Nat), Len(t) = Len(Scopes)
    PROVE  t \in [Indices -> Nat]
BY LenProperties DEF Indices

\* The steps of a reader keep the types.
LEMMA ReaderTypes ==
    ASSUME CacheOK, Shape, NEW r \in Readers,
           Begin(r) \/ ReadVersion(r) \/ Lookup(r) \/ Compute(r) \/ Store(r)
    PROVE  CacheOK' /\ Shape'
<1>. USE Numbers
<1>1. CASE Begin(r)
  <2>1. version[Scopes[1]] \in Nat BY DEF CacheOK, Indices
  <2>2. <<version[Scopes[1]]>> \in Seq(Nat) /\ Len(<<version[Scopes[1]]>>) = 1 BY <2>1
  <2>3. Overdues \subseteq committed /\ announced \subseteq committed BY DEF Overdues, CacheOK
  <2>4. CacheOK' BY <1>1, <2>2 DEF Begin, CacheOK, Shape, cache, writers
  <2>5. Shape' BY <1>1, <2>2, <2>3 DEF Begin, Shape, cache, writers, Stages
  <2>. QED BY <2>4, <2>5
<1>2. CASE ReadVersion(r)
  <2>. DEFINE v == version[Scopes[Len(token[r]) + 1]]
  <2>1. token[r] \in Seq(Nat) /\ Len(token[r]) \in Nat /\ Len(token[r]) < Len(Scopes) BY <1>2 DEF ReadVersion, Shape
  <2>2. v \in Nat BY <2>1 DEF CacheOK, Indices
  <2>3. Append(token[r], v) \in Seq(Nat) /\ Len(Append(token[r], v)) = Len(token[r]) + 1 BY <2>1, <2>2, AppendProperties
  <2>4. token' = [token EXCEPT ![r] = Append(token[r], v)] BY <1>2 DEF ReadVersion
  <2>. HIDE DEF v
  <2>5. CacheOK' BY <1>2, <2>1, <2>3, <2>4 DEF ReadVersion, CacheOK, Shape, cache, writers
  <2>6. Shape' BY <1>2, <2>1, <2>3, <2>4 DEF ReadVersion, Shape, cache, writers, Stages
  <2>. QED BY <2>5, <2>6
<1>3. CASE Lookup(r)
  <2>1. UNION {b.body : b \in Under(token[r])} \subseteq Writers BY DEF Under, CacheOK
  <2>2. body' \in [Readers -> SUBSET Writers] BY <1>3, <2>1 DEF Lookup, Shape
  <2>3. rpc' \in [Readers -> Stages] /\ \A q \in Readers : rpc'[q] \in {"idle", "versions"} => rpc'[q] = rpc[q]
    BY <1>3 DEF Lookup, Shape, Stages
  <2>4. Len(token[r]) = Len(Scopes) /\ rpc[r] = "versions"
         /\ \A q \in Readers \ {r} : rpc'[q] = rpc[q] BY <1>3 DEF Lookup, Shape
  <2>5. CacheOK' BY <1>3, <2>2 DEF Lookup, CacheOK, Shape, cache, writers
  <2>6. Shape' BY <1>3, <2>2, <2>3, <2>4 DEF Lookup, Shape, cache, writers
  <2>. QED BY <2>5, <2>6
<1>4. CASE Compute(r)
  <2>1. PICK i \in 1..Len(RowKinds) :
           /\ rpc[r] = Query[i]
           /\ body' = [body EXCEPT ![r] = @ \cup {w \in committed : rowOf[w] = RowKinds[i]}]
           /\ rpc' = [rpc EXCEPT ![r] = AfterQuery(i)]
           /\ UNCHANGED <<cache, writers, token, spent, owed>>
    BY <1>4 DEF Compute
  <2>2. AfterQuery(i) \in {"compute2", "compute3", "store"} /\ rpc[r] \notin {"idle", "versions"} BY <2>1, Queries
  <2>3. body' \in [Readers -> SUBSET Writers] BY <2>1 DEF Shape, CacheOK
  <2>5. CacheOK' BY <2>1, <2>3 DEF CacheOK, Shape, cache, writers
  <2>6. Shape' BY <2>1, <2>2, <2>3 DEF Shape, cache, writers, Stages
  <2>. QED BY <2>5, <2>6
<1>5. CASE Store(r)
  <2>. DEFINE new == [token |-> token[r], body |-> body[r], life |-> BodyTtl]
  <2>1. token[r] \in [Indices -> Nat] BY <1>5, TokenComplete DEF Store, Shape
  <2>2. new \in [token : [Indices -> Nat], body : SUBSET Writers, life : 1..BodyTtl]
    BY <2>1 DEF Shape
  <2>3. bodies' = Others(token[r]) \cup {new} BY <1>5 DEF Store, StoreToken
  <2>4. new.token = token[r] OBVIOUS
  <2>5. \A b \in Others(token[r]) : b \in bodies /\ b.token # token[r] BY DEF Others
  <2>6. bodies' \subseteq [token : [Indices -> Nat], body : SUBSET Writers, life : 1..BodyTtl]
    BY <2>2, <2>3, <2>5 DEF Shape
  <2>. HIDE DEF new
  <2>7. \A b \in bodies' : \A c \in bodies' : c.token = b.token => c = b BY <2>3, <2>4, <2>5 DEF CacheOK
  <2>8. \A b \in bodies' : b.body \subseteq Writers /\ b.life \in 1..BodyTtl /\ b.token \in [Indices -> Nat] BY <2>6
  <2>9. CacheOK' BY <1>5, <2>7, <2>8 DEF Store, CacheOK, Shape, writers
  <2>10. Shape' BY <1>5, <2>6 DEF Store, Shape, writers, Stages
  <2>. QED BY <2>9, <2>10
<1>. QED BY <1>1, <1>2, <1>3, <1>4, <1>5

\* So do the steps of a writer.
LEMMA WriterTypes ==
    ASSUME CacheOK, Shape, NEW w \in Writers,
           Write(w) \/ WriteQuietly(w) \/ Commit(w) \/ RollBackWrite(w) \/ Flush(w)
    PROVE  CacheOK' /\ Shape'
<1>. USE Numbers
<1>1. ScopeBy(w) \in ScopeSet BY ScopeAssumption DEF ScopeBy, Shape
<1>2. ASSUME Bump(ScopeBy(w))
      PROVE  /\ version' \in [ScopeSet -> Nat] /\ ttl' \in {0, VersionTtl} /\ vlife' \in [ScopeSet -> 0..ttl']
             /\ bodies' = bodies
  BY <1>1, <1>2 DEF Bump, CacheOK
<1>3. CASE Write(w)
  <2>1. /\ version' \in [ScopeSet -> Nat] /\ ttl' \in {0, VersionTtl} /\ vlife' \in [ScopeSet -> 0..ttl']
        /\ bodies' = bodies /\ lost' \in 0..MaxLost
    BY <1>3, <1>2 DEF Write, CacheOK, cache
  <2>2. CacheOK' BY <1>3, <2>1 DEF Write, CacheOK, Shape, readers
  <2>3. Shape' BY <1>3, <2>1 DEF Write, Shape, readers
  <2>. QED BY <2>2, <2>3
<1>4. CASE WriteQuietly(w)
  <2>2. CacheOK' BY <1>4 DEF WriteQuietly, CacheOK, Shape, readers, cache
  <2>3. Shape' BY <1>4 DEF WriteQuietly, Shape, readers, cache
  <2>. QED BY <2>2, <2>3
<1>5. CASE Commit(w)
  <2>2. CacheOK' BY <1>5 DEF Commit, CacheOK, Shape, readers, cache
  <2>3. owed' \in [Readers -> [announced : SUBSET committed', overdue : SUBSET committed']]
    BY <1>5 DEF Commit, Shape, readers
  <2>4. Shape' BY <1>5, <2>3 DEF Commit, Shape, readers, cache
  <2>. QED BY <2>2, <2>4
<1>6. CASE RollBackWrite(w)
  <2>2. CacheOK' BY <1>6 DEF RollBackWrite, CacheOK, Shape, readers, cache
  <2>3. Shape' BY <1>6 DEF RollBackWrite, Shape, readers, cache
  <2>. QED BY <2>2, <2>3
<1>7. CASE Flush(w)
  <2>1. /\ version' \in [ScopeSet -> Nat] /\ ttl' \in {0, VersionTtl} /\ vlife' \in [ScopeSet -> 0..ttl']
        /\ bodies' = bodies /\ lost' \in 0..MaxLost /\ announced' \subseteq committed
    BY <1>7, <1>2 DEF Flush, CacheOK, Shape, cache
  <2>2. CacheOK' BY <1>7, <2>1 DEF Flush, CacheOK, Shape, readers
  <2>3. Shape' BY <1>7, <2>1 DEF Flush, Shape, readers
  <2>. QED BY <2>2, <2>3
<1>. QED BY <1>3, <1>4, <1>5, <1>6, <1>7

\* What a tick leaves of the bodies.
LEMMA AgedBodies ==
    ASSUME Shape, NEW b \in Aged(bodies)
    PROVE  \E c \in bodies : /\ c.life > 1 /\ b.life = c.life - 1
                             /\ b.token = c.token /\ b.body = c.body
                             /\ b \in [token : [Indices -> Nat], body : SUBSET Writers, life : 1..BodyTtl]
<1>1. PICK c \in bodies : c.life > 1 /\ b = [c EXCEPT !.life = c.life - 1] BY DEF Aged
<1>2. c \in [token : [Indices -> Nat], body : SUBSET Writers, life : 1..BodyTtl] BY DEF Shape
<1>3. c.life - 1 \in 1..BodyTtl BY <1>1, <1>2, Numbers
<1>. QED BY <1>1, <1>2, <1>3

LEMMA TickTypes ==
    ASSUME CacheOK, Shape, Tick
    PROVE  CacheOK' /\ Shape'
<1>. USE Numbers
<1>1. bodies' \subseteq [token : [Indices -> Nat], body : SUBSET Writers, life : 1..BodyTtl]
  BY AgedBodies DEF Tick
<1>2. \A b \in bodies' : \A c \in bodies' : c.token = b.token => c = b
  <2>. SUFFICES ASSUME NEW b, NEW c, b \in bodies', c \in bodies' PROVE c.token = b.token => c = b
    OBVIOUS
  <2>1. PICK x \in bodies : b = [x EXCEPT !.life = x.life - 1] BY DEF Tick, Aged
  <2>2. PICK y \in bodies : c = [y EXCEPT !.life = y.life - 1] BY DEF Tick, Aged
  <2>3. b.token = x.token /\ c.token = y.token BY <2>1, <2>2 DEF Shape
  <2>. QED BY <2>1, <2>2, <2>3 DEF CacheOK
<1>3. \A b \in bodies' : b.body \subseteq Writers /\ b.life \in 1..BodyTtl /\ b.token \in [Indices -> Nat] BY <1>1
<1>4. vlife' \in [ScopeSet -> 0..ttl'] /\ ttl' \in {0, VersionTtl} BY DEF Tick, CacheOK
<1>5. since' \in [Writers -> 0..Overdue] /\ \A w \in Writers : w \notin committed => since'[w] = since[w]
  BY DEF Tick, Shape
<1>6. spent' \in [Readers -> 0..MaxRequest] BY DEF Tick, Shape
<1>7. version' \in [ScopeSet -> Nat] BY DEF Tick, CacheOK
<1>8. CacheOK' BY <1>2, <1>3, <1>4, <1>5, <1>6, <1>7 DEF Tick, CacheOK, Shape
<1>9. Shape' BY <1>1, <1>5, <1>6 DEF Tick, Shape
<1>. QED BY <1>8, <1>9

LEMMA TypesStep ==
    ASSUME CacheOK, Shape, [CacheNext]_cacheVars
    PROVE  CacheOK' /\ Shape'
<1>1. CASE UNCHANGED cacheVars BY <1>1 DEF cacheVars, cache, writers, readers, CacheOK, Shape
<1>. QED BY <1>1, ReaderTypes, WriterTypes, TickTypes DEF CacheNext

----------------------------------------------------------------------------
(* What a step does to bodies, computations and counters                   *)

\* A body after the step was there before, or a reader stores what it computed.
BodiesMove ==
    \A b \in bodies' :
        \/ \E c \in bodies : c.token = b.token /\ c.body = b.body
        \/ \E q \in Readers : rpc[q] = "store" /\ b.token = token[q] /\ b.body = body[q]

\* A computation keeps its token, and a committed change it has seen or will see.
ReadersMove ==
    \A q \in Readers :
        Computing(q)' => /\ token'[q] = token[q]
                         /\ \A w \in committed : Saw(q, w)' \/ (Computing(q) /\ ~Saw(q, w))

LEMMA BodiesStep ==
    ASSUME CacheOK, Shape, [CacheNext]_cacheVars
    PROVE  BodiesMove /\ rowOf' = rowOf /\ ttl' = ttl /\ committed \subseteq committed'
<1>1. CASE UNCHANGED cacheVars BY <1>1 DEF cacheVars, cache, writers, BodiesMove
<1>2. ASSUME NEW r \in Readers, Begin(r) \/ ReadVersion(r) \/ Lookup(r) \/ Compute(r)
      PROVE  bodies' = bodies /\ rowOf' = rowOf /\ ttl' = ttl /\ committed' = committed
  BY <1>2 DEF Begin, ReadVersion, Lookup, Compute, cache, writers
<1>3. ASSUME NEW r \in Readers, Store(r)
      PROVE  BodiesMove /\ rowOf' = rowOf /\ ttl' = ttl /\ committed' = committed
  BY <1>3 DEF Store, StoreToken, Others, BodiesMove, writers
<1>4. ASSUME NEW w \in Writers, Write(w) \/ WriteQuietly(w) \/ Commit(w) \/ RollBackWrite(w) \/ Flush(w)
      PROVE  bodies' = bodies /\ rowOf' = rowOf /\ ttl' = ttl /\ committed \subseteq committed'
  BY <1>4 DEF Write, WriteQuietly, Commit, RollBackWrite, Flush, Bump, cache
<1>5. CASE Tick
  <2>1. BodiesMove BY <1>5, AgedBodies DEF Tick, BodiesMove
  <2>. QED BY <1>5, <2>1 DEF Tick
<1>6. bodies' = bodies => BodiesMove BY DEF BodiesMove
<1>. QED BY <1>1, <1>2, <1>3, <1>4, <1>5, <1>6 DEF CacheNext

\* One query brings the committed rows of its kind and leaves the later ones to come.
LEMMA ComputeSees ==
    ASSUME CacheOK, Shape, NEW r \in Readers, Compute(r), NEW w \in committed, Saw(r, w)
    PROVE  Saw(r, w)'
<1>1. PICK i \in 1..Len(RowKinds) :
         /\ rpc[r] = Query[i]
         /\ body' = [body EXCEPT ![r] = @ \cup {x \in committed : rowOf[x] = RowKinds[i]}]
         /\ rpc' = [rpc EXCEPT ![r] = AfterQuery(i)]
         /\ UNCHANGED <<cache, writers, token, spent, owed>>
  BY DEF Compute
<1>2. body'[r] = body[r] \cup {x \in committed : rowOf[x] = RowKinds[i]} /\ rpc'[r] = AfterQuery(i) /\ rowOf' = rowOf
  BY <1>1 DEF Shape, writers
<1>3. CASE w \in body[r] BY <1>2, <1>3 DEF Saw
<1>4. CASE ToQuery(rpc[r], rowOf[w])
  <2>1. PICK k, j \in 1..Len(RowKinds) : rpc[r] = Query[k] /\ k <= j /\ RowKinds[j] = rowOf[w] BY <1>4 DEF ToQuery
  <2>2. Query[i] = Query[k] BY <1>1, <2>1
  <2>5. i = k BY <2>2, Queries
  <2>3. CASE j = i BY <1>2, <2>1, <2>3 DEF Saw
  <2>4. CASE j # i
    <3>1. i < Len(RowKinds) /\ i + 1 \in 1..Len(RowKinds) /\ i + 1 <= j BY <2>1, <2>5, <2>4, Numbers
    <3>2. AfterQuery(i) = Query[i + 1] BY <3>1, Queries
    <3>3. ToQuery(AfterQuery(i), rowOf[w]) BY <2>1, <3>1, <3>2 DEF ToQuery
    <3>. QED BY <1>2, <3>3 DEF Saw
  <2>. QED BY <2>3, <2>4
<1>. QED BY <1>3, <1>4 DEF Saw

LEMMA ReadersStep ==
    ASSUME CacheOK, Shape, [CacheNext]_cacheVars
    PROVE  ReadersMove
<1>. DEFINE Kept(q, w) == w \in committed => Saw(q, w)' \/ (Computing(q) /\ ~Saw(q, w))
<1>. SUFFICES ASSUME NEW q \in Readers, Computing(q)', NEW w
              PROVE  token'[q] = token[q] /\ Kept(q, w)
  BY DEF ReadersMove
<1>0. w \in committed => w \in Writers BY DEF CacheOK
<1>1. ASSUME rpc'[q] = rpc[q], body'[q] = body[q], rowOf' = rowOf, token'[q] = token[q]
      PROVE  token'[q] = token[q] /\ Kept(q, w)
  BY <1>1 DEF Saw, Computing
<1>2. ASSUME NEW r \in Readers, Begin(r) PROVE rpc'[q] = rpc[q] /\ body' = body /\ rowOf' = rowOf /\ token'[q] = token[q]
  BY <1>2 DEF Begin, Computing, Shape, writers
<1>3. ASSUME NEW r \in Readers, ReadVersion(r)
      PROVE  rpc'[q] = rpc[q] /\ body' = body /\ rowOf' = rowOf /\ token'[q] = token[q]
  BY <1>3 DEF ReadVersion, Computing, Shape, writers
<1>4. ASSUME NEW r \in Readers, Lookup(r)
      PROVE  token'[q] = token[q] /\ Kept(q, w)
  <2>1. CASE q # r
    <3>1. rpc'[q] = rpc[q] /\ body'[q] = body[q] /\ rowOf' = rowOf /\ token'[q] = token[q]
      BY <1>4, <2>1 DEF Lookup, Shape, writers
    <3>. QED BY <3>1, <1>1
  <2>2. CASE q = r
    <3>1. rpc'[q] \in {"compute1", "answered"} BY <1>4, <2>2 DEF Lookup, Shape
    <3>2. rpc'[q] = "compute1" BY <3>1 DEF Computing
    <3>3. w \in committed => ToQuery("compute1", rowOf[w]) BY <1>0, QueryEnds DEF Shape
    <3>4. rowOf' = rowOf /\ token' = token BY <1>4 DEF Lookup, writers
    <3>. QED BY <3>2, <3>3, <3>4 DEF Saw
  <2>. QED BY <2>1, <2>2
<1>5. ASSUME NEW r \in Readers, Compute(r)
      PROVE  token'[q] = token[q] /\ Kept(q, w)
  <2>1. CASE q # r
    <3>1. rpc'[q] = rpc[q] /\ body'[q] = body[q] /\ rowOf' = rowOf /\ token'[q] = token[q]
      BY <1>5, <2>1 DEF Compute, Shape, writers
    <3>. QED BY <3>1, <1>1
  <2>2. CASE q = r
    <3>1. Computing(r) /\ token' = token BY <1>5, Queries DEF Compute, Computing
    <3>. QED BY <2>2, <3>1, <1>5, ComputeSees
  <2>. QED BY <2>1, <2>2
<1>6. ASSUME NEW r \in Readers, Store(r) PROVE rpc'[q] = rpc[q] /\ body' = body /\ rowOf' = rowOf /\ token'[q] = token[q]
  BY <1>6 DEF Store, Computing, Shape, writers
<1>7. ASSUME NEW v \in Writers, Write(v) \/ WriteQuietly(v) \/ Commit(v) \/ RollBackWrite(v) \/ Flush(v)
      PROVE  rpc' = rpc /\ body' = body /\ rowOf' = rowOf /\ token' = token
  BY <1>7 DEF Write, WriteQuietly, Commit, RollBackWrite, Flush, readers
<1>8. CASE Tick BY <1>1, <1>8 DEF Tick
<1>9. CASE UNCHANGED cacheVars BY <1>1, <1>9 DEF cacheVars, readers, writers
<1>. QED BY <1>1, <1>2, <1>3, <1>4, <1>5, <1>6, <1>7, <1>8, <1>9 DEF CacheNext

\* On Redis a counter never goes back.
LEMMA VersionsGrow ==
    ASSUME CacheOK, Shape, [CacheNext]_cacheVars, ttl = 0
    PROVE  \A i \in Indices : version'[Scopes[i]] \in Nat /\ version[Scopes[i]] <= version'[Scopes[i]]
<1>1. \A i \in Indices : version[Scopes[i]] \in Nat BY Numbers DEF CacheOK
<1>2. ASSUME NEW s \in ScopeSet, Bump(s)
      PROVE  \A x \in ScopeSet : version'[x] \in Nat /\ version[x] <= version'[x]
  BY <1>2 DEF Bump, CacheOK
<1>3. ASSUME NEW w \in Writers PROVE ScopeBy(w) \in ScopeSet BY ScopeAssumption DEF ScopeBy, Shape
<1>4. ASSUME NEW w \in Writers, Write(w) \/ Flush(w)
      PROVE  \A i \in Indices : version'[Scopes[i]] \in Nat /\ version[Scopes[i]] <= version'[Scopes[i]]
  BY <1>1, <1>2, <1>3, <1>4, Numbers DEF Write, Flush, cache
<1>5. ASSUME NEW w \in Writers, WriteQuietly(w) \/ Commit(w) \/ RollBackWrite(w) PROVE version' = version
  BY <1>5 DEF WriteQuietly, Commit, RollBackWrite, cache
<1>6. ASSUME NEW r \in Readers, Begin(r) \/ ReadVersion(r) \/ Lookup(r) \/ Compute(r) \/ Store(r)
      PROVE  version' = version
  BY <1>6 DEF Begin, ReadVersion, Lookup, Compute, Store, cache
<1>7. CASE Tick
  <2>1. \A s \in ScopeSet : ~Expires(s) BY DEF CacheOK, Expires
  <2>2. \A s \in ScopeSet : version'[s] = version[s] BY <1>7, <2>1 DEF Tick
  <2>. QED BY <1>1, <2>2, Numbers
<1>8. CASE UNCHANGED cacheVars BY <1>1, <1>8 DEF cacheVars, cache
<1>. QED BY <1>1, <1>4, <1>5, <1>6, <1>7, <1>8 DEF CacheNext

----------------------------------------------------------------------------
(* Announced changes                                                       *)

LEMMA VersionsStep ==
    ASSUME CacheInv, [CacheNext]_cacheVars
    PROVE  VersionsInv'
<1>. USE Numbers DEF CacheInv
<1>. SUFFICES ASSUME ttl = 0 PROVE VersionsInv' BY BodiesStep DEF VersionsInv
<1>1. \A i \in Indices : version[Scopes[i]] \in Nat /\ version'[Scopes[i]] \in Nat /\ version[Scopes[i]] <= version'[Scopes[i]]
  BY VersionsGrow DEF CacheOK
<1>2. ASSUME NEW q \in Readers, NEW i \in 1..Len(token[q])
      PROVE  i \in Indices /\ token[q][i] \in Nat /\ token[q][i] <= version'[Scopes[i]]
  <2>1. token[q] \in Seq(Nat) /\ Len(token[q]) \in 0..Len(Scopes) BY DEF Shape
  <2>2. i \in Indices BY <2>1 DEF Indices
  <2>3. token[q][i] \in Nat BY <2>1, ElementOfSeq
  <2>4. token[q][i] <= version[Scopes[i]] BY DEF VersionsInv
  <2>. QED BY <1>1, <2>2, <2>3, <2>4
<1>3. \A b \in bodies', i \in Indices : b.token[i] <= version'[Scopes[i]]
  <2>. SUFFICES ASSUME NEW b, b \in bodies', NEW i \in Indices PROVE b.token[i] <= version'[Scopes[i]] OBVIOUS
  <2>1. CASE \E c \in bodies : c.token = b.token /\ c.body = b.body
    <3>1. PICK c \in bodies : c.token = b.token BY <2>1
    <3>2. c.token[i] \in Nat /\ c.token[i] <= version[Scopes[i]] BY DEF Shape, VersionsInv
    <3>. QED BY <1>1, <3>1, <3>2
  <2>2. CASE \E q \in Readers : rpc[q] = "store" /\ b.token = token[q] /\ b.body = body[q]
    <3>1. PICK q \in Readers : rpc[q] = "store" /\ b.token = token[q] BY <2>2
    <3>2. i \in 1..Len(token[q]) BY <3>1 DEF Shape, Indices
    <3>. QED BY <1>2, <3>1, <3>2
  <2>. QED BY <2>1, <2>2, BodiesStep DEF BodiesMove
<1>4. ASSUME NEW q \in Readers, NEW i \in 1..Len(token'[q]), token'[q] = token[q] PROVE token'[q][i] <= version'[Scopes[i]]
  BY <1>2, <1>4
<1>5. ASSUME NEW q \in Readers, Begin(q), NEW i \in 1..Len(token'[q]) PROVE token'[q][i] <= version'[Scopes[i]]
  <2>1. token'[q] = <<version[Scopes[1]]>> BY <1>5 DEF Begin, Shape
  <2>2. i = 1 /\ 1 \in Indices BY <2>1 DEF Indices
  <2>. QED BY <1>1, <2>1, <2>2
<1>6. ASSUME NEW q \in Readers, ReadVersion(q), NEW i \in 1..Len(token'[q]) PROVE token'[q][i] <= version'[Scopes[i]]
  <2>. DEFINE v == version[Scopes[Len(token[q]) + 1]]
  <2>1. token[q] \in Seq(Nat) /\ Len(token[q]) \in Nat /\ Len(token[q]) < Len(Scopes) BY <1>6 DEF ReadVersion, Shape
  <2>2. token'[q] = Append(token[q], v) BY <1>6 DEF ReadVersion, Shape
  <2>3. Len(token[q]) + 1 \in Indices BY <2>1 DEF Indices
  <2>4. v \in Nat BY <1>1, <2>3
  <2>5. CASE i = Len(token[q]) + 1
    <3>1. token'[q][i] = v BY <2>1, <2>2, <2>4, <2>5, AppendProperties
    <3>. QED BY <1>1, <2>3, <2>5, <3>1
  <2>6. CASE i # Len(token[q]) + 1
    <3>1. Len(token'[q]) = Len(token[q]) + 1 BY <2>1, <2>2, <2>4, AppendProperties
    <3>2. i \in 1..Len(token[q]) BY <2>1, <2>6, <3>1
    <3>3. token'[q][i] = token[q][i] BY <2>1, <2>2, <2>4, <3>2, AppendProperties
    <3>. QED BY <1>2, <3>2, <3>3
  <2>. QED BY <2>5, <2>6
<1>7. ASSUME NEW q \in Readers PROVE token'[q] = token[q] \/ Begin(q) \/ ReadVersion(q)
  BY DEF CacheNext, Begin, ReadVersion, Lookup, Compute, Store, Write, WriteQuietly, Commit, RollBackWrite, Flush, Tick,
         cacheVars, readers, Shape
<1>8. \A q \in Readers : \A i \in 1..Len(token'[q]) : token'[q][i] <= version'[Scopes[i]]
  BY <1>4, <1>5, <1>6, <1>7
<1>. QED BY <1>3, <1>8 DEF VersionsInv

\* A change that is covered stays covered, for later versions too.
LEMMA CoveredStep ==
    ASSUME CacheOK, Shape, [CacheNext]_cacheVars, NEW w \in committed,
           NEW h \in [Indices -> Nat], NEW g \in [Indices -> Nat], \A i \in Indices : h[i] <= g[i],
           Covered(h, w)
    PROVE  Covered(g, w)'
<1>1. rowOf' = rowOf BY BodiesStep
<1>2. ASSUME NEW t \in [Indices -> Nat], Below(t, h, w) PROVE Below(t, g, w)'
  BY <1>1, <1>2 DEF Below, ScopeBy
<1>3. ASSUME NEW q \in Readers, Computing(q) PROVE token[q] \in [Indices -> Nat]
  BY <1>3, TokenComplete DEF Computing, Shape
<1>4. ASSUME NEW b, b \in bodies' PROVE w \in b.body \/ Below(b.token, g, w)'
  <2>1. CASE \E c \in bodies : c.token = b.token /\ c.body = b.body
    <3>1. PICK c \in bodies : c.token = b.token /\ c.body = b.body BY <2>1
    <3>2. c.token \in [Indices -> Nat] BY DEF Shape
    <3>3. w \in c.body \/ Below(c.token, h, w) BY DEF Covered
    <3>. QED BY <1>2, <3>1, <3>2, <3>3
  <2>2. CASE \E q \in Readers : rpc[q] = "store" /\ b.token = token[q] /\ b.body = body[q]
    <3>1. PICK q \in Readers : rpc[q] = "store" /\ b.token = token[q] /\ b.body = body[q] BY <2>2
    <3>2. Computing(q) BY <3>1 DEF Computing
    <3>3. Saw(q, w) \/ Below(token[q], h, w) BY <3>2 DEF Covered
    <3>4. Saw(q, w) => w \in body[q] BY <3>1, QueryEnds DEF Saw
    <3>. QED BY <1>2, <1>3, <3>1, <3>2, <3>3, <3>4
  <2>. QED BY <1>4, <2>1, <2>2, BodiesStep DEF BodiesMove
<1>5. ASSUME NEW q \in Readers, Computing(q)' PROVE Saw(q, w)' \/ Below(token[q], g, w)'
  <2>1. Saw(q, w)' \/ (Computing(q) /\ ~Saw(q, w)) BY <1>5, ReadersStep DEF ReadersMove
  <2>2. CASE Computing(q) /\ ~Saw(q, w)
    <3>1. Below(token[q], h, w) BY <2>2 DEF Covered
    <3>2. token[q] \in [Indices -> Nat] BY <1>3, <2>2
    <3>3. PICK i \in Indices : Scopes[i] = ScopeBy(w) /\ token[q][i] < h[i] BY <3>1 DEF Below
    <3>4. token[q][i] < g[i] BY <3>2, <3>3
    <3>5. token'[q] = token[q] BY <1>5, ReadersStep DEF ReadersMove
    <3>. QED BY <1>1, <3>3, <3>4, <3>5 DEF Below, ScopeBy
  <2>. QED BY <2>1, <2>2
<1>. QED BY <1>4, <1>5 DEF Covered

\* The versions a reader has read or would read now only grow.
LEMMA HorizonStep ==
    ASSUME CacheOK, Shape, [CacheNext]_cacheVars, ttl = 0, NEW r \in Readers, Reading(r)'
    PROVE  /\ Horizon(r) \in [Indices -> Nat] /\ Horizon(r)' \in [Indices -> Nat] /\ Now \in [Indices -> Nat]
           /\ \/ Reading(r) /\ owed'[r] = owed[r] /\ \A i \in Indices : Horizon(r)[i] <= Horizon(r)'[i]
              \/ owed'[r].announced = announced /\ \A i \in Indices : Now[i] <= Horizon(r)'[i]
<1>. USE Numbers
<1>1. \A i \in Indices : version[Scopes[i]] \in Nat /\ version'[Scopes[i]] \in Nat /\ version[Scopes[i]] <= version'[Scopes[i]]
  BY VersionsGrow DEF CacheOK
<1>2. token \in [Readers -> Seq(Nat)] /\ token' \in [Readers -> Seq(Nat)] BY TypesStep DEF Shape
<1>3. \A i \in 1..Len(token[r]) : token[r][i] \in Nat BY <1>2, ElementOfSeq
<1>4. \A i \in 1..Len(token'[r]) : token'[r][i] \in Nat BY <1>2, ElementOfSeq
<1>5. Len(token[r]) \in Nat /\ Len(token'[r]) \in Nat BY <1>2, LenProperties
<1>6. Horizon(r) \in [Indices -> Nat] /\ Now \in [Indices -> Nat] BY <1>1, <1>3, <1>5 DEF Horizon, Now, Indices
<1>7. Horizon(r)' \in [Indices -> Nat] BY <1>1, <1>4, <1>5 DEF Horizon, Indices
<1>8. ASSUME token'[r] = token[r], Reading(r), owed'[r] = owed[r]
      PROVE  \A i \in Indices : Horizon(r)[i] <= Horizon(r)'[i]
  <2>. SUFFICES ASSUME NEW i \in Indices PROVE Horizon(r)[i] <= Horizon(r)'[i] OBVIOUS
  <2>1. CASE i <= Len(token[r])
    <3>1. token[r][i] \in Nat BY <1>3, <1>5, <2>1 DEF Indices
    <3>2. Horizon(r)[i] = token[r][i] /\ Horizon(r)'[i] = token[r][i] BY <1>8, <2>1 DEF Horizon
    <3>. QED BY <3>1, <3>2
  <2>2. CASE ~(i <= Len(token[r]))
    <3>1. Horizon(r)[i] = version[Scopes[i]] /\ Horizon(r)'[i] = version'[Scopes[i]] BY <1>8, <2>2 DEF Horizon
    <3>. QED BY <1>1, <3>1
  <2>. QED BY <2>1, <2>2
<1>9. CASE Begin(r)
  <2>1. token'[r] = <<version[Scopes[1]]>> BY <1>9 DEF Begin, Shape
  <2>2. Len(token'[r]) = 1 /\ token'[r][1] = version[Scopes[1]] BY <2>1
  <2>3. \A i \in Indices : Now[i] <= Horizon(r)'[i] BY <1>1, <2>2 DEF Now, Horizon, Indices
  <2>4. owed'[r].announced = announced BY <1>9 DEF Begin, Shape
  <2>. QED BY <1>6, <1>7, <2>3, <2>4
<1>10. CASE ReadVersion(r)
  <2>. DEFINE v == version[Scopes[Len(token[r]) + 1]]
  <2>1. Len(token[r]) < Len(Scopes) /\ token'[r] = Append(token[r], v) BY <1>10 DEF ReadVersion, Shape
  <2>2. Len(token[r]) + 1 \in Indices BY <1>5, <2>1 DEF Indices
  <2>3. v \in Nat BY <1>1, <2>2
  <2>4. Len(token'[r]) = Len(token[r]) + 1 /\ token'[r][Len(token[r]) + 1] = v
        /\ \A i \in 1..Len(token[r]) : token'[r][i] = token[r][i]
    BY <1>2, <2>1, <2>3, AppendProperties
  <2>5. version' = version /\ owed' = owed /\ rpc' = rpc BY <1>10 DEF ReadVersion, cache
  <2>. HIDE DEF v
  <2>6. \A i \in Indices : IF i <= Len(token[r]) THEN Horizon(r)[i] = Horizon(r)'[i]
                           ELSE Horizon(r)[i] = version[Scopes[i]]
    BY <1>5, <2>4 DEF Horizon, Indices
  <2>7. \A i \in Indices : ~(i <= Len(token[r])) => Horizon(r)'[i] = version[Scopes[i]]
    <3>. SUFFICES ASSUME NEW i \in Indices, ~(i <= Len(token[r])) PROVE Horizon(r)'[i] = version[Scopes[i]] OBVIOUS
    <3>1. CASE i = Len(token[r]) + 1 BY <1>5, <2>4, <2>5, <3>1 DEF Horizon, v
    <3>2. CASE i # Len(token[r]) + 1
      <4>1. ~(i <= Len(token'[r])) BY <1>5, <2>4, <3>2 DEF Indices
      <4>. QED BY <2>5, <4>1 DEF Horizon
    <3>. QED BY <3>1, <3>2
  <2>8. \A i \in Indices : Horizon(r)[i] = Horizon(r)'[i] BY <2>6, <2>7
  <2>9. Reading(r) BY <2>5 DEF Reading
  <2>. QED BY <1>6, <1>7, <2>5, <2>8, <2>9
<1>11. ASSUME ~Begin(r), ~ReadVersion(r) PROVE token'[r] = token[r] /\ Reading(r) /\ owed'[r] = owed[r]
  <2>1. ASSUME NEW q \in Readers, Begin(q) \/ ReadVersion(q), q # r
        PROVE  token'[r] = token[r] /\ owed'[r] = owed[r] /\ rpc'[r] = rpc[r]
    BY <2>1 DEF Begin, ReadVersion, Shape
  <2>2. ASSUME NEW q \in Readers, Lookup(q) \/ Compute(q) \/ Store(q)
        PROVE  token'[r] = token[r] /\ owed'[r] = owed[r] /\ Reading(r)
    <3>1. Reading(q) BY <2>2, Queries DEF Lookup, Compute, Store, Reading
    <3>2. q # r => rpc'[r] = rpc[r] BY <2>2 DEF Lookup, Compute, Store, Shape
    <3>3. Reading(r) BY <3>1, <3>2 DEF Reading
    <3>. QED BY <2>2, <3>3 DEF Lookup, Compute, Store
  <2>3. ASSUME NEW w \in Writers, Write(w) \/ WriteQuietly(w) \/ Commit(w) \/ RollBackWrite(w) \/ Flush(w)
        PROVE  UNCHANGED readers
    BY <2>3 DEF Write, WriteQuietly, Commit, RollBackWrite, Flush
  <2>4. CASE Tick \/ UNCHANGED cacheVars
    <3>1. token' = token /\ owed' = owed /\ rpc' = rpc BY <2>4 DEF Tick, cacheVars, readers
    <3>. QED BY <3>1 DEF Reading
  <2>5. ASSUME UNCHANGED readers PROVE token'[r] = token[r] /\ Reading(r) /\ owed'[r] = owed[r]
    BY <2>5 DEF readers, Reading
  <2>6. rpc'[r] = rpc[r] => Reading(r) BY DEF Reading
  <2>. QED BY <1>11, <2>1, <2>2, <2>3, <2>4, <2>5, <2>6 DEF CacheNext
<1>. QED BY <1>6, <1>7, <1>8, <1>9, <1>10, <1>11

\* The bump after the commit puts every version in use below the new one.
LEMMA FlushCovers ==
    ASSUME CacheInv, NEW w \in Writers, Flush(w), Bump(ScopeBy(w)), ttl = 0
    PROVE  Covered(Now, w)'
<1>. USE Numbers DEF CacheInv
<1>1. ScopeBy(w) \in ScopeSet /\ ScopeBy(w)' = ScopeBy(w) BY ScopeAssumption DEF ScopeBy, Shape, Flush
<1>2. PICK i \in Indices : Scopes[i] = ScopeBy(w) BY <1>1
<1>3. version[Scopes[i]] \in Nat /\ version'[Scopes[i]] = version[Scopes[i]] + 1 BY <1>1, <1>2 DEF Bump, CacheOK
<1>4. ASSUME NEW t, t[i] \in Nat, t[i] <= version[Scopes[i]] PROVE t[i] < Now'[i] BY <1>3, <1>4 DEF Now
<1>5. UNCHANGED <<bodies, rpc, token>> BY DEF Bump, Flush, readers
<1>6. \A b \in bodies : b.token[i] \in Nat /\ b.token[i] <= version[Scopes[i]] BY DEF Shape, VersionsInv
<1>7. ASSUME NEW q \in Readers, Computing(q) PROVE token[q][i] \in Nat /\ token[q][i] <= version[Scopes[i]]
  <2>1. Len(token[q]) = Len(Scopes) /\ token[q] \in Seq(Nat) BY <1>7 DEF Computing, Shape
  <2>2. i \in 1..Len(token[q]) BY <2>1 DEF Indices
  <2>3. token[q][i] \in Nat BY <2>1, <2>2, ElementOfSeq
  <2>. QED BY <2>2, <2>3 DEF VersionsInv
<1>8. \A b \in bodies' : Below(b.token, Now, w)' BY <1>1, <1>2, <1>4, <1>5, <1>6 DEF Below
<1>9. \A q \in Readers : Computing(q)' => Below(token[q], Now, w)' BY <1>1, <1>2, <1>4, <1>5, <1>7 DEF Below, Computing
<1>. QED BY <1>8, <1>9 DEF Covered

LEMMA AnnouncedStep ==
    ASSUME CacheInv, [CacheNext]_cacheVars
    PROVE  AnnouncedInv'
<1>. USE DEF CacheInv
<1>. SUFFICES ASSUME ttl = 0 PROVE AnnouncedInv' BY BodiesStep DEF AnnouncedInv
<1>1. PICK n, m : n = Now /\ m = Now' OBVIOUS
<1>2. n \in [Indices -> Nat] /\ m \in [Indices -> Nat] /\ \A i \in Indices : n[i] <= m[i]
  BY <1>1, VersionsGrow, Numbers DEF Now, CacheOK
<1>3. \A w \in announced : w \in committed /\ Covered(n, w) BY <1>1 DEF AnnouncedInv, CacheOK
<1>4. \A w \in announced : Covered(m, w)' BY <1>2, <1>3, CoveredStep
<1>5. \A w \in announced : Covered(Now, w)' BY <1>1, <1>4 DEF Covered, Below
<1>6. ASSUME NEW w \in announced', w \notin announced PROVE Covered(Now, w)'
  <2>1. \E v \in Writers : Flush(v) /\ announced' = announced \cup {v} /\ Bump(ScopeBy(v))
    BY <1>6 DEF CacheNext, Begin, ReadVersion, Lookup, Compute, Store, Write, WriteQuietly, Commit, RollBackWrite, Flush, Tick,
         cacheVars, writers
  <2>2. w \in Writers /\ Flush(w) /\ Bump(ScopeBy(w)) BY <1>6, <2>1
  <2>. QED BY <2>2, FlushCovers
<1>7. ASSUME NEW r \in Readers, Reading(r)', NEW w \in owed'[r].announced PROVE Covered(Horizon(r), w)'
  <2>1. PICK h, g : h = Horizon(r) /\ g = Horizon(r)' OBVIOUS
  <2>2. h \in [Indices -> Nat] /\ g \in [Indices -> Nat] BY <1>7, <2>1, HorizonStep
  <2>3. ASSUME Reading(r), owed'[r] = owed[r], \A i \in Indices : Horizon(r)[i] <= Horizon(r)'[i]
        PROVE  Covered(g, w)'
    <3>1. w \in committed BY <1>7, <2>3 DEF Shape
    <3>2. Covered(h, w) BY <1>7, <2>1, <2>3 DEF AnnouncedInv
    <3>3. \A i \in Indices : h[i] <= g[i] BY <2>1, <2>3
    <3>. QED BY <2>2, <3>1, <3>2, <3>3, CoveredStep
  <2>4. ASSUME owed'[r].announced = announced, \A i \in Indices : Now[i] <= Horizon(r)'[i]
        PROVE  Covered(g, w)'
    <3>1. w \in committed /\ Covered(n, w) BY <1>3, <1>7, <2>4
    <3>3. \A i \in Indices : n[i] <= g[i] BY <1>1, <2>1, <2>4
    <3>. QED BY <1>2, <2>2, <3>1, <3>3, CoveredStep
  <2>5. Covered(g, w)' BY <1>7, <2>3, <2>4, HorizonStep
  <2>. QED BY <2>1, <2>5 DEF Covered, Below
<1>. QED BY <1>5, <1>6, <1>7 DEF AnnouncedInv

----------------------------------------------------------------------------
(* The age of what is cached                                               *)

LEMMA StaleTick ==
    ASSUME CacheInv, Tick
    PROVE  StaleInv'
<1>. USE Numbers DEF CacheInv
<1>1. \A w \in committed : w \in Writers /\ since[w] \in 0..Overdue /\ since'[w] \in 0..Overdue
        /\ since'[w] <= since[w] + 1 /\ (since[w] = Overdue => since'[w] = Overdue)
  BY DEF Tick, Shape, CacheOK
<1>2. UNCHANGED <<owed, committed, rpc, body, rowOf>> BY DEF Tick
<1>3. \A r \in Readers : \A w \in owed[r].overdue : since'[w] = Overdue BY <1>1 DEF StaleInv, Shape
<1>4. ASSUME NEW w \in committed, NEW b \in bodies', since'[w] > BodyTtl - b.life + MaxRequest PROVE w \in b.body
  <2>1. PICK c \in bodies : c.life > 1 /\ b.life = c.life - 1 /\ b.body = c.body BY AgedBodies DEF Tick
  <2>2. c.life \in Int BY DEF Shape
  <2>3. since[w] > BodyTtl - c.life + MaxRequest BY <1>1, <1>4, <2>1, <2>2
  <2>. QED BY <2>1, <2>3 DEF StaleInv
<1>5. ASSUME NEW w \in committed, NEW q \in Readers, Computing(q), since'[w] > spent'[q] PROVE Saw(q, w)
  <2>1. spent'[q] = spent[q] + 1 /\ spent[q] \in Nat BY <1>5 DEF Tick, Computing, Reading, Shape
  <2>2. since[w] > spent[q] BY <1>1, <1>5, <2>1
  <2>. QED BY <1>5, <2>2 DEF StaleInv
<1>6. \A q \in Readers : Computing(q)' = Computing(q) /\ \A w : Saw(q, w)' = Saw(q, w) BY <1>2 DEF Computing, Saw
<1>. QED BY <1>2, <1>3, <1>4, <1>5, <1>6 DEF StaleInv

LEMMA StaleOther ==
    ASSUME CacheInv, [CacheNext]_cacheVars, ~Tick
    PROVE  StaleInv'
<1>. USE Numbers DEF CacheInv
<1>1. since' = since /\ spent' = spent /\ committed \subseteq committed'
  BY DEF CacheNext, Begin, ReadVersion, Lookup, Compute, Store, Write, WriteQuietly, Commit, RollBackWrite, Flush,
         cacheVars, readers, writers
<1>2. ASSUME NEW w \in committed', w \notin committed PROVE since[w] = 0
  BY <1>2, TypesStep DEF Shape, CacheOK
<1>3. ASSUME NEW r \in Readers, NEW w \in owed'[r].overdue PROVE since[w] = Overdue
  <2>1. owed'[r] = owed[r] \/ owed'[r].overdue = Overdues
    <3>1. CASE \E q \in Readers : Begin(q) BY <3>1 DEF Begin, Shape
    <3>2. CASE ~\E q \in Readers : Begin(q)
      BY <3>2 DEF CacheNext, ReadVersion, Lookup, Compute, Store, Write, WriteQuietly, Commit, RollBackWrite, Flush, cacheVars, readers
    <3>. QED BY <3>1, <3>2
  <2>. QED BY <1>3, <2>1 DEF StaleInv, Overdues
<1>4. ASSUME NEW w \in committed, NEW b \in bodies', since[w] > BodyTtl - b.life + MaxRequest PROVE w \in b.body
  <2>0. w \in Writers /\ since[w] \in Nat BY DEF CacheOK, Shape
  <2>1. CASE b \in bodies BY <1>4, <2>1 DEF StaleInv
  <2>2. CASE \E q \in Readers : Store(q) /\ b = [token |-> token[q], body |-> body[q], life |-> BodyTtl]
    <3>1. PICK q \in Readers : rpc[q] = "store" /\ b = [token |-> token[q], body |-> body[q], life |-> BodyTtl]
      BY <2>2 DEF Store
    <3>2. b.life = BodyTtl /\ b.body = body[q] BY <3>1
    <3>3. spent[q] \in 0..MaxRequest BY DEF Shape
    <3>4. since[w] > spent[q] BY <1>4, <2>0, <3>2, <3>3
    <3>5. Saw(q, w) BY <3>1, <3>4 DEF StaleInv, Computing
    <3>. QED BY <3>1, <3>2, <3>5, QueryEnds DEF Saw
  <2>3. bodies' = bodies \/ \E q \in Readers : Store(q)
    BY DEF CacheNext, Begin, ReadVersion, Lookup, Compute, Write, WriteQuietly, Commit, RollBackWrite, Flush, Bump, cacheVars, cache
  <2>4. ASSUME NEW q \in Readers, Store(q)
        PROVE  b \in bodies \/ b = [token |-> token[q], body |-> body[q], life |-> BodyTtl]
    BY <2>4 DEF Store, StoreToken, Others
  <2>. QED BY <2>1, <2>2, <2>3, <2>4
<1>5. ASSUME NEW w \in committed, NEW q \in Readers, Computing(q)', since[w] > spent[q] PROVE Saw(q, w)'
  BY <1>5, ReadersStep DEF ReadersMove, StaleInv
<1>6. ASSUME NEW w \in committed', w \notin committed, NEW b \in bodies' PROVE ~(since[w] > BodyTtl - b.life + MaxRequest)
  <2>1. b.life \in 1..BodyTtl BY TypesStep DEF CacheOK
  <2>. QED BY <1>2, <1>6, <2>1
<1>7. ASSUME NEW w \in committed', w \notin committed, NEW q \in Readers PROVE ~(since[w] > spent[q])
  <2>1. spent[q] \in Nat BY DEF Shape
  <2>. QED BY <1>2, <1>7, <2>1
<1>. QED BY <1>1, <1>3, <1>4, <1>5, <1>6, <1>7 DEF StaleInv

----------------------------------------------------------------------------
(* Answers                                                                 *)

\* A request answers with a body it found under the versions it read, or with the
\* body it computed.
LEMMA Answers ==
    ASSUME CacheInv, [CacheNext]_cacheVars, NEW r \in Readers, rpc'[r] = "answered"
    PROVE  /\ owed'[r] = owed[r]
           /\ \/ rpc[r] = "answered" /\ body'[r] = body[r]
              \/ /\ rpc[r] = "versions" /\ Len(token[r]) = Len(Scopes)
                 /\ \E b \in bodies : b.token = token[r] /\ b.body \subseteq body'[r]
              \/ rpc[r] = "store" /\ body'[r] = body[r]
<1>. USE DEF CacheInv
<1>1. ASSUME NEW q \in Readers, Begin(q) PROVE rpc'[r] = rpc[r] /\ body'[r] = body[r] /\ owed'[r] = owed[r]
  BY <1>1 DEF Begin, Shape
<1>2. ASSUME NEW q \in Readers, ReadVersion(q) PROVE rpc'[r] = rpc[r] /\ body'[r] = body[r] /\ owed'[r] = owed[r]
  BY <1>2 DEF ReadVersion
<1>3. ASSUME NEW q \in Readers, Compute(q) PROVE rpc'[r] = rpc[r] /\ body'[r] = body[r] /\ owed'[r] = owed[r]
  <2>1. r # q BY <1>3, Queries DEF Compute, Shape
  <2>. QED BY <1>3, <2>1 DEF Compute, Shape
<1>4. ASSUME NEW q \in Readers, q # r, Lookup(q) \/ Store(q)
      PROVE  rpc'[r] = rpc[r] /\ body'[r] = body[r] /\ owed'[r] = owed[r]
  BY <1>4 DEF Lookup, Store, Shape
<1>5. ASSUME Store(r) PROVE rpc[r] = "store" /\ body'[r] = body[r] /\ owed'[r] = owed[r] BY <1>5 DEF Store
<1>6. ASSUME Lookup(r)
      PROVE  /\ rpc[r] = "versions" /\ Len(token[r]) = Len(Scopes) /\ owed'[r] = owed[r]
             /\ \E b \in bodies : b.token = token[r] /\ b.body \subseteq body'[r]
  <2>1. Under(token[r]) # {} /\ body'[r] = UNION {b.body : b \in Under(token[r])} BY <1>6 DEF Lookup, Shape
  <2>2. PICK b \in Under(token[r]) : b.body \subseteq body'[r] BY <2>1
  <2>3. b \in bodies /\ b.token = token[r] BY DEF Under
  <2>. QED BY <1>6, <2>2, <2>3 DEF Lookup
<1>7. ASSUME NEW w \in Writers, Write(w) \/ WriteQuietly(w) \/ Commit(w) \/ RollBackWrite(w) \/ Flush(w)
      PROVE  UNCHANGED <<rpc, body, owed>>
  BY <1>7 DEF Write, WriteQuietly, Commit, RollBackWrite, Flush, readers
<1>8. CASE Tick \/ UNCHANGED cacheVars BY <1>8 DEF Tick, cacheVars, readers
<1>. QED BY <1>1, <1>2, <1>3, <1>4, <1>5, <1>6, <1>7, <1>8 DEF CacheNext

LEMMA AnswersStep ==
    ASSUME CacheInv, [CacheNext]_cacheVars
    PROVE  AnnouncedIsSeen' /\ StaleIsBounded'
<1>. USE DEF CacheInv
<1>0. ttl' = ttl BY BodiesStep
<1>1. ASSUME NEW r \in Readers, Len(token[r]) = Len(Scopes), NEW w
      PROVE  ~Below(token[r], Horizon(r), w)
  <2>. SUFFICES ASSUME NEW i \in Indices, token[r][i] < Horizon(r)[i] PROVE FALSE BY DEF Below
  <2>1. token[r] \in [Indices -> Nat] BY <1>1, TokenComplete DEF Shape
  <2>2. Horizon(r)[i] = token[r][i] BY <1>1, Numbers DEF Horizon, Indices
  <2>. QED BY <2>1, <2>2
<1>2. ASSUME ttl = 0, NEW r \in Readers, rpc'[r] = "answered", NEW w \in owed'[r].announced PROVE w \in body'[r]
  <2>1. w \in owed[r].announced BY <1>2, Answers
  <2>2. CASE rpc[r] = "answered" /\ body'[r] = body[r] BY <1>2, <2>1, <2>2 DEF AnnouncedIsSeen
  <2>3. ASSUME rpc[r] = "versions", Len(token[r]) = Len(Scopes),
               NEW b \in bodies, b.token = token[r], b.body \subseteq body'[r]
        PROVE  w \in body'[r]
    <3>1. Covered(Horizon(r), w) BY <1>2, <2>1, <2>3 DEF AnnouncedInv, Reading
    <3>. QED BY <1>1, <2>3, <3>1 DEF Covered
  <2>4. CASE rpc[r] = "store" /\ body'[r] = body[r]
    <3>1. Covered(Horizon(r), w) BY <1>2, <2>1, <2>4 DEF AnnouncedInv, Reading
    <3>2. Len(token[r]) = Len(Scopes) BY <2>4 DEF Shape
    <3>3. Saw(r, w) BY <1>1, <2>4, <3>1, <3>2 DEF Covered, Computing
    <3>. QED BY <2>4, <3>3, QueryEnds DEF Saw
  <2>. QED BY <1>2, <2>2, <2>3, <2>4, Answers
<1>3. ASSUME NEW r \in Readers, rpc'[r] = "answered", NEW w \in owed'[r].overdue PROVE w \in body'[r]
  <2>1. w \in owed[r].overdue BY <1>3, Answers
  <2>2. w \in committed /\ since[w] = Overdue BY <2>1 DEF StaleInv, Shape
  <2>3. CASE rpc[r] = "answered" /\ body'[r] = body[r] BY <2>1, <2>3 DEF StaleIsBounded
  <2>4. ASSUME NEW b \in bodies, b.body \subseteq body'[r] PROVE w \in body'[r]
    <3>1. b.life \in 1..BodyTtl BY DEF CacheOK
    <3>2. Overdue > BodyTtl - b.life + MaxRequest BY <3>1, Numbers
    <3>. QED BY <2>2, <2>4, <3>2 DEF StaleInv
  <2>5. CASE rpc[r] = "store" /\ body'[r] = body[r]
    <3>1. spent[r] \in 0..MaxRequest BY DEF Shape
    <3>2. Overdue > spent[r] BY <3>1, Numbers
    <3>3. Saw(r, w) BY <2>2, <2>5, <3>2 DEF StaleInv, Computing
    <3>. QED BY <2>5, <3>3, QueryEnds DEF Saw
  <2>. QED BY <1>3, <2>3, <2>4, <2>5, Answers
<1>4. AnnouncedIsSeen' BY <1>0, <1>2 DEF AnnouncedIsSeen
<1>5. StaleIsBounded' BY <1>3 DEF StaleIsBounded
<1>. QED BY <1>4, <1>5

\* The invariant is inductive.
LEMMA CacheInvStep == CacheInv /\ [CacheNext]_cacheVars => CacheInv'
<1>. SUFFICES ASSUME CacheInv, [CacheNext]_cacheVars PROVE CacheInv' OBVIOUS
<1>1. CacheOK' /\ Shape' BY TypesStep DEF CacheInv
<1>2. StaleInv' BY StaleTick, StaleOther
<1>. QED BY <1>1, <1>2, VersionsStep, AnnouncedStep, AnswersStep DEF CacheInv

\* Once a change is committed and its scope bumped, no request that begins afterwards
\* answers without it (core/cache.py on Redis), however readers, writers and lost
\* bumps interleave.
THEOREM AnnouncedAlwaysSeen == CacheSpec => []AnnouncedIsSeen
<1>1. CacheInv => AnnouncedIsSeen BY DEF CacheInv
<1>. QED BY Initially, CacheInvStep, <1>1, PTL DEF CacheSpec

\* One body per combination of versions, and no request that begins a body's life and
\* one request after a commit misses the change: on either backend, whatever bumps
\* are lost.
THEOREM CacheIsSound == CacheSpec => []CacheSound
<1>1. CacheInv => CacheSound BY DEF CacheInv, CacheSound
<1>. QED BY Initially, CacheInvStep, <1>1, PTL DEF CacheSpec
=============================================================================
