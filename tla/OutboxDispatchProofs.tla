------------------------ MODULE OutboxDispatchProofs ------------------------
(***************************************************************************)
(* Proofs about OutboxDispatch, for any number of events, endpoints,       *)
(* workers, attempts and crashes and every batch size, and about           *)
(* WebhookDelivery, which POSTs the deliveries it makes, for any number of *)
(* those too, all answers and any number of retries a customer asks for.   *)
(***************************************************************************)
EXTENDS OutboxDispatch, WebhookDelivery, WellFoundedInduction, TLAPS

----------------------------------------------------------------------------
(* The inductive invariant                                                 *)

Settled(e) == status[e] \in {"published", "purged"}

\* The locks of an open batch are on pending rows, no row is locked twice, and
\* only an open batch has any.
LocksInv ==
    /\ \A w \in Workers :
          /\ pc[w] \in {"idle", "consume"} => Locked(w) = {}
          /\ pc[w] = "flush" => todo[w] # {}
          /\ done[w] \cap (todo[w] \cup failed[w]) = {} /\ todo[w] \cap failed[w] = {}
          /\ \A e \in Locked(w) : status[e] = "pending"
    /\ \A v, w \in Workers : v # w => Locked(v) \cap Locked(w) = {}

\* The endpoints event e has to reach.
Due(e) == {ep \in owed[e] \cap live : e \in Wants[ep] /\ e \notin Internal}

\* What the fan-out query returned, and what the batch has inserted, misses no
\* endpoint, reaches no endpoint with an internal event, and names no deleted one.
RowsInv ==
    \A w \in Workers :
       /\ rows[w] \subseteq done[w] \X live
       /\ \A p \in rows[w] : p[1] \notin Internal
       /\ \A e \in done[w] : \A ep \in Due(e) : <<e, ep>> \in rows[w]
       /\ pc[w] = "flush" => /\ Due(Current(w)) \subseteq targets[w]
                             /\ Current(w) \in Internal => targets[w] = {}

\* An endpoint that was never created is owed nothing.
OwedInv ==
    /\ live \cap unused = {}
    /\ \A e \in Events : owed[e] \cap unused = {}

\* An event that is not published has no deliveries and attempts left.
QueueInv ==
    \A e \in Events :
        /\ ~Settled(e) => /\ consumed[e] = 0
                          /\ \A ep \in Endpoints : fanned[<<e, ep>>] = 0
        /\ status[e] = "pending" => attempts[e] < MaxAttempts
        /\ status[e] = "none" => attempts[e] = 0

\* An event waits for the consumers in one process only, after it was published and
\* before any of them saw it.
MailInv ==
    /\ \A w \in Workers : \A e \in mail[w] : Settled(e) /\ consumed[e] = 0
    /\ \A v, w \in Workers : v # w => mail[v] \cap mail[w] = {}

IInv == FanOutExact /\ ConsumersAtMostOnce /\ LocksInv /\ RowsInv /\ OwedInv /\ QueueInv /\ MailInv

----------------------------------------------------------------------------
(* Facts about the operators                                               *)

\* A nonempty set of numbers has a least element.
LEMMA LeastElement ==
    ASSUME NEW S \in SUBSET Nat, S # {}
    PROVE  \E x \in S : \A y \in S : x <= y
<1>1. PICK x \in S : \A y \in S : ~(<<y, x>> \in OpToRel(<, Nat))
  BY WFMin, NatLessThanWellFounded, Zenon
<1>2. \A y \in S : ~(y < x)
  BY <1>1 DEF OpToRel
<1> QED
  BY <1>2

\* The event a batch works on is one of those it has still to process.
LEMMA CurrentInTodo ==
    ASSUME NEW w \in Workers, todo[w] \subseteq Events, todo[w] # {}
    PROVE  Current(w) \in todo[w]
<1>1. \E e \in todo[w] : \A f \in todo[w] : e <= f
  BY LeastElement DEF Events
<1> QED
  BY <1>1, Zenon DEF Current

----------------------------------------------------------------------------
(* The invariant holds initially and every step keeps it                   *)

LEMMA InitInv == Init => IInv
<1> SUFFICES ASSUME Init PROVE IInv
  OBVIOUS
<1> USE DEF Init
<1>1. TypeOK
  BY BoundAssumption, EventAssumption DEF TypeOK, Pairs
<1>2. FanOutExact /\ ConsumersAtMostOnce
  BY <1>1, EventAssumption DEF FanOutExact, ConsumersAtMostOnce, FanOutOnce, InternalStaysInside,
         PublishedReachesAll, Pairs
<1>3. LocksInv /\ RowsInv /\ OwedInv /\ MailInv
  BY DEF LocksInv, RowsInv, OwedInv, MailInv, Locked, Settled, Due
<1>4. QueueInv
  BY BoundAssumption DEF QueueInv, Settled, Pairs
<1> QED
  BY <1>2, <1>3, <1>4 DEF IInv

LEMMA TypeStep == ASSUME IInv, Next PROVE TypeOK'
<1>0. TypeOK /\ LocksInv /\ QueueInv
  BY DEF IInv, FanOutExact
<1> USE BoundAssumption DEF TypeOK, tables, batch
<1>1. ASSUME NEW e \in Events, Append(e) \/ BackoffElapses(e) \/ Purge(e)
      PROVE  TypeOK'
  BY <1>0, <1>1 DEF Append, BackoffElapses, Purge
<1>2. ASSUME NEW ep \in Endpoints, CreateEndpoint(ep) \/ DeleteEndpoint(ep)
      PROVE  TypeOK'
  BY <1>0, <1>2 DEF CreateEndpoint, DeleteEndpoint
<1>3. ASSUME NEW w \in Workers, Dispatch(w) \/ Crash(w)
      PROVE  TypeOK'
  <2>1. CASE Claim(w)
    <3>1. First(FreeEvents(w), Batch) \subseteq Events
      BY DEF First, FreeEvents, Claimable
    <3> QED
      BY <1>0, <2>1, <3>1 DEF Claim
  <2>2. CASE Select(w)
    <3>1. Recipients(Current(w)) \subseteq Endpoints
      BY <1>0 DEF Recipients
    <3> QED
      BY <1>0, <2>2, <3>1 DEF Select
  <2>3. CASE Flush(w)
    <3>1. Current(w) \in Events
      BY <1>0, <2>3, CurrentInTodo DEF Flush, LocksInv
    <3>2. {Current(w)} \X targets[w] \subseteq Pairs
      BY <1>0, <3>1 DEF Pairs
    <3> QED
      BY <1>0, <2>3, <3>1, <3>2 DEF Flush
  <2>4. CASE Commit(w)
    <3>1. \A e \in Events : Tried(w, e) \in 0..MaxAttempts
      BY <1>0 DEF Tried, LocksInv, Locked, QueueInv
    <3>2. attempts' \in [Events -> 0..MaxAttempts]
      BY <2>4, <3>1 DEF Commit
    <3>3. due' \in [Events -> BOOLEAN]
      BY <2>4, Zenon DEF Commit
    <3>4. fanned' \in [Pairs -> Nat]
      BY <1>0, <2>4 DEF Commit
    <3>5. status' \in [Events -> {"none", "pending", "published", "dead", "purged"}]
      BY <1>0, <2>4 DEF Commit, Fate
    <3> QED
      BY <1>0, <2>4, <3>2, <3>3, <3>4, <3>5 DEF Commit
  <2>5. CASE Consume(w)
    BY <1>0, <2>5 DEF Consume
  <2>6. CASE Finish(w)
    BY <1>0, <2>6 DEF Finish
  <2>7. CASE Crash(w)
    BY <1>0, <2>7 DEF Crash
  <2> QED
    BY <1>3, <2>1, <2>2, <2>3, <2>4, <2>5, <2>6, <2>7 DEF Dispatch
<1> QED
  BY <1>1, <1>2, <1>3 DEF Next

\* Every step keeps the locks of the batches apart.
LEMMA LocksStep == ASSUME IInv, Next PROVE LocksInv'
<1>0. TypeOK /\ LocksInv
  BY DEF IInv, FanOutExact
<1> USE DEF LocksInv, Locked, TypeOK, tables, batch
<1>1. ASSUME NEW e \in Events, Append(e) \/ BackoffElapses(e)
      PROVE  LocksInv'
  BY <1>0, <1>1 DEF Append, BackoffElapses
<1>2. ASSUME NEW e \in Events, Purge(e)
      PROVE  LocksInv'
  BY <1>0, <1>2 DEF Purge
<1>3. ASSUME NEW ep \in Endpoints, CreateEndpoint(ep) \/ DeleteEndpoint(ep)
      PROVE  LocksInv'
  BY <1>0, <1>3 DEF CreateEndpoint, DeleteEndpoint
<1>4. ASSUME NEW w \in Workers, Dispatch(w) \/ Crash(w)
      PROVE  LocksInv'
  <2>1. CASE Claim(w)
    <3>1. \A e \in First(FreeEvents(w), Batch) :
             status[e] = "pending" /\ \A v \in Workers \ {w} : e \notin Locked(v)
      BY DEF First, FreeEvents, Claimable
    <3> QED
      BY <1>0, <2>1, <3>1 DEF Claim
  <2>2. CASE Select(w)
    BY <1>0, <2>2 DEF Select
  <2>3. CASE Flush(w)
    <3>1. Current(w) \in todo[w]
      BY <1>0, <2>3, CurrentInTodo DEF Flush
    <3> QED
      BY <1>0, <2>3, <3>1 DEF Flush
  <2>4. CASE Commit(w)
    BY <1>0, <2>4 DEF Commit
  <2>5. CASE Consume(w)
    BY <1>0, <2>5 DEF Consume
  <2>6. CASE Finish(w)
    BY <1>0, <2>6 DEF Finish
  <2>7. CASE Crash(w)
    BY <1>0, <2>7 DEF Crash
  <2> QED
    BY <1>4, <2>1, <2>2, <2>3, <2>4, <2>5, <2>6, <2>7 DEF Dispatch
<1> QED
  BY <1>1, <1>2, <1>3, <1>4 DEF Next

\* Every step keeps the pending deliveries of a batch complete.
LEMMA RowsStep == ASSUME IInv, Next PROVE RowsInv'
<1>0. TypeOK /\ LocksInv /\ RowsInv /\ OwedInv
  BY DEF IInv, FanOutExact
<1> USE DEF TypeOK, tables, batch
<1>1. ASSUME UNCHANGED <<live, owed, pc, todo, targets, done, rows>>
      PROVE  RowsInv'
  BY <1>0, <1>1 DEF RowsInv, Due, Current
<1>2. ASSUME NEW e \in Events, Append(e)
      PROVE  RowsInv'
  <2>1. \A w \in Workers : e \notin Locked(w)
    BY <1>0, <1>2 DEF Append, LocksInv
  <2>2. \A w \in Workers : pc[w] = "flush" => Current(w) \in todo[w]
    BY <1>0, CurrentInTodo DEF LocksInv
  <2>3. \A f \in Events \ {e} : Due(f)' = Due(f)
    BY <1>0, <1>2 DEF Append, Due
  <2>4. \A w \in Workers : Current(w)' = Current(w)
    BY <1>2 DEF Append, Current
  <2> QED
    BY <1>0, <1>2, <2>1, <2>2, <2>3, <2>4 DEF Append, RowsInv, Locked
<1>3. ASSUME NEW ep \in Endpoints, CreateEndpoint(ep)
      PROVE  RowsInv'
  <2>1. \A e \in Events : Due(e)' = Due(e)
    BY <1>0, <1>3 DEF CreateEndpoint, Due, OwedInv
  <2>2. \A w \in Workers : pc[w] = "flush" => Current(w) \in Events
    BY <1>0, CurrentInTodo DEF LocksInv
  <2>3. \A w \in Workers : Current(w)' = Current(w)
    BY <1>3 DEF CreateEndpoint, Current
  <2> QED
    BY <1>0, <1>3, <2>1, <2>2, <2>3 DEF CreateEndpoint, RowsInv
<1>4. ASSUME NEW ep \in Endpoints, DeleteEndpoint(ep)
      PROVE  RowsInv'
  <2>1. \A e \in Events : Due(e)' \subseteq Due(e)
    BY <1>0, <1>4 DEF DeleteEndpoint, Due
  <2>2. \A w \in Workers : pc[w] = "flush" => Current(w) \in Events
    BY <1>0, CurrentInTodo DEF LocksInv
  <2>3. \A w \in Workers : rows[w] \subseteq done[w] \X (live \ {ep})
    BY <1>0, <1>4 DEF DeleteEndpoint, RowsInv
  <2>4. \A w \in Workers : Current(w)' = Current(w)
    BY <1>4 DEF DeleteEndpoint, Current
  <2> QED
    BY <1>0, <1>4, <2>1, <2>2, <2>3, <2>4 DEF DeleteEndpoint, RowsInv
<1>5. ASSUME NEW w \in Workers, Dispatch(w) \/ Crash(w)
      PROVE  RowsInv'
  <2>0. /\ UNCHANGED <<live, owed>>
        /\ \A e : Due(e)' = Due(e)
    BY <1>5 DEF Dispatch, Claim, Select, Flush, Commit, Consume, Finish, Crash, Due
  <2>1. CASE Claim(w)
    BY <1>0, <2>0, <2>1 DEF Claim, RowsInv, Current
  <2>2. CASE Select(w)
    <3>1. /\ Due(Current(w)) \subseteq Recipients(Current(w))
          /\ Current(w) \in Internal => Recipients(Current(w)) = {}
      BY DEF Due, Recipients
    <3> QED
      BY <1>0, <2>0, <2>2, <3>1 DEF Select, RowsInv, Current
  <2>3. CASE Flush(w)
    <3> DEFINE e == Current(w)
    <3>1. e \in todo[w]
      BY <1>0, <2>3, CurrentInTodo DEF Flush, LocksInv
    <3>2. /\ Due(e) \subseteq targets[w]
          /\ e \in Internal => targets[w] = {}
      BY <1>0, <2>3 DEF Flush, RowsInv
    <3>3. \A v \in Workers \ {w} : Current(v)' = Current(v)
      BY <1>0, <2>3 DEF Flush, Current
    <3>4. CASE Flushes(w)
      <4>1. targets[w] \subseteq live
        BY <3>4 DEF Flushes
      <4> HIDE DEF e
      <4>2. /\ rows' = [rows EXCEPT ![w] = @ \cup ({e} \X targets[w])]
            /\ done' = [done EXCEPT ![w] = @ \cup {e}]
            /\ pc' = [pc EXCEPT ![w] = "select"] /\ UNCHANGED targets
        BY <2>3, <3>4 DEF Flush, e
      <4> QED
        BY <1>0, <2>0, <3>1, <3>2, <3>3, <4>1, <4>2 DEF RowsInv
    <3>5. CASE ~Flushes(w)
      BY <1>0, <2>0, <2>3, <3>3, <3>5 DEF Flush, RowsInv
    <3> QED
      BY <3>4, <3>5
  <2>4. CASE Commit(w)
    BY <1>0, <2>0, <2>4 DEF Commit, RowsInv, Current
  <2>5. CASE Consume(w)
    BY <1>1, <2>5 DEF Consume
  <2>6. CASE Finish(w)
    BY <1>0, <2>0, <2>6 DEF Finish, RowsInv, Current
  <2>7. CASE Crash(w)
    BY <1>0, <2>0, <2>7 DEF Crash, RowsInv, Current
  <2> QED
    BY <1>5, <2>1, <2>2, <2>3, <2>4, <2>5, <2>6, <2>7 DEF Dispatch
<1> QED
  BY <1>1, <1>2, <1>3, <1>4, <1>5 DEF Next, BackoffElapses, Purge

\* Endpoints are created once.
LEMMA OwedStep == ASSUME IInv, Next PROVE OwedInv'
<1>0. TypeOK /\ OwedInv
  BY DEF IInv, FanOutExact
<1> USE DEF OwedInv, TypeOK, tables, batch
<1>1. ASSUME NEW e \in Events, Append(e) \/ BackoffElapses(e) \/ Purge(e)
      PROVE  OwedInv'
  BY <1>0, <1>1 DEF Append, BackoffElapses, Purge
<1>2. ASSUME NEW ep \in Endpoints, CreateEndpoint(ep) \/ DeleteEndpoint(ep)
      PROVE  OwedInv'
  BY <1>0, <1>2 DEF CreateEndpoint, DeleteEndpoint
<1>3. ASSUME NEW w \in Workers, Dispatch(w) \/ Crash(w)
      PROVE  OwedInv'
  BY <1>0, <1>3 DEF Dispatch, Claim, Select, Flush, Commit, Consume, Finish, Crash
<1> QED
  BY <1>1, <1>2, <1>3 DEF Next

\* Deliveries, attempts and consumers keep pace with the status of an event.
LEMMA QueueStep == ASSUME IInv, Next PROVE QueueInv'
<1>0. TypeOK /\ LocksInv /\ RowsInv /\ QueueInv /\ MailInv
  BY DEF IInv, FanOutExact
<1> USE DEF QueueInv, TypeOK, Settled, tables, batch
<1>1. ASSUME NEW e \in Events, Append(e) \/ BackoffElapses(e) \/ Purge(e)
      PROVE  QueueInv'
  BY <1>0, <1>1, BoundAssumption DEF Append, BackoffElapses, Purge
<1>2. ASSUME NEW ep \in Endpoints, CreateEndpoint(ep) \/ DeleteEndpoint(ep)
      PROVE  QueueInv'
  BY <1>0, <1>2 DEF CreateEndpoint, DeleteEndpoint, Pairs
<1>3. ASSUME NEW w \in Workers, Dispatch(w) \/ Crash(w)
      PROVE  QueueInv'
  <2>1. CASE Claim(w) \/ Select(w) \/ Flush(w) \/ Finish(w) \/ Crash(w)
    BY <1>0, <2>1 DEF Claim, Select, Flush, Finish, Crash
  <2>2. CASE Commit(w)
    <3> SUFFICES ASSUME NEW e \in Events
                 PROVE  /\ ~Settled(e)' => /\ consumed'[e] = 0
                                           /\ \A ep \in Endpoints : fanned'[<<e, ep>>] = 0
                        /\ status'[e] = "pending" => attempts'[e] < MaxAttempts
                        /\ status'[e] = "none" => attempts'[e] = 0
      BY DEF QueueInv
    <3>1. /\ consumed'[e] = consumed[e]
          /\ attempts'[e] = Tried(w, e)
          /\ status'[e] = IF e \in done[w] THEN "published"
                          ELSE IF e \in failed[w] THEN Fate(Tried(w, e)) ELSE status[e]
          /\ \A ep \in Endpoints :
                fanned'[<<e, ep>>] = fanned[<<e, ep>>] + IF <<e, ep>> \in rows[w] THEN 1 ELSE 0
      BY <2>2 DEF Commit, Pairs
    <3>2. \A ep : <<e, ep>> \in rows[w] => e \in done[w]
      BY <1>0 DEF RowsInv
    <3>3. e \in done[w] \cup failed[w] => status[e] = "pending"
      BY <1>0 DEF LocksInv, Locked
    <3>4. ~Settled(e)' => ~Settled(e) /\ e \notin done[w]
      BY <3>1, <3>3
    <3>5. ~Settled(e)' => consumed'[e] = 0
      BY <1>0, <3>1, <3>4
    <3>6. ~Settled(e)' => \A ep \in Endpoints : fanned'[<<e, ep>>] = 0
      BY <1>0, <3>1, <3>2, <3>4
    <3>7. status'[e] = "pending" => attempts'[e] < MaxAttempts
      BY <1>0, <3>1, BoundAssumption DEF Fate, Tried
    <3>8. status'[e] = "none" => attempts'[e] = 0
      BY <1>0, <3>1 DEF Fate, Tried
    <3> QED
      BY <3>5, <3>6, <3>7, <3>8
  <2>3. CASE Consume(w)
    BY <1>0, <2>3 DEF Consume, MailInv
  <2> QED
    BY <1>3, <2>1, <2>2, <2>3 DEF Dispatch
<1> QED
  BY <1>1, <1>2, <1>3 DEF Next

\* An event is handed to the consumers of one process, once.
LEMMA MailStep == ASSUME IInv, Next PROVE MailInv' /\ ConsumersAtMostOnce'
<1>0. TypeOK /\ LocksInv /\ QueueInv /\ MailInv /\ ConsumersAtMostOnce
  BY DEF IInv, FanOutExact
<1> USE DEF MailInv, ConsumersAtMostOnce, TypeOK, Settled, tables, batch
<1>1. ASSUME NEW e \in Events, Append(e) \/ BackoffElapses(e) \/ Purge(e)
      PROVE  MailInv' /\ ConsumersAtMostOnce'
  BY <1>0, <1>1 DEF Append, BackoffElapses, Purge
<1>2. ASSUME NEW ep \in Endpoints, CreateEndpoint(ep) \/ DeleteEndpoint(ep)
      PROVE  MailInv' /\ ConsumersAtMostOnce'
  BY <1>0, <1>2 DEF CreateEndpoint, DeleteEndpoint
<1>3. ASSUME NEW w \in Workers, Dispatch(w) \/ Crash(w)
      PROVE  MailInv' /\ ConsumersAtMostOnce'
  <2>1. CASE Claim(w) \/ Select(w) \/ Flush(w) \/ Finish(w) \/ Crash(w)
    BY <1>0, <2>1 DEF Claim, Select, Flush, Finish, Crash
  <2>2. CASE Commit(w)
    <3>1. \A e \in done[w] : status[e] = "pending" /\ consumed[e] = 0
      BY <1>0 DEF LocksInv, Locked, QueueInv
    <3>2. \A e \in Events : Settled(e) => Settled(e)'
      BY <1>0, <2>2 DEF Commit, LocksInv, Locked
    <3>3. \A e \in done[w] : Settled(e)'
      BY <1>0, <2>2 DEF Commit
    <3>4. UNCHANGED consumed /\ mail' = [mail EXCEPT ![w] = done[w]]
      BY <2>2 DEF Commit
    <3> QED
      BY <1>0, <3>1, <3>2, <3>3, <3>4
  <2>3. CASE Consume(w)
    BY <1>0, <2>3 DEF Consume
  <2> QED
    BY <1>3, <2>1, <2>2, <2>3 DEF Dispatch
<1> QED
  BY <1>1, <1>2, <1>3 DEF Next

\* Every step keeps the committed deliveries exact.
LEMMA ExactStep == ASSUME IInv, Next PROVE FanOutExact'
<1>0. /\ TypeOK /\ FanOutOnce /\ InternalStaysInside /\ PublishedReachesAll
      /\ LocksInv /\ RowsInv /\ OwedInv /\ QueueInv
  BY DEF IInv, FanOutExact
<1> DEFINE Exact == FanOutOnce /\ InternalStaysInside /\ PublishedReachesAll
<1> SUFFICES Exact'
  BY TypeStep DEF FanOutExact
<1> USE DEF TypeOK, tables, batch, FanOutOnce, InternalStaysInside, PublishedReachesAll, Pairs
<1>1. ASSUME NEW e \in Events, Append(e) \/ BackoffElapses(e) \/ Purge(e)
      PROVE  Exact'
  BY <1>0, <1>1 DEF Append, BackoffElapses, Purge
<1>2. ASSUME NEW ep \in Endpoints, CreateEndpoint(ep)
      PROVE  Exact'
  BY <1>0, <1>2 DEF CreateEndpoint, OwedInv
<1>3. ASSUME NEW ep \in Endpoints, DeleteEndpoint(ep)
      PROVE  Exact'
  BY <1>0, <1>3, EventAssumption DEF DeleteEndpoint
<1>4. ASSUME NEW w \in Workers, Dispatch(w) \/ Crash(w)
      PROVE  Exact'
  <2>1. CASE Claim(w) \/ Select(w) \/ Flush(w) \/ Consume(w) \/ Finish(w) \/ Crash(w)
    BY <1>0, <2>1 DEF Claim, Select, Flush, Consume, Finish, Crash
  <2>2. CASE Commit(w)
    <3>1. \A e \in Events, ep \in Endpoints :
             fanned'[<<e, ep>>] = fanned[<<e, ep>>] + IF <<e, ep>> \in rows[w] THEN 1 ELSE 0
      BY <2>2 DEF Commit
    <3>2. \A e \in Events, ep \in Endpoints : <<e, ep>> \in rows[w] =>
             e \in done[w] /\ e \notin Internal /\ fanned[<<e, ep>>] = 0
      <4> SUFFICES ASSUME NEW e \in Events, NEW ep \in Endpoints, <<e, ep>> \in rows[w]
                   PROVE  e \in done[w] /\ e \notin Internal /\ fanned[<<e, ep>>] = 0
        OBVIOUS
      <4>1. e \in done[w] /\ <<e, ep>>[1] \notin Internal
        BY <1>0 DEF RowsInv
      <4>2. status[e] = "pending"
        BY <1>0, <4>1 DEF LocksInv, Locked
      <4> QED
        BY <1>0, <4>1, <4>2 DEF QueueInv, Settled
    <3>3. FanOutOnce' /\ InternalStaysInside'
      BY <1>0, <3>1, <3>2, EventAssumption
    <3>4. PublishedReachesAll'
      <4> SUFFICES ASSUME NEW e \in Events \ Internal, status'[e] \in {"published", "purged"},
                          NEW ep \in owed[e] \cap live, e \in Wants[ep]
                   PROVE  fanned'[<<e, ep>>] = 1
        BY <2>2 DEF Commit
      <4>1. CASE e \in done[w]
        <5>1. <<e, ep>> \in rows[w]
          BY <1>0, <4>1 DEF RowsInv, Due
        <5> QED
          BY <1>0, <3>1, <3>2, <5>1
      <4>2. CASE e \notin done[w]
        <5>1. status[e] \in {"published", "purged"}
          BY <2>2, <4>2 DEF Commit, Fate
        <5> QED
          BY <1>0, <3>1, <3>2, <4>2, <5>1
      <4> QED
        BY <4>1, <4>2
    <3> QED
      BY <3>3, <3>4
  <2> QED
    BY <1>4, <2>1, <2>2 DEF Dispatch
<1> QED
  BY <1>1, <1>2, <1>3, <1>4 DEF Next

----------------------------------------------------------------------------
LEMMA InvStep == IInv /\ [Next]_vars => IInv'
<1> SUFFICES ASSUME IInv, [Next]_vars PROVE IInv'
  OBVIOUS
<1>1. CASE Next
  BY <1>1, ExactStep, LocksStep, RowsStep, OwedStep, QueueStep, MailStep DEF IInv
<1>2. CASE UNCHANGED vars
  <2> USE <1>2 DEF vars, tables, batch
  <2>1. FanOutExact' /\ ConsumersAtMostOnce'
    BY DEF IInv, FanOutExact, TypeOK, FanOutOnce, InternalStaysInside, PublishedReachesAll,
        ConsumersAtMostOnce
  <2>2. LocksInv' /\ OwedInv' /\ QueueInv' /\ MailInv'
    BY DEF IInv, LocksInv, Locked, OwedInv, QueueInv, MailInv, Settled
  <2>3. RowsInv'
    BY DEF IInv, RowsInv, Due, Current
  <2> QED
    BY <2>1, <2>2, <2>3 DEF IInv
<1> QED
  BY <1>1, <1>2

\* dispatch_outbox, with any number of workers that overlap and die: the fan-out of
\* an event is exact.  No endpoint gets a second delivery of it, none that was
\* there when it was appended, and still is, is left out, and an internal event
\* stays inside.
THEOREM FanOutIsExact == Spec => []FanOutExact
<1>1. IInv => FanOutExact
  BY DEF IInv
<1> QED
  BY InitInv, InvStep, <1>1, PTL DEF Spec

\* The in-process consumers (emails, authorization sync) are called at most once with
\* an event, and only after its publication is durable: a crash between the commit
\* and the call loses the call, it never repeats it.
THEOREM ConsumedAtMostOnce == Spec => []ConsumersAtMostOnce
<1>1. IInv => ConsumersAtMostOnce
  BY DEF IInv
<1> QED
  BY InitInv, InvStep, <1>1, PTL DEF Spec

----------------------------------------------------------------------------
(* The deliveries the fan-out has made.  A row is in the batch of one      *)
(* worker at most, and what is POSTed but not committed is in its lists.   *)

\* The rows a worker holds are pending, and nobody else holds them.
HeldInv ==
    /\ \A w \in Posters : /\ posting[w] = "idle" => HeldRows(w) = {}
                          /\ toPost[w] \cap (ok[w] \cup ko[w]) = {} /\ ok[w] \cap ko[w] = {}
                          /\ \A d \in HeldRows(w) : deliveryStatus[d] = "pending"
                          /\ \A d \in ok[w] : acks[d] >= 1
    /\ \A v, w \in Posters : v # w => HeldRows(v) \cap HeldRows(w) = {}

\* A row that may be tried again has a try left.
TriesInv == \A d \in Deliveries : deliveryStatus[d] # "exhausted" => tries[d] < MaxTries

\* What a retry request has loaded of a row that is not pending is still true.
LoadedInv ==
    retrying # NoRetry /\ loaded.status # "pending"
        => deliveryStatus[retrying] = loaded.status /\ tries[retrying] = loaded.attempts

\* The retries that have committed.
RetriesDone == IF retrying = NoRetry THEN retries ELSE retries - 1

\* Every committed outcome is a counted attempt or the success, in this round or one
\* of those before it.
OutcomesInv ==
    /\ retrying # NoRetry => retries > 0
    /\ \A d \in Deliveries :
          settled[d] <= MaxTries * RetriesDone + tries[d] + IF deliveryStatus[d] = "delivered" THEN 1 ELSE 0

PostsBound == \A d \in Deliveries : posts[d] <= MaxCount

DeliveryInv == /\ DeliveriesOK /\ HeldInv /\ TriesInv /\ LoadedInv /\ OutcomesInv /\ PostsBound
               /\ PostsAccounted /\ DeliveredMeansAcked

\* The histories count, up to their bound.
LEMMA MoreGrows ==
    ASSUME NEW n \in Nat
    PROVE  /\ More(n) \in Nat /\ More(n) >= n /\ More(n) <= n + 1 /\ More(n) >= 1
           /\ n <= MaxCount => More(n) <= MaxCount
           /\ \A k \in Nat : k <= n + 1 /\ k <= MaxCount => k <= More(n)
BY DeliveryBounds DEF More

\* What a step leaves alone of the retries and the outcomes.
LEMMA OutcomesUnchanged ==
    ASSUME DeliveryInv,
           UNCHANGED <<deliveryStatus, tries, settled, retrying, loaded, retries>>
    PROVE  TriesInv' /\ LoadedInv' /\ OutcomesInv'
BY DEF DeliveryInv, TriesInv, LoadedInv, OutcomesInv, RetriesDone

LEMMA ClaimDeliveriesStep ==
    ASSUME DeliveryInv, NEW w \in Posters, ClaimDeliveries(w)
    PROVE  DeliveryInv'
<1>0. DeliveriesOK /\ HeldInv
  BY DEF DeliveryInv
<1>1. /\ posting[w] = "idle" /\ toPost' = [toPost EXCEPT ![w] = Earliest(ClaimableDeliveries(w), DeliveryBatch)]
      /\ posting' = [posting EXCEPT ![w] = "post"]
      /\ UNCHANGED <<deliveryStatus, tries, deliveryDue, ok, ko, retrying, loaded, retries, unreadable,
                     posts, acks, settled, deaths>>
  BY DEF ClaimDeliveries, deliveryRows, retryVars
<1>2. PICK S \in SUBSET ClaimableDeliveries(w) : S = Earliest(ClaimableDeliveries(w), DeliveryBatch)
  BY DEF Earliest
<1>3. S \subseteq Deliveries /\ \A d \in S : deliveryStatus[d] = "pending" /\ \A v \in Posters \ {w} : d \notin HeldRows(v)
  BY <1>2 DEF ClaimableDeliveries
<1>4. /\ toPost'[w] = S /\ posting'[w] = "post" /\ ok[w] = {} /\ ko[w] = {}
      /\ \A v \in Posters \ {w} : toPost'[v] = toPost[v] /\ posting'[v] = posting[v]
  BY <1>0, <1>1, <1>2 DEF DeliveriesOK, HeldInv, HeldRows
<1>5. DeliveriesOK'
  BY <1>0, <1>1, <1>2, <1>3 DEF DeliveriesOK
<1>6. /\ HeldRows(w)' = S /\ \A v \in Posters \ {w} : HeldRows(v)' = HeldRows(v)
  BY <1>1, <1>4 DEF HeldRows
<1>7. HeldInv'
  BY <1>0, <1>1, <1>3, <1>4, <1>6 DEF HeldInv
<1>8. PostsBound' /\ PostsAccounted' /\ DeliveredMeansAcked'
  BY <1>1 DEF DeliveryInv, PostsBound, PostsAccounted, DeliveredMeansAcked, InFlight
<1> QED
  BY <1>1, <1>5, <1>7, <1>8, OutcomesUnchanged DEF DeliveryInv

LEMMA PostStep ==
    ASSUME DeliveryInv, NEW w \in Posters, toPost[w] # {}, Post(w)
    PROVE  DeliveryInv'
<1>0. DeliveriesOK /\ HeldInv
  BY DEF DeliveryInv
<1>1. PICK d \in Deliveries : d = NextDelivery(w) /\ d \in toPost[w]
  <2>1. toPost[w] \in SUBSET Nat /\ toPost[w] # {} /\ toPost[w] \subseteq Deliveries
    BY <1>0 DEF DeliveriesOK, Deliveries
  <2>2. \E e \in toPost[w] : \A f \in toPost[w] : e <= f
    BY <2>1, LeastElement
  <2> QED
    BY <2>1, <2>2 DEF NextDelivery
<1>2. PICK code \in Answers :
        /\ posts' = [posts EXCEPT ![d] = More(@)]
        /\ toPost' = [toPost EXCEPT ![w] = @ \ {d}]
        /\ acks' = IF code \in 200..299 THEN [acks EXCEPT ![d] = More(@)] ELSE acks
        /\ ok' = IF Success(code) THEN [ok EXCEPT ![w] = @ \cup {d}] ELSE ok
        /\ ko' = IF Success(code) THEN ko ELSE [ko EXCEPT ![w] = @ \cup {d}]
  BY <1>1 DEF Post
<1>3. UNCHANGED <<deliveryStatus, tries, deliveryDue, posting, retrying, loaded, retries, unreadable, settled, deaths>>
  BY DEF Post, deliveryRows, retryVars
<1>4. Success(code) <=> code \in 200..299
  BY DeliveryBounds DEF Success
<1>5. /\ posts[d] \in Nat /\ acks[d] \in Nat
      /\ \A e \in Deliveries : posts[e] \in Nat /\ acks[e] \in Nat /\ settled[e] \in Nat
  BY <1>0 DEF DeliveriesOK
<1>6. /\ posts' \in [Deliveries -> Nat] /\ acks' \in [Deliveries -> Nat]
      /\ posts'[d] = More(posts[d]) /\ \A e \in Deliveries \ {d} : posts'[e] = posts[e]
      /\ \A e \in Deliveries : acks'[e] >= acks[e]
      /\ Success(code) => acks'[d] >= 1
  <2>0. posts \in [Deliveries -> Nat] /\ acks \in [Deliveries -> Nat]
    BY <1>0 DEF DeliveriesOK
  <2>1. PICK p \in Nat : p = More(posts[d])
    BY <1>5, MoreGrows
  <2>2. PICK q \in Nat : q = More(acks[d]) /\ q >= acks[d] /\ q >= 1
    BY <1>5, MoreGrows
  <2>3. posts' = [posts EXCEPT ![d] = p]
    BY <1>2, <2>1
  <2>4. CASE code \in 200..299
    <3>1. acks' = [acks EXCEPT ![d] = q]
      BY <1>2, <2>2, <2>4
    <3>2. acks' \in [Deliveries -> Nat] /\ acks'[d] = q
          /\ \A e \in Deliveries \ {d} : acks'[e] = acks[e]
      BY <2>0, <3>1
    <3>3. \A e \in Deliveries : acks'[e] >= acks[e]
      BY <1>5, <2>2, <3>2
    <3> QED
      BY <2>0, <2>1, <2>2, <2>3, <3>2, <3>3
  <2>5. CASE code \notin 200..299
    <3>1. acks' = acks
      BY <1>2, <2>5
    <3> QED
      BY <1>4, <1>5, <2>0, <2>1, <2>3, <2>5, <3>1
  <2> QED
    BY <2>4, <2>5
<1>7. /\ toPost'[w] = toPost[w] \ {d} /\ ok[w] \subseteq ok'[w] /\ ko[w] \subseteq ko'[w]
      /\ ok'[w] \cup ko'[w] = ok[w] \cup ko[w] \cup {d}
      /\ ok'[w] = ok[w] \/ (ok'[w] = ok[w] \cup {d} /\ Success(code) /\ ko'[w] = ko[w])
      /\ \A v \in Posters \ {w} : toPost'[v] = toPost[v] /\ ok'[v] = ok[v] /\ ko'[v] = ko[v]
  BY <1>0, <1>2 DEF DeliveriesOK
<1>8. HeldRows(w)' = HeldRows(w) /\ \A v \in Posters \ {w} : HeldRows(v)' = HeldRows(v)
  BY <1>1, <1>7 DEF HeldRows
<1>9. toPost' \in [Posters -> SUBSET Deliveries] /\ ok' \in [Posters -> SUBSET Deliveries]
      /\ ko' \in [Posters -> SUBSET Deliveries]
  BY <1>0, <1>2 DEF DeliveriesOK
<1>10. DeliveriesOK'
  BY <1>0, <1>3, <1>6, <1>9 DEF DeliveriesOK
<1>11. HeldInv'
  <2>1. ASSUME NEW v \in Posters
        PROVE  /\ posting'[v] = "idle" => HeldRows(v)' = {}
               /\ \A e \in HeldRows(v)' : deliveryStatus'[e] = "pending"
    BY <1>0, <1>3, <1>8 DEF HeldInv
  <2>2. \A v, x \in Posters : v # x => HeldRows(v)' \cap HeldRows(x)' = {}
    BY <1>0, <1>8 DEF HeldInv
  <2>3. d \notin ok[w] /\ d \notin ko[w]
    BY <1>0, <1>1 DEF HeldInv
  <2>4. toPost'[w] \cap (ok'[w] \cup ko'[w]) = {} /\ ok'[w] \cap ko'[w] = {}
    <3>1. toPost[w] \cap (ok[w] \cup ko[w]) = {} /\ ok[w] \cap ko[w] = {}
      BY <1>0 DEF HeldInv
    <3>2. CASE Success(code)
      BY <1>0, <1>2, <2>3, <3>1, <3>2 DEF DeliveriesOK
    <3>3. CASE ~Success(code)
      BY <1>0, <1>2, <2>3, <3>1, <3>3 DEF DeliveriesOK
    <3> QED
      BY <3>2, <3>3
  <2>5. ASSUME NEW v \in Posters, NEW e \in ok'[v] PROVE acks'[e] >= 1
    <3>1. e \in Deliveries
      BY <1>9
    <3>2. CASE e \in ok[v]
      <4>1. acks[e] >= 1 /\ acks'[e] \in Nat /\ acks[e] \in Nat /\ acks'[e] >= acks[e]
        BY <1>0, <1>5, <1>6, <3>1, <3>2 DEF HeldInv
      <4> QED
        BY <4>1
    <3>3. CASE e \notin ok[v]
      BY <1>6, <1>7, <2>5, <3>3
    <3> QED
      BY <3>2, <3>3
  <2>6. \A v \in Posters : toPost'[v] \cap (ok'[v] \cup ko'[v]) = {} /\ ok'[v] \cap ko'[v] = {}
    BY <1>0, <1>7, <2>4 DEF HeldInv
  <2> QED
    BY <2>1, <2>2, <2>5, <2>6 DEF HeldInv
<1>12. DeliveredMeansAcked'
  <2>1. ASSUME NEW e \in Deliveries, deliveryStatus[e] = "delivered" PROVE acks'[e] >= 1
    <3>1. acks[e] >= 1 /\ acks[e] \in Nat /\ acks'[e] \in Nat /\ acks'[e] >= acks[e]
      BY <1>5, <1>6, <2>1 DEF DeliveryInv, DeliveredMeansAcked
    <3> QED
      BY <3>1
  <2> QED
    BY <1>3, <2>1 DEF DeliveredMeansAcked
<1>13. PostsBound'
  BY <1>5, <1>6, MoreGrows DEF DeliveryInv, PostsBound
<1>14. PostsAccounted'
  <2>1. ~InFlight(d) /\ InFlight(d)'
    BY <1>0, <1>1, <1>7 DEF InFlight, HeldInv, HeldRows
  <2>2. \A e \in Deliveries \ {d} : InFlight(e)' <=> InFlight(e)
    BY <1>7 DEF InFlight
  <2>3. ASSUME unreadable = {}, NEW e \in Deliveries
        PROVE  posts'[e] <= settled[e] + deaths + IF InFlight(e)' THEN 1 ELSE 0
    <3>1. posts[e] <= settled[e] + deaths + IF InFlight(e) THEN 1 ELSE 0
      BY <2>3 DEF DeliveryInv, PostsAccounted
    <3>2. deaths \in Nat /\ settled[e] \in Nat /\ posts[e] \in Nat /\ posts[d] \in Nat
      BY <1>0, <1>5, DeliveryBounds DEF DeliveriesOK
    <3>3. CASE e = d
      <4>1. posts'[d] \in Nat /\ posts'[d] <= posts[d] + 1
        BY <1>6, <3>2, MoreGrows
      <4> QED
        BY <2>1, <3>1, <3>2, <3>3, <4>1
    <3>4. CASE e # d
      BY <1>6, <2>2, <3>1, <3>4
    <3> QED
      BY <3>3, <3>4
  <2> QED
    BY <1>3, <2>3 DEF PostsAccounted
<1> QED
  BY <1>3, <1>10, <1>11, <1>12, <1>13, <1>14, OutcomesUnchanged DEF DeliveryInv

\* A batch that is given up leaves no trace in the rows; its POSTs have been sent.
LEMMA AbandonStep ==
    ASSUME DeliveryInv, NEW w \in Posters, Abandon(w),
           \/ deaths' = deaths + 1 /\ deaths < MaxDeaths
           \/ deaths' = deaths /\ unreadable # {}
    PROVE  DeliveryInv'
<1>0. DeliveriesOK /\ HeldInv
  BY DEF DeliveryInv
<1>1. /\ posting' = [posting EXCEPT ![w] = "idle"] /\ toPost' = [toPost EXCEPT ![w] = {}]
      /\ ok' = [ok EXCEPT ![w] = {}] /\ ko' = [ko EXCEPT ![w] = {}]
      /\ UNCHANGED <<deliveryStatus, tries, deliveryDue, retrying, loaded, retries, unreadable, posts, acks, settled>>
  BY DEF Abandon, deliveryRows, retryVars
<1>2. deaths \in Nat /\ deaths' \in 0..MaxDeaths
  BY <1>0, DeliveryBounds DEF DeliveriesOK
<1>3. /\ toPost'[w] = {} /\ ok'[w] = {} /\ ko'[w] = {}
      /\ \A v \in Posters \ {w} : /\ toPost'[v] = toPost[v] /\ ok'[v] = ok[v] /\ ko'[v] = ko[v]
                                  /\ posting'[v] = posting[v]
  BY <1>0, <1>1 DEF DeliveriesOK
<1>4. DeliveriesOK'
  BY <1>0, <1>1, <1>2 DEF DeliveriesOK
<1>5. HeldRows(w)' = {} /\ \A v \in Posters \ {w} : HeldRows(v)' = HeldRows(v)
  BY <1>3 DEF HeldRows
<1>6. HeldInv'
  BY <1>0, <1>1, <1>3, <1>5 DEF HeldInv
<1>7. PostsAccounted'
  <2>1. ASSUME unreadable = {}, NEW d \in Deliveries
        PROVE  posts[d] <= settled[d] + deaths' + IF InFlight(d)' THEN 1 ELSE 0
    <3>1. posts[d] <= settled[d] + deaths + IF InFlight(d) THEN 1 ELSE 0
      BY <2>1 DEF DeliveryInv, PostsAccounted
    <3>2. settled[d] \in Nat /\ posts[d] \in Nat /\ deaths' = deaths + 1
      BY <1>0, <2>1 DEF DeliveriesOK
    <3> QED
      BY <1>2, <3>1, <3>2
  <2> QED
    BY <1>1, <2>1 DEF PostsAccounted
<1>8. PostsBound' /\ DeliveredMeansAcked'
  BY <1>1 DEF DeliveryInv, PostsBound, DeliveredMeansAcked
<1> QED
  BY <1>1, <1>4, <1>6, <1>7, <1>8, OutcomesUnchanged DEF DeliveryInv

LEMMA CommitBatchStep ==
    ASSUME DeliveryInv, NEW w \in Posters, CommitBatch(w)
    PROVE  DeliveryInv'
<1>0. DeliveriesOK /\ HeldInv /\ TriesInv /\ LoadedInv /\ OutcomesInv
  BY DEF DeliveryInv
<1>1. /\ posting' = [posting EXCEPT ![w] = "idle"] /\ toPost[w] = {}
      /\ ok' = [ok EXCEPT ![w] = {}] /\ ko' = [ko EXCEPT ![w] = {}]
      /\ UNCHANGED <<toPost, retrying, loaded, retries, unreadable, posts, acks, deaths>>
  BY DEF CommitBatch, retryVars
<1>2. /\ ok'[w] = {} /\ ko'[w] = {} /\ posting'[w] = "idle"
      /\ \A v \in Posters \ {w} : ok'[v] = ok[v] /\ ko'[v] = ko[v] /\ posting'[v] = posting[v]
  BY <1>0, <1>1 DEF DeliveriesOK
<1>3. ok[w] \subseteq Deliveries /\ ko[w] \subseteq Deliveries /\ ok[w] \cap ko[w] = {}
  BY <1>0 DEF DeliveriesOK, HeldInv
<1>4. \A d \in Deliveries : tries[d] \in Nat /\ settled[d] \in Nat /\ posts[d] \in Nat /\ tries[d] <= MaxTries
  BY <1>0, DeliveryBounds DEF DeliveriesOK
\* A row of the batch has its outcome, another one stays as it is.
<1>5. ASSUME NEW d \in Deliveries, d \in ok[w]
      PROVE  /\ deliveryStatus[d] = "pending" /\ tries[d] < MaxTries /\ acks[d] >= 1
             /\ deliveryStatus'[d] = "delivered" /\ tries'[d] = tries[d] /\ settled'[d] = More(settled[d])
  <2>1. d \notin ko[w] /\ deliveryStatus[d] = "pending" /\ acks[d] >= 1
    BY <1>0, <1>3, <1>5 DEF HeldInv, HeldRows
  <2> QED
    BY <1>0, <1>4, <1>5, <2>1 DEF CommitBatch, TriesAfter, TriesInv
<1>6. ASSUME NEW d \in Deliveries, d \in ko[w]
      PROVE  /\ deliveryStatus[d] = "pending" /\ tries[d] < MaxTries
             /\ tries'[d] = tries[d] + 1 /\ settled'[d] = More(settled[d])
             /\ deliveryStatus'[d] = IF tries[d] + 1 >= MaxTries THEN "exhausted" ELSE "pending"
  <2>1. d \notin ok[w] /\ deliveryStatus[d] = "pending"
    BY <1>0, <1>3, <1>6 DEF HeldInv, HeldRows
  <2> QED
    BY <1>0, <1>4, <1>6, <2>1 DEF CommitBatch, TriesAfter, TriesInv, AfterFailure
<1>7. ASSUME NEW d \in Deliveries, d \notin ok[w], d \notin ko[w]
      PROVE  deliveryStatus'[d] = deliveryStatus[d] /\ tries'[d] = tries[d] /\ settled'[d] = settled[d]
  BY <1>4, <1>7 DEF CommitBatch, TriesAfter
<1>8. DeliveriesOK'
  <2>1. ASSUME NEW d \in Deliveries
        PROVE  /\ deliveryStatus'[d] \in {"pending", "delivered", "exhausted"}
               /\ tries'[d] \in 0..MaxTries /\ settled'[d] \in Nat
    <3>1. deliveryStatus[d] \in {"pending", "delivered", "exhausted"} /\ More(settled[d]) \in Nat
      BY <1>0, <1>4, MoreGrows DEF DeliveriesOK
    <3> QED
      BY <1>4, <1>5, <1>6, <1>7, <3>1, DeliveryBounds
  <2>2. /\ deliveryStatus' \in [Deliveries -> {"pending", "delivered", "exhausted"}]
        /\ tries' \in [Deliveries -> 0..MaxTries] /\ settled' \in [Deliveries -> Nat]
    BY <2>1 DEF CommitBatch
  <2>3. deliveryDue' \in [Deliveries -> BOOLEAN]
    BY DEF CommitBatch
  <2> QED
    BY <1>0, <1>1, <2>2, <2>3 DEF DeliveriesOK
<1>9. HeldRows(w)' = {} /\ \A v \in Posters \ {w} : HeldRows(v)' = HeldRows(v)
  BY <1>1, <1>2 DEF HeldRows
<1>10. HeldInv'
  <2>1. ASSUME NEW v \in Posters \ {w}, NEW d \in HeldRows(v) PROVE deliveryStatus'[d] = "pending"
    <3>1. d \in Deliveries /\ d \notin ok[w] /\ d \notin ko[w] /\ deliveryStatus[d] = "pending"
      BY <1>0, <2>1 DEF DeliveriesOK, HeldInv, HeldRows
    <3> QED
      BY <1>7, <3>1
  <2> QED
    BY <1>0, <1>1, <1>2, <1>9, <2>1 DEF HeldInv
<1>11. TriesInv'
  <2>1. ASSUME NEW d \in Deliveries, deliveryStatus'[d] # "exhausted" PROVE tries'[d] < MaxTries
    <3>1. deliveryStatus[d] # "exhausted" => tries[d] < MaxTries
      BY <1>0 DEF TriesInv
    <3> QED
      BY <1>4, <1>5, <1>6, <1>7, <2>1, <3>1, DeliveryBounds
  <2> QED
    BY <2>1 DEF TriesInv
<1>12. LoadedInv'
  <2> SUFFICES ASSUME retrying # NoRetry, loaded.status # "pending"
               PROVE  deliveryStatus'[retrying] = loaded.status /\ tries'[retrying] = loaded.attempts
    BY <1>1 DEF LoadedInv
  <2>1. retrying \in Deliveries /\ deliveryStatus[retrying] = loaded.status /\ tries[retrying] = loaded.attempts
    BY <1>0 DEF LoadedInv, DeliveriesOK
  <2> QED
    BY <1>5, <1>6, <1>7, <2>1
<1>13. OutcomesInv'
  <2>1. PICK R : R = MaxTries * RetriesDone /\ R = MaxTries * RetriesDone'
    BY <1>1 DEF RetriesDone
  <2>2. R \in Int
    BY <1>0, <2>1, DeliveryBounds DEF RetriesDone, DeliveriesOK
  <2>3. ASSUME NEW d \in Deliveries
        PROVE  settled'[d] <= R + tries'[d] + IF deliveryStatus'[d] = "delivered" THEN 1 ELSE 0
    <3>1. settled[d] <= R + tries[d] + IF deliveryStatus[d] = "delivered" THEN 1 ELSE 0
      BY <1>0, <2>1 DEF OutcomesInv
    <3>2. /\ tries[d] \in Nat /\ settled[d] \in Nat /\ More(settled[d]) \in Nat
          /\ More(settled[d]) <= settled[d] + 1
      BY <1>4, MoreGrows
    <3>3. CASE d \in ok[w]
      BY <1>5, <2>2, <3>1, <3>2, <3>3
    <3>4. CASE d \in ko[w]
      BY <1>6, <2>2, <3>1, <3>2, <3>4
    <3>5. CASE d \notin ok[w] /\ d \notin ko[w]
      BY <1>7, <3>1, <3>5
    <3> QED
      BY <3>3, <3>4, <3>5
  <2> QED
    BY <1>0, <1>1, <2>1, <2>3 DEF OutcomesInv
<1>14. PostsAccounted'
  <2>1. ASSUME unreadable = {}, NEW d \in Deliveries
        PROVE  posts[d] <= settled'[d] + deaths + IF InFlight(d)' THEN 1 ELSE 0
    <3>1. posts[d] <= settled[d] + deaths + (IF InFlight(d) THEN 1 ELSE 0) /\ posts[d] <= MaxCount
      BY <2>1 DEF DeliveryInv, PostsAccounted, PostsBound
    <3>2. deaths \in Nat /\ MaxCount \in Nat /\ settled[d] \in Nat /\ posts[d] \in Nat
      BY <1>0, <1>4, DeliveryBounds DEF DeliveriesOK
    <3>3. CASE d \in ok[w] \cup ko[w]
      <4>1. settled'[d] = More(settled[d])
        BY <1>5, <1>6, <3>3
      <4>2. settled'[d] = settled[d] + 1 \/ (settled'[d] = settled[d] /\ settled[d] >= MaxCount)
        BY <3>2, <4>1 DEF More
      <4> QED
        BY <3>1, <3>2, <4>2
    <3>4. CASE d \notin ok[w] \cup ko[w]
      <4>1. InFlight(d) => InFlight(d)'
        BY <1>2, <3>4 DEF InFlight
      <4>2. settled'[d] = settled[d]
        BY <1>7, <3>4
      <4> QED
        BY <3>1, <3>2, <4>1, <4>2
    <3> QED
      BY <3>3, <3>4
  <2> QED
    BY <1>1, <2>1 DEF PostsAccounted
<1>15. DeliveredMeansAcked'
  <2>1. ASSUME NEW d \in Deliveries, deliveryStatus'[d] = "delivered" PROVE acks[d] >= 1
    <3>1. CASE d \in ok[w]
      BY <1>5, <3>1
    <3>2. CASE d \notin ok[w]
      <4>1. deliveryStatus[d] = "delivered"
        BY <1>6, <1>7, <2>1, <3>2
      <4> QED
        BY <4>1 DEF DeliveryInv, DeliveredMeansAcked
    <3> QED
      BY <3>1, <3>2
  <2> QED
    BY <1>1, <2>1 DEF DeliveredMeansAcked
<1>16. PostsBound'
  BY <1>1 DEF DeliveryInv, PostsBound
<1> QED
  BY <1>8, <1>10, <1>11, <1>12, <1>13, <1>14, <1>15, <1>16 DEF DeliveryInv

LEMMA RetryLoadStep ==
    ASSUME DeliveryInv, NEW d \in Deliveries, RetryLoad(d)
    PROVE  DeliveryInv'
<1>0. DeliveriesOK /\ OutcomesInv
  BY DEF DeliveryInv
<1>1. /\ retrying = NoRetry /\ retries < MaxRetries /\ retrying' = d /\ retries' = retries + 1
      /\ loaded' = [status |-> deliveryStatus[d], attempts |-> tries[d]]
      /\ UNCHANGED <<deliveryStatus, tries, deliveryDue, posting, toPost, ok, ko, posts, acks, settled, deaths, unreadable>>
  BY DEF RetryLoad, deliveryRows, posterVars
<1>2. d # NoRetry /\ retries \in Nat
  BY <1>0, DeliveryAssumption, DeliveryBounds DEF Deliveries, NoRetry, DeliveriesOK
<1>3. DeliveriesOK'
  BY <1>0, <1>1, <1>2, DeliveryBounds DEF DeliveriesOK
<1>4. RetriesDone' = RetriesDone
  BY <1>1, <1>2 DEF RetriesDone
<1>5. OutcomesInv'
  BY <1>0, <1>1, <1>2, <1>4 DEF OutcomesInv
<1>6. LoadedInv'
  BY <1>1 DEF LoadedInv
<1>7. HeldInv'
  BY <1>1 DEF DeliveryInv, HeldInv, HeldRows
<1>8. TriesInv' /\ PostsBound' /\ PostsAccounted' /\ DeliveredMeansAcked'
  BY <1>1 DEF DeliveryInv, TriesInv, PostsBound, PostsAccounted, DeliveredMeansAcked, InFlight
<1> QED
  BY <1>3, <1>5, <1>6, <1>7, <1>8 DEF DeliveryInv

LEMMA RetryCommitStep ==
    ASSUME DeliveryInv, RetryCommit
    PROVE  DeliveryInv'
<1>0. DeliveriesOK /\ OutcomesInv /\ HeldInv /\ TriesInv /\ LoadedInv
  BY DEF DeliveryInv
<1>1. PICK d \in Deliveries : d = retrying
  BY <1>0 DEF RetryCommit, DeliveriesOK
<1>2. /\ retrying # NoRetry /\ retrying' = NoRetry /\ \A w \in Posters : d \notin HeldRows(w)
      /\ deliveryStatus' = [deliveryStatus EXCEPT ![d] = IF loaded.status = "pending" THEN @ ELSE "pending"]
      /\ tries' = [tries EXCEPT ![d] = IF loaded.attempts = 0 THEN @ ELSE 0]
      /\ deliveryDue' = [deliveryDue EXCEPT ![d] = TRUE]
      /\ UNCHANGED <<posting, toPost, ok, ko, loaded, posts, acks, settled, deaths, retries, unreadable>>
  BY <1>1 DEF RetryCommit, posterVars
<1>3. /\ deliveryStatus'[d] = (IF loaded.status = "pending" THEN deliveryStatus[d] ELSE "pending")
      /\ tries'[d] = (IF loaded.attempts = 0 THEN tries[d] ELSE 0)
      /\ \A e \in Deliveries \ {d} : deliveryStatus'[e] = deliveryStatus[e] /\ tries'[e] = tries[e]
  BY <1>0, <1>2 DEF DeliveriesOK
<1>4. \A e \in Deliveries : tries[e] \in Nat /\ tries[e] <= MaxTries /\ settled[e] \in Nat
  BY <1>0, DeliveryBounds DEF DeliveriesOK
<1>5. DeliveriesOK'
  BY <1>0, <1>2, DeliveryBounds DEF DeliveriesOK
<1>6. HeldInv'
  <2>1. \A w \in Posters : HeldRows(w)' = HeldRows(w) /\ HeldRows(w) \subseteq Deliveries \ {d}
    BY <1>0, <1>2 DEF HeldRows, DeliveriesOK
  <2> QED
    BY <1>0, <1>2, <1>3, <2>1 DEF HeldInv
<1>7. TriesInv'
  <2>1. deliveryStatus'[d] # "exhausted" => tries'[d] < MaxTries
    <3>1. CASE loaded.status = "pending"
      BY <1>0, <1>3, <1>4, <3>1, DeliveryBounds DEF TriesInv
    <3>2. CASE loaded.status # "pending"
      <4>1. tries[d] = loaded.attempts
        BY <1>0, <1>1, <1>2, <3>2 DEF LoadedInv
      <4>2. tries'[d] = 0
        BY <1>3, <4>1
      <4> QED
        BY <4>2, DeliveryBounds
    <3> QED
      BY <3>1, <3>2
  <2> QED
    BY <1>0, <1>3, <2>1 DEF TriesInv
<1>8. LoadedInv'
  BY <1>2 DEF LoadedInv
<1>9. OutcomesInv'
  <2>1. PICK R \in Int, S \in Int : R = MaxTries * RetriesDone /\ S = MaxTries * RetriesDone'
    BY <1>0, <1>2, DeliveryBounds DEF RetriesDone, DeliveriesOK
  <2>2. S = R + MaxTries
    <3>1. RetriesDone' = RetriesDone + 1 /\ RetriesDone \in Int
      BY <1>0, <1>2, DeliveryBounds DEF RetriesDone, DeliveriesOK
    <3>2. \A m, x \in Int : m * (x + 1) = m * x + m
      OBVIOUS
    <3> QED
      BY <2>1, <3>1, <3>2, DeliveryBounds
  <2>3. ASSUME NEW e \in Deliveries
        PROVE  settled[e] <= S + tries'[e] + IF deliveryStatus'[e] = "delivered" THEN 1 ELSE 0
    <3>1. settled[e] <= R + tries[e] + IF deliveryStatus[e] = "delivered" THEN 1 ELSE 0
      BY <1>0, <2>1 DEF OutcomesInv
    <3>2. deliveryStatus[e] = "delivered" => tries[e] < MaxTries
      BY <1>0 DEF TriesInv
    <3>3. settled[e] <= S
      BY <1>4, <2>2, <3>1, <3>2, DeliveryBounds
    <3>4. tries'[e] \in Nat
      BY <1>5, DeliveryBounds DEF DeliveriesOK
    <3> QED
      BY <1>4, <3>3, <3>4
  <2> QED
    BY <1>2, <2>1, <2>3 DEF OutcomesInv
<1>10. DeliveredMeansAcked'
  BY <1>2, <1>3 DEF DeliveryInv, DeliveredMeansAcked
<1>11. PostsBound' /\ PostsAccounted'
  BY <1>2 DEF DeliveryInv, PostsBound, PostsAccounted, InFlight
<1> QED
  BY <1>5, <1>6, <1>7, <1>8, <1>9, <1>10, <1>11 DEF DeliveryInv

LEMMA DeliveryStep ==
    ASSUME DeliveryInv, [DeliveryNext]_deliveryVars
    PROVE  DeliveryInv'
<1>1. CASE \E w \in Posters : PosterStep(w) \/ CrashPosting(w)
  <2>1. PICK w \in Posters : PosterStep(w) \/ CrashPosting(w)
    BY <1>1
  <2>2. CASE ClaimDeliveries(w)
    BY <2>2, ClaimDeliveriesStep
  <2>3. CASE Deliver(w)
    <3>1. CASE Signs(NextDelivery(w))
      BY <2>3, <3>1, PostStep DEF Deliver
    <3>2. CASE ~Signs(NextDelivery(w))
      BY <2>3, <3>2, AbandonStep DEF Deliver, Abort, Signs
    <3> QED
      BY <3>1, <3>2
  <2>4. CASE CommitBatch(w)
    BY <2>4, CommitBatchStep
  <2>5. CASE CrashPosting(w)
    BY <2>5, AbandonStep DEF CrashPosting
  <2> QED
    BY <2>1, <2>2, <2>3, <2>4, <2>5 DEF PosterStep
<1>2. CASE (\E d \in Deliveries : DeliveryBackoffElapses(d)) \/ UNCHANGED deliveryVars
  <2>1. UNCHANGED <<deliveryStatus, tries, posting, toPost, ok, ko, retrying, loaded, retries, unreadable,
                    posts, acks, settled, deaths>>
    BY <1>2 DEF DeliveryBackoffElapses, deliveryVars, deliveryRows, posterVars, retryVars
  <2>2. deliveryDue' \in [Deliveries -> BOOLEAN]
    BY <1>2 DEF DeliveryBackoffElapses, deliveryVars, deliveryRows, DeliveryInv, DeliveriesOK
  <2>3. DeliveriesOK'
    BY <2>1, <2>2 DEF DeliveryInv, DeliveriesOK
  <2>4. HeldInv'
    BY <2>1 DEF DeliveryInv, HeldInv, HeldRows
  <2>5. PostsBound' /\ PostsAccounted' /\ DeliveredMeansAcked'
    BY <2>1 DEF DeliveryInv, PostsBound, PostsAccounted, DeliveredMeansAcked, InFlight
  <2> QED
    BY <2>1, <2>3, <2>4, <2>5, OutcomesUnchanged DEF DeliveryInv
<1> QED
  BY <1>1, <1>2, RetryLoadStep, RetryCommitStep DEF DeliveryNext

LEMMA DeliveryStart == DeliveryInit => DeliveryInv
<1> SUFFICES ASSUME DeliveryInit PROVE DeliveryInv
  OBVIOUS
<1>1. DeliveriesOK
  BY DeliveryBounds DEF DeliveryInit, DeliveriesOK
<1>2. \A w \in Posters : HeldRows(w) = {}
  BY DEF DeliveryInit, HeldRows
<1>3. HeldInv
  BY <1>2 DEF HeldInv, DeliveryInit
<1>4. TriesInv /\ LoadedInv /\ PostsBound /\ DeliveredMeansAcked
  BY DeliveryBounds DEF DeliveryInit, TriesInv, LoadedInv, PostsBound, DeliveredMeansAcked, NoRetry
<1>5. MaxTries * RetriesDone = 0
  BY DeliveryBounds DEF DeliveryInit, RetriesDone
<1>6. OutcomesInv
  BY <1>5 DEF DeliveryInit, OutcomesInv
<1>7. PostsAccounted
  BY DEF DeliveryInit, PostsAccounted
<1> QED
  BY <1>1, <1>3, <1>4, <1>6, <1>7 DEF DeliveryInv

\* With any number of workers, crashes and retries, a delivery that is marked delivered
\* was acknowledged; and as long as every secret decrypts, every POST is followed by
\* its committed outcome unless a process died, and an endpoint is bothered no
\* oftener than the attempts, the crashes and the retries allow.
THEOREM PostsAreHonest == DeliverySpec => []PostsHonest
<1>1. DeliveryInv => PostsHonest
  <2> SUFFICES ASSUME DeliveryInv PROVE AttemptsBounded
    BY DEF DeliveryInv, PostsHonest
  <2> SUFFICES ASSUME unreadable = {}, NEW d \in Deliveries
               PROVE  posts[d] <= MaxTries * (retries + 1) + deaths
    BY DEF AttemptsBounded
  <2>0. DeliveriesOK /\ HeldInv /\ TriesInv /\ OutcomesInv
    BY DEF DeliveryInv
  <2>1. /\ tries[d] \in Nat /\ tries[d] <= MaxTries /\ settled[d] \in Nat /\ posts[d] \in Nat
        /\ deaths \in Nat /\ retries \in Nat /\ MaxTries \in Nat
    BY <2>0, DeliveryBounds DEF DeliveriesOK
  <2>2. PICK R \in Int, S \in Int : R = MaxTries * RetriesDone /\ S = MaxTries * (retries + 1)
    BY <2>1 DEF RetriesDone
  <2>3. S >= R + MaxTries
    <3>1. RetriesDone \in Int /\ RetriesDone <= retries
      BY <2>1 DEF RetriesDone
    <3>2. \A m \in Nat : \A x, y \in Int : x <= y => m * x + m <= m * (y + 1)
      <4> SUFFICES ASSUME NEW m \in Nat, NEW x \in Int, NEW y \in Int, x <= y
                   PROVE  m * x + m <= m * (y + 1)
        OBVIOUS
      <4>1. m * (y + 1) = m * x + m + m * (y - x)
        OBVIOUS
      <4>2. m * (y - x) >= 0
        OBVIOUS
      <4> QED
        BY <4>1, <4>2
    <3> QED
      BY <2>1, <2>2, <3>1, <3>2
  <2>4. settled[d] <= R + tries[d] + IF deliveryStatus[d] = "delivered" THEN 1 ELSE 0
    BY <2>0, <2>2 DEF OutcomesInv
  <2>5. deliveryStatus[d] # "exhausted" => tries[d] < MaxTries
    BY <2>0 DEF TriesInv
  <2>6. InFlight(d) => deliveryStatus[d] = "pending"
    BY <2>0 DEF InFlight, HeldInv, HeldRows
  <2>7. posts[d] <= settled[d] + deaths + IF InFlight(d) THEN 1 ELSE 0
    BY DEF DeliveryInv, PostsAccounted
  <2>8. settled[d] + (IF InFlight(d) THEN 1 ELSE 0) <= R + MaxTries
    BY <2>1, <2>2, <2>4, <2>5, <2>6
  <2> QED
    BY <2>1, <2>2, <2>3, <2>7, <2>8
<1> QED
  BY DeliveryStart, DeliveryStep, <1>1, PTL DEF DeliverySpec
====
