--------------------------- MODULE OutboxDispatch ---------------------------
(***************************************************************************)
(* The transactional outbox of one organization and the worker processes   *)
(* that drain it (dispatch_outbox): a batch of due events is locked with   *)
(* FOR UPDATE SKIP LOCKED, each event is fanned out in its own savepoint,  *)
(* one commit ends the batch, and only then do the in-process consumers    *)
(* (emails, authorization sync) see the events.                            *)
(***************************************************************************)
EXTENDS Integers, FiniteSets

CONSTANTS
    MaxEvent,     \* events are 1..MaxEvent; the number is the order of their ids
    Internal,     \* the events whose audience is internal
    Poison,       \* the events whose fan-out always raises
    Endpoints,    \* webhook endpoints the organization may have
    Wants,        \* Wants[ep]: the events endpoint ep subscribes to
    Workers,      \* worker processes
    Batch,        \* OUTBOX_BATCH
    MaxAttempts,  \* OUTBOX_MAX_ATTEMPTS
    MaxCrashes    \* bound: crashes of worker processes

Events == 1..MaxEvent

ASSUME EventAssumption == MaxEvent \in Nat /\ Internal \subseteq Events /\ Poison \subseteq Events
ASSUME WantsAssumption == Wants \in [Endpoints -> SUBSET Events]
ASSUME BoundAssumption == Batch \in Nat \ {0} /\ MaxAttempts \in Nat \ {0} /\ MaxCrashes \in Nat

VARIABLES
    \* committed rows
    status,       \* outbox_events: none, pending, published, dead, purged
    attempts,     \* outbox_events.attempts
    due,          \* next_attempt_at <= now()
    live,         \* rows of webhook_endpoints
    unused,       \* endpoints that were never created
    fanned,       \* number of webhook_deliveries rows per event and endpoint
    \* each worker
    pc,
    todo,         \* claimed events the batch has still to process
    targets,      \* the endpoints the fan-out query returned
    done, failed, \* events of the batch that were published, that raised
    rows,         \* uncommitted webhook_deliveries
    mail,         \* to_email: published events the consumers have not seen
    \* history
    consumed,     \* times the in-process consumers were called with an event
    owed,         \* endpoints that existed when the event was appended
    crashes

tables  == <<status, attempts, due, live, unused, fanned>>
batch   == <<todo, targets, done, failed, rows, mail>>
vars == <<tables, pc, batch, consumed, owed, crashes>>

Pairs == Events \X Endpoints

\* FOR UPDATE row locks: a batch keeps its rows until it commits or dies.
Locked(w) == todo[w] \cup done[w] \cup failed[w]

\* The n smallest elements of S: ORDER BY id LIMIT n.
First(S, n) == {e \in S : Cardinality({f \in S : f < e}) < n}

Claimable == {e \in Events : status[e] = "pending" /\ due[e]}

Init ==
    /\ status = [e \in Events |-> "none"]
    /\ attempts = [e \in Events |-> 0]
    /\ due = [e \in Events |-> TRUE]
    /\ live = {}
    /\ unused = Endpoints
    /\ fanned = [p \in Pairs |-> 0]
    /\ pc = [w \in Workers |-> "idle"]
    /\ todo = [w \in Workers |-> {}]
    /\ targets = [w \in Workers |-> {}]
    /\ done = [w \in Workers |-> {}]
    /\ failed = [w \in Workers |-> {}]
    /\ rows = [w \in Workers |-> {}]
    /\ mail = [w \in Workers |-> {}]
    /\ consumed = [e \in Events |-> 0]
    /\ owed = [e \in Events |-> {}]
    /\ crashes = 0

----------------------------------------------------------------------------
\* append_outbox, committed with the state change it reports.  uuid_v7 ids are
\* increasing, so events appear in the order of their numbers.
Append(e) ==
    /\ status[e] = "none"
    /\ \A f \in Events : f < e => status[f] # "none"
    /\ status' = [status EXCEPT ![e] = "pending"]
    /\ owed' = [owed EXCEPT ![e] = live]
    /\ UNCHANGED <<attempts, due, live, unused, fanned, pc, batch, consumed, crashes>>

CreateEndpoint(ep) ==
    /\ ep \in unused
    /\ unused' = unused \ {ep}
    /\ live' = live \cup {ep}
    /\ UNCHANGED <<status, attempts, due, fanned, pc, batch, consumed, owed, crashes>>

\* The delete waits for uncommitted deliveries that reference the endpoint, and
\* cascades to the committed ones.
DeleteEndpoint(ep) ==
    /\ ep \in live
    /\ \A w \in Workers : \A e \in Events : <<e, ep>> \notin rows[w]
    /\ live' = live \ {ep}
    /\ fanned' = [p \in Pairs |-> IF p[2] = ep THEN 0 ELSE fanned[p]]
    /\ UNCHANGED <<status, attempts, due, unused, pc, batch, consumed, owed, crashes>>

\* Mutant: FOR UPDATE without SKIP LOCKED's exclusion.
FreeEventsAll(w) == Claimable
\* SKIP LOCKED: rows another worker's transaction holds are passed over.
FreeEvents(w) == {e \in Claimable : \A v \in Workers \ {w} : e \notin Locked(v)}

Claim(w) ==
    /\ pc[w] = "idle"
    /\ FreeEvents(w) # {}
    /\ todo' = [todo EXCEPT ![w] = First(FreeEvents(w), Batch)]
    /\ pc' = [pc EXCEPT ![w] = "select"]
    /\ UNCHANGED <<tables, targets, done, failed, rows, mail, consumed, owed, crashes>>

Current(w) == CHOOSE e \in todo[w] : \A f \in todo[w] : e <= f

\* Mutant: an empty filter means no events.
RecipientsNoCatchAll(e) == {ep \in live : e \in Wants[ep] /\ Wants[ep] # Events}
\* The fan-out query; an internal event has no recipients.
Recipients(e) == IF e \in Internal THEN {} ELSE {ep \in live : e \in Wants[ep]}

Select(w) ==
    /\ pc[w] = "select" /\ todo[w] # {}
    /\ targets' = [targets EXCEPT ![w] = Recipients(Current(w))]
    /\ pc' = [pc EXCEPT ![w] = "flush"]
    /\ UNCHANGED <<tables, todo, done, failed, rows, mail, consumed, owed, crashes>>

\* The inserts fail on an endpoint that was deleted since the query.
Flushes(w) == Current(w) \notin Poison /\ targets[w] \subseteq live

Flush(w) ==
    LET e == Current(w) IN
    /\ pc[w] = "flush"
    /\ todo' = [todo EXCEPT ![w] = @ \ {e}]
    /\ IF Flushes(w)
       THEN /\ rows' = [rows EXCEPT ![w] = @ \cup ({e} \X targets[w])]
            /\ done' = [done EXCEPT ![w] = @ \cup {e}]
            /\ UNCHANGED failed
       ELSE /\ failed' = [failed EXCEPT ![w] = @ \cup {e}]
            /\ UNCHANGED <<rows, done>>
    /\ pc' = [pc EXCEPT ![w] = "select"]
    /\ UNCHANGED <<tables, targets, mail, consumed, owed, crashes>>

\* _outbox_failure after n attempts.
Fate(n) == IF n >= MaxAttempts THEN "dead" ELSE "pending"

\* Mutant: the attempt is rolled back with the savepoint.
TriedForgotten(w, e) == attempts[e]
\* The attempts of an event at the end of the batch.
Tried(w, e) == attempts[e] + IF e \in failed[w] THEN 1 ELSE 0

\* One commit for the batch: published events, their deliveries, the failures'
\* bookkeeping.
Commit(w) ==
    /\ pc[w] = "select" /\ todo[w] = {}
    /\ status' = [e \in Events |-> IF e \in done[w] THEN "published"
                                   ELSE IF e \in failed[w] THEN Fate(Tried(w, e))
                                   ELSE status[e]]
    /\ attempts' = [e \in Events |-> Tried(w, e)]
    /\ due' = [e \in Events |-> due[e] /\ ~(e \in failed[w] /\ Tried(w, e) < MaxAttempts)]
    /\ fanned' = [p \in Pairs |-> fanned[p] + IF p \in rows[w] THEN 1 ELSE 0]
    /\ mail' = [mail EXCEPT ![w] = done[w]]
    /\ done' = [done EXCEPT ![w] = {}]
    /\ failed' = [failed EXCEPT ![w] = {}]
    /\ rows' = [rows EXCEPT ![w] = {}]
    /\ pc' = [pc EXCEPT ![w] = "consume"]
    /\ UNCHANGED <<live, unused, todo, targets, consumed, owed, crashes>>

\* handle_event of notifications and of the authorization sync; what they raise is
\* logged and dropped.
Consume(w) ==
    /\ pc[w] = "consume"
    /\ \E e \in mail[w] :
          /\ consumed' = [consumed EXCEPT ![e] = @ + 1]
          /\ mail' = [mail EXCEPT ![w] = @ \ {e}]
    /\ UNCHANGED <<tables, pc, todo, targets, done, failed, rows, owed, crashes>>

Finish(w) ==
    /\ pc[w] = "consume" /\ mail[w] = {}
    /\ pc' = [pc EXCEPT ![w] = "idle"]
    /\ UNCHANGED <<tables, batch, consumed, owed, crashes>>

\* The process dies: an open transaction rolls back, events not yet handed to the
\* consumers are forgotten.
Crash(w) ==
    /\ pc[w] # "idle" /\ crashes < MaxCrashes
    /\ crashes' = crashes + 1
    /\ pc' = [pc EXCEPT ![w] = "idle"]
    /\ todo' = [todo EXCEPT ![w] = {}]
    /\ targets' = [targets EXCEPT ![w] = {}]
    /\ done' = [done EXCEPT ![w] = {}]
    /\ failed' = [failed EXCEPT ![w] = {}]
    /\ rows' = [rows EXCEPT ![w] = {}]
    /\ mail' = [mail EXCEPT ![w] = {}]
    /\ UNCHANGED <<tables, consumed, owed>>

BackoffElapses(e) ==
    /\ ~due[e]
    /\ due' = [due EXCEPT ![e] = TRUE]
    /\ UNCHANGED <<status, attempts, live, unused, fanned, pc, batch, consumed, owed, crashes>>

\* purge_expired: DELETE FROM outbox_events WHERE published_at < the retention.
Purge(e) ==
    /\ status[e] = "published"
    /\ status' = [status EXCEPT ![e] = "purged"]
    /\ UNCHANGED <<attempts, due, live, unused, fanned, pc, batch, consumed, owed, crashes>>

Dispatch(w) == \/ Claim(w) \/ Select(w) \/ Flush(w) \/ Commit(w) \/ Consume(w) \/ Finish(w)

Next ==
    \/ \E e \in Events : Append(e) \/ BackoffElapses(e) \/ Purge(e)
    \/ \E ep \in Endpoints : CreateEndpoint(ep) \/ DeleteEndpoint(ep)
    \/ \E w \in Workers : Dispatch(w) \/ Crash(w)

Spec == Init /\ [][Next]_vars

\* The cron starts dispatch_outbox every five seconds and time passes.
Fairness ==
    /\ \A w \in Workers : WF_vars(Dispatch(w))
    /\ \A e \in Events : WF_vars(BackoffElapses(e))

FairSpec == Spec /\ Fairness

----------------------------------------------------------------------------
TypeOK ==
    /\ status \in [Events -> {"none", "pending", "published", "dead", "purged"}]
    /\ attempts \in [Events -> 0..MaxAttempts]
    /\ due \in [Events -> BOOLEAN]
    /\ live \subseteq Endpoints /\ unused \subseteq Endpoints
    /\ fanned \in [Pairs -> Nat]
    /\ pc \in [Workers -> {"idle", "select", "flush", "consume"}]
    /\ todo \in [Workers -> SUBSET Events] /\ targets \in [Workers -> SUBSET Endpoints]
    /\ done \in [Workers -> SUBSET Events] /\ failed \in [Workers -> SUBSET Events]
    /\ rows \in [Workers -> SUBSET Pairs] /\ mail \in [Workers -> SUBSET Events]
    /\ consumed \in [Events -> Nat]
    /\ owed \in [Events -> SUBSET Endpoints]
    /\ crashes \in 0..MaxCrashes

\* "FOR UPDATE SKIP LOCKED so multiple workers never double-send": an event has at
\* most one delivery per endpoint, whatever workers overlap and crash.
FanOutOnce == \A p \in Pairs : fanned[p] <= 1

\* Internal events (invite tokens, reset links) never become deliveries.
InternalStaysInside == \A e \in Internal : \A ep \in Endpoints : fanned[<<e, ep>>] = 0

\* A published event missed nobody: every endpoint that existed when the event was
\* appended, still exists and subscribes to it has its delivery.
PublishedReachesAll ==
    \A e \in Events \ Internal : status[e] \in {"published", "purged"} =>
        \A ep \in owed[e] \cap live : e \in Wants[ep] => fanned[<<e, ep>>] = 1

\* "a crash or retry cannot send the same invite/invoice twice": the consumers see
\* an event at most once, and never one whose publication is not durable.
ConsumersAtMostOnce ==
    \A e \in Events : consumed[e] <= IF status[e] \in {"published", "purged"} THEN 1 ELSE 0

\* Every appended event leaves the queue, and one that always raises does not keep
\* the others waiting.  An event that can be fanned out is published in the end, and
\* not dead-lettered because endpoints come and go around it (there are more
\* attempts than endpoints to lose).
EventsSettle ==
    \A e \in Events : status[e] = "pending" ~>
        status[e] = "published" \/ (e \in Poison /\ status[e] = "dead")

\* The fan-out of an event is exact: one delivery for each endpoint it is owed to,
\* none for others, and none at all of an internal event, whatever workers overlap
\* and die and whatever endpoints come and go.
FanOutExact == TypeOK /\ FanOutOnce /\ InternalStaysInside /\ PublishedReachesAll
====
