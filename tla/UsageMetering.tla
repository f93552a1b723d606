--------------------------- MODULE UsageMetering ---------------------------
(***************************************************************************)
(* Metered usage of one organization: UsageService.record, consume and     *)
(* consume_many as concurrent request transactions over the tables         *)
(* usage_events, usage_counters and usage_idempotency_keys.                *)
(*                                                                         *)
(* Every request is one PostgreSQL READ COMMITTED transaction that         *)
(* get_session commits when the handler returns and rolls back when it     *)
(* raises.  A statement that writes a row another open transaction has     *)
(* written waits for that transaction; the model takes such a step only    *)
(* once the row is free.  The events table is kept as the sum of its       *)
(* quantities per metric and month and the number of its rows per key.     *)
(***************************************************************************)
EXTENDS Integers, Sequences, FiniteSets

CONSTANTS
    Requests,     \* HTTP requests that may run at the same time
    Metrics,      \* counter metrics (kind /= gauge)
    Keys,         \* idempotency keys clients use
    NoKey,        \* the event carries no idempotency_key
    NoSnapshot,   \* the rollup job is not running
    NoRow,        \* no row in usage_idempotency_keys
    Batches,      \* the event lists clients send
    LimitValues,  \* limit values the organization's entitlements may take
    MaxMonth,     \* bound: the calendar months explored are 1..MaxMonth
    KeyMonths,    \* IDEMPOTENCY_RETENTION_DAYS, in months
    SoftNum, SoftDen  \* soft_limit_ratio = SoftNum / SoftDen

Unlimited == -1   \* limit.value is None
Free      == -1   \* this transaction holds no version of the counter row

Months   == 1..MaxMonth
Buckets  == Metrics \X Months          \* (metric, period_start)
Item     == [metric : Metrics, quantity : Nat \ {0}, key : Keys \cup {NoKey}]
KeyRow   == [metric : Metrics, quantity : Nat \ {0}, total : Nat, born : Months]

ASSUME MonthAssumption == MaxMonth \in Nat \ {0} /\ KeyMonths \in Nat \ {0}
ASSUME LimitAssumption == LimitValues \subseteq Nat \cup {Unlimited}
ASSUME BatchAssumption == Batches \subseteq Seq(Item) /\ << >> \notin Batches
ASSUME KeyAssumption   == NoKey \notin Keys /\ NoRow \notin KeyRow
ASSUME SoftAssumption  == SoftNum \in Nat /\ SoftDen \in Nat \ {0} /\ SoftNum <= SoftDen

VARIABLES
    \* committed rows
    counters,     \* usage_counters.quantity_total; 0 means there is no row
    notified,     \* buckets whose soft_limit_notified_at is set
    eventSum,     \* SUM(quantity) of usage_events per bucket
    keyEvents,    \* COUNT(*) of usage_events per idempotency_key
    ledger,       \* usage_idempotency_keys
    softSent,     \* usage.soft_limit_reached rows appended to the outbox
    hardSent,     \* usage.hard_limit_reached rows appended to the outbox
    \* what the requests see of the rest of the system
    month,        \* the month datetime.now(UTC) falls in
    limit,        \* effective_for_org(org).limit(metric).value
    snapshot,     \* what the rollup job is about to write (see UsageRollup)
    \* the open transaction of each request
    pc, op, batch, pos, now, cap, total,
    rowv,         \* uncommitted versions of counter rows; Free: row not locked
    flags,        \* uncommitted soft_limit_notified_at
    evs,          \* uncommitted usage_events, summed
    keyrows,      \* uncommitted usage_idempotency_keys rows
    kevs,         \* uncommitted usage_events, counted per idempotency_key
    soft, hard,   \* uncommitted outbox rows
    \* history, read by the properties only
    consumed,     \* the part of eventSum that consume admitted
    seen,         \* every limit value that was ever in effect
    purged        \* rows of a key the retention job deleted

committed == <<counters, notified, eventSum, keyEvents, ledger, softSent, hardSent>>
world     == <<month, limit, snapshot, seen, purged>>
call      == <<op, batch>>
work      == <<rowv, flags, evs, keyrows, kevs, soft, hard>>
vars == <<committed, world, pc, call, pos, now, cap, total, work, consumed>>

----------------------------------------------------------------------------
Current(r) == batch[r][pos[r]]   \* the event request r is working on

\* int(limit.value * soft_limit_ratio)
Threshold(l) == (l * SoftNum) \div SoftDen

\* The row lock on bucket b: an open transaction wrote a version of the row.
Holds(r, b)  == rowv[r][b] # Free
\* Mutants: no row lock; a lock that its own holder waits for.
FreeRowNoLock(r, b) == TRUE
FreeRowNotReentrant(r, b) == \A s \in Requests : ~Holds(s, b)
FreeRow(r, b) == \A s \in Requests \ {r} : ~Holds(s, b)
\* The quantity_total request r's statements see, its own writes included.
\* Mutant: the row is never read from the table.
RowTotalOwn(r, b) == rowv[r][b]
RowTotal(r, b) == IF Holds(r, b) THEN rowv[r][b] ELSE counters[b]

\* Mutant: a reservation does not wait for an uncommitted one.
FreeKeyNoWait(r, k) == TRUE
FreeKey(r, k) == \A s \in Requests \ {r} : keyrows[s][k] = NoRow
\* The ledger row request r's statements see.
KeyView(r, k) == IF keyrows[r][k] # NoRow THEN keyrows[r][k] ELSE ledger[k]

\* The bucket an increment of request r lands in: consume takes the clock before
\* it reserves the key, record after.
BucketOf(r) == <<Current(r).metric, IF op[r] = "consume" THEN now[r] ELSE month>>

NoRows   == [b \in Buckets |-> Free]
NoCounts == [b \in Buckets |-> 0]
NoKeys   == [k \in Keys |-> NoRow]

Init ==
    /\ counters = NoCounts
    /\ notified = {}
    /\ eventSum = NoCounts
    /\ keyEvents = [k \in Keys |-> 0]
    /\ ledger = NoKeys
    /\ softSent = NoCounts
    /\ hardSent = NoCounts
    /\ month = 1
    /\ limit \in [Metrics -> LimitValues]
    /\ pc = [r \in Requests |-> "idle"]
    /\ op = [r \in Requests |-> "record"]
    /\ batch = [r \in Requests |-> << >>]
    /\ pos = [r \in Requests |-> 1]
    /\ now = [r \in Requests |-> 1]
    /\ cap = [r \in Requests |-> Unlimited]
    /\ total = [r \in Requests |-> 0]
    /\ rowv = [r \in Requests |-> NoRows]
    /\ flags = [r \in Requests |-> {}]
    /\ evs = [r \in Requests |-> NoCounts]
    /\ keyrows = [r \in Requests |-> NoKeys]
    /\ kevs = [r \in Requests |-> [k \in Keys |-> 0]]
    /\ soft = [r \in Requests |-> NoCounts]
    /\ hard = [r \in Requests |-> NoCounts]
    /\ consumed = NoCounts
    /\ seen = [m \in Metrics |-> {limit[m]}]
    /\ purged = [k \in Keys |-> 0]
    /\ snapshot = NoSnapshot

----------------------------------------------------------------------------
(* One request, statement by statement.                                    *)

\* POST /usage/events (record), /usage/consume and /usage/consume-batch (consume).
Start(r) ==
    /\ pc[r] = "idle"
    /\ pc' = [pc EXCEPT ![r] = "begin"]
    /\ \E o \in {"record", "consume"}, b \in Batches :
          op' = [op EXCEPT ![r] = o] /\ batch' = [batch EXCEPT ![r] = b]
    /\ UNCHANGED <<committed, world, pos, now, cap, total, work, consumed>>

\* consume reads the clock and the limit before anything else; record reads neither.
Begin(r) ==
    /\ pc[r] = "begin"
    /\ now' = [now EXCEPT ![r] = month]
    /\ cap' = [cap EXCEPT ![r] = IF op[r] = "consume"
                                 THEN limit[Current(r).metric] ELSE Unlimited]
    /\ pc' = [pc EXCEPT ![r] = IF Current(r).key = NoKey THEN "count" ELSE "reserve"]
    /\ UNCHANGED <<committed, world, call, pos, total, work, consumed>>

\* INSERT ... ON CONFLICT DO NOTHING: waits while another transaction's row for
\* the key is uncommitted, then inserts or finds the key taken.
Reserve(r) ==
    LET k == Current(r).key IN
    /\ pc[r] = "reserve"
    /\ FreeKey(r, k)
    /\ IF KeyView(r, k) = NoRow
       THEN /\ keyrows' = [keyrows EXCEPT ![r][k] =
                  [metric |-> Current(r).metric, quantity |-> Current(r).quantity,
                   total |-> 0, born |-> month]]
            /\ pc' = [pc EXCEPT ![r] = "count"]
       ELSE /\ pc' = [pc EXCEPT ![r] = "replay"]
            /\ UNCHANGED keyrows
    /\ UNCHANGED <<committed, world, call, pos, now, cap, total,
                   rowv, flags, evs, kevs, soft, hard, consumed>>

AfterItem(r) == IF pos[r] = Len(batch[r]) THEN "commit" ELSE "begin"

\* The stored result answers the event.
Replay(r) ==
    /\ pc[r] = "replay"
    /\ KeyView(r, Current(r).key) # NoRow
    /\ total' = [total EXCEPT ![r] = KeyView(r, Current(r).key).total]
    /\ pc' = [pc EXCEPT ![r] = AfterItem(r)]
    /\ pos' = [pos EXCEPT ![r] = @ + 1]
    /\ UNCHANGED <<committed, world, call, now, cap, work, consumed>>

\* The exception leaves the handler: get_session rolls the transaction back.
RollBack(r) ==
    /\ pc' = [pc EXCEPT ![r] = "done"]
    /\ rowv' = [rowv EXCEPT ![r] = NoRows]
    /\ flags' = [flags EXCEPT ![r] = {}]
    /\ evs' = [evs EXCEPT ![r] = NoCounts]
    /\ keyrows' = [keyrows EXCEPT ![r] = NoKeys]
    /\ kevs' = [kevs EXCEPT ![r] = [k \in Keys |-> 0]]
    /\ soft' = [soft EXCEPT ![r] = NoCounts]
    /\ hard' = [hard EXCEPT ![r] = NoCounts]
    /\ UNCHANGED <<committed, world, call, pos, now, cap, total, consumed>>

\* .one() raises NoResultFound: the row was purged after the reservation saw it.
ReplayGone(r) ==
    /\ pc[r] = "replay"
    /\ KeyView(r, Current(r).key) = NoRow
    /\ RollBack(r)

\* Mutant: the limit is compared with the total before the event.
BreachesBefore(r, t) == cap[r] # Unlimited /\ t - Current(r).quantity > cap[r]
Breaches(r, t) == cap[r] # Unlimited /\ t > cap[r]

\* _insert_event and _increment_counter, and consume's comparison of the
\* returned total with the limit it read at the start.
Count(r) ==
    LET b == BucketOf(r)
        q == Current(r).quantity
        k == Current(r).key
        t == RowTotal(r, b) + q IN
    /\ pc[r] = "count"
    /\ FreeRow(r, b)
    /\ ~Breaches(r, t)
    /\ rowv' = [rowv EXCEPT ![r][b] = t]
    /\ evs' = [evs EXCEPT ![r][b] = @ + q]
    /\ kevs' = [kevs EXCEPT ![r] = [j \in Keys |-> @[j] + IF j = k THEN 1 ELSE 0]]
    /\ total' = [total EXCEPT ![r] = t]
    /\ pc' = [pc EXCEPT ![r] = "notify"]
    /\ UNCHANGED <<committed, world, call, pos, now, cap, flags, keyrows, soft, hard, consumed>>

\* UsageLimitExceededError: event, counter and key reservation go together.
Breach(r) ==
    /\ pc[r] = "count"
    /\ FreeRow(r, BucketOf(r))
    /\ Breaches(r, RowTotal(r, BucketOf(r)) + Current(r).quantity)
    /\ RollBack(r)

\* _maybe_emit_soft_limit reads the limit and the clock again.
NoticeBucket(r) == <<Current(r).metric, month>>
\* Mutant: the threshold has to be exceeded.
CrossedStrict(r) == LET l == limit[Current(r).metric] IN
    l # Unlimited /\ SoftNum > 0 /\ total[r] > Threshold(l)
Crossed(r) == LET l == limit[Current(r).metric] IN
    l # Unlimited /\ SoftNum > 0 /\ total[r] >= Threshold(l)
\* The rows UPDATE ... WHERE soft_limit_notified_at IS NULL matches.
Unnotified(r, b) ==
    /\ Holds(r, b) \/ counters[b] > 0
    /\ b \notin notified \cup flags[r]
MustNotify(r) == Crossed(r) /\ Unnotified(r, NoticeBucket(r))

WithTotal(row, t) ==
    [metric |-> row.metric, quantity |-> row.quantity, total |-> t, born |-> row.born]

Settled(r) ==
    LET k == Current(r).key IN
    IF k = NoKey THEN keyrows
    ELSE [keyrows EXCEPT ![r][k] = WithTotal(keyrows[r][k], total[r])]

\* The rest of the event: the soft-limit notice, consume's hard-limit notice
\* and _settle_idempotency.
Notify(r) ==
    LET n == NoticeBucket(r)
        b == BucketOf(r) IN
    /\ pc[r] = "notify"
    /\ IF MustNotify(r)
       THEN /\ FreeRow(r, n)
            /\ flags' = [flags EXCEPT ![r] = @ \cup {n}]
            /\ rowv' = [rowv EXCEPT ![r][n] = RowTotal(r, n)]
            /\ soft' = [soft EXCEPT ![r][n] = @ + 1]
       ELSE UNCHANGED <<flags, rowv, soft>>
    /\ hard' = IF cap[r] # Unlimited /\ total[r] >= cap[r]
               THEN [hard EXCEPT ![r][b] = @ + 1] ELSE hard
    /\ keyrows' = Settled(r)
    /\ pc' = [pc EXCEPT ![r] = AfterItem(r)]
    /\ pos' = [pos EXCEPT ![r] = @ + 1]
    /\ UNCHANGED <<committed, world, call, now, cap, total, evs, kevs, consumed>>

Sum(f, g) == [x \in DOMAIN f |-> f[x] + g[x]]

\* The handler returned: every buffered write becomes visible at once.
Commit(r) ==
    /\ pc[r] = "commit"
    /\ counters' = [b \in Buckets |-> RowTotal(r, b)]
    /\ notified' = notified \cup flags[r]
    /\ eventSum' = Sum(eventSum, evs[r])
    /\ keyEvents' = Sum(keyEvents, kevs[r])
    /\ ledger' = [k \in Keys |-> KeyView(r, k)]
    /\ softSent' = Sum(softSent, soft[r])
    /\ hardSent' = Sum(hardSent, hard[r])
    /\ consumed' = IF op[r] = "consume" THEN Sum(consumed, evs[r]) ELSE consumed
    /\ pc' = [pc EXCEPT ![r] = "done"]
    /\ rowv' = [rowv EXCEPT ![r] = NoRows]
    /\ flags' = [flags EXCEPT ![r] = {}]
    /\ evs' = [evs EXCEPT ![r] = NoCounts]
    /\ keyrows' = [keyrows EXCEPT ![r] = NoKeys]
    /\ kevs' = [kevs EXCEPT ![r] = [k \in Keys |-> 0]]
    /\ soft' = [soft EXCEPT ![r] = NoCounts]
    /\ hard' = [hard EXCEPT ![r] = NoCounts]
    /\ UNCHANGED <<world, call, pos, now, cap, total>>

Open(r) == pc[r] \notin {"idle", "done"}

\* The process dies, the client goes away, a statement fails.
Fail(r) == Open(r) /\ RollBack(r)

----------------------------------------------------------------------------
(* Waiting, and PostgreSQL's deadlock detector.                            *)

Awaits(r, s) ==
    /\ s # r
    /\ \/ pc[r] = "reserve" /\ keyrows[s][Current(r).key] # NoRow
       \/ pc[r] = "count"   /\ Holds(s, BucketOf(r))
       \/ pc[r] = "notify"  /\ MustNotify(r) /\ Holds(s, NoticeBucket(r))

\* r is on a cycle of transactions that wait for each other.
Deadlocked(r) ==
    \E S \in SUBSET Requests :
        /\ r \in S
        /\ \A x \in S : \E y \in S : Awaits(x, y)
        /\ \A y \in S : \E x \in S : Awaits(x, y)

DeadlockAbort(r) == Deadlocked(r) /\ RollBack(r)

----------------------------------------------------------------------------
(* The rest of the system, as the requests see it.                         *)

\* A plan change, a grant, a revocation: effective_for_org returns another limit.
ChangeLimit(m, l) ==
    /\ l # limit[m]
    /\ limit' = [limit EXCEPT ![m] = l]
    /\ seen' = [seen EXCEPT ![m] = @ \cup {l}]
    /\ UNCHANGED <<committed, month, snapshot, purged, pc, call, pos, now, cap, total, work, consumed>>

NextMonth ==
    /\ month < MaxMonth
    /\ month' = month + 1
    /\ UNCHANGED <<committed, limit, snapshot, seen, purged, pc, call, pos, now, cap, total,
                   work, consumed>>

\* purge_expired: DELETE FROM usage_idempotency_keys past the retention.
PurgeKey(k) ==
    /\ ledger[k] # NoRow
    /\ ledger[k].born + KeyMonths <= month
    /\ ledger' = [ledger EXCEPT ![k] = NoRow]
    /\ purged' = [purged EXCEPT ![k] = @ + 1]
    /\ UNCHANGED <<counters, notified, eventSum, keyEvents, softSent, hardSent,
                   month, limit, snapshot, seen, pc, call, pos, now, cap, total, work, consumed>>

Step(r) == \/ Start(r) \/ Begin(r) \/ Reserve(r) \/ Replay(r) \/ ReplayGone(r)
           \/ Count(r) \/ Breach(r) \/ Notify(r) \/ Commit(r)

Environment == \/ \E m \in Metrics, l \in LimitValues : ChangeLimit(m, l)
               \/ NextMonth
               \/ \E k \in Keys : PurgeKey(k)

Next == \/ \E r \in Requests : Step(r) \/ Fail(r) \/ DeadlockAbort(r)
        \/ Environment

Spec == Init /\ [][Next]_vars

\* Handlers run to their end and the deadlock detector finds every cycle; nobody
\* is obliged to send a request, to fail or to change a plan.
Fairness ==
    \A r \in Requests :
        /\ WF_vars(Begin(r) \/ Reserve(r) \/ Replay(r) \/ ReplayGone(r) \/ Count(r)
                   \/ Breach(r) \/ Notify(r) \/ Commit(r))
        /\ WF_vars(DeadlockAbort(r))

FairSpec == Spec /\ Fairness

----------------------------------------------------------------------------
(* Properties.                                                             *)

TablesOK ==
    /\ counters \in [Buckets -> Nat]
    /\ notified \subseteq Buckets
    /\ eventSum \in [Buckets -> Nat]
    /\ keyEvents \in [Keys -> Nat]
    /\ ledger \in [Keys -> KeyRow \cup {NoRow}]
    /\ softSent \in [Buckets -> Nat]
    /\ hardSent \in [Buckets -> Nat]
    /\ month \in Months
    /\ limit \in [Metrics -> LimitValues]
    /\ consumed \in [Buckets -> Nat]
    /\ seen \in [Metrics -> SUBSET LimitValues]
    /\ purged \in [Keys -> Nat]

CallOK ==
    /\ pc \in [Requests -> {"idle", "begin", "reserve", "replay", "count", "notify",
                            "commit", "done"}]
    /\ op \in [Requests -> {"record", "consume"}]
    /\ batch \in [Requests -> Batches \cup {<< >>}]
    /\ pos \in [Requests -> Nat \ {0}]
    /\ now \in [Requests -> Months]
    /\ cap \in [Requests -> LimitValues \cup {Unlimited}]
    /\ total \in [Requests -> Nat]

WorkOK ==
    /\ rowv \in [Requests -> [Buckets -> Nat \cup {Free}]]
    /\ flags \in [Requests -> SUBSET Buckets]
    /\ evs \in [Requests -> [Buckets -> Nat]]
    /\ keyrows \in [Requests -> [Keys -> KeyRow \cup {NoRow}]]
    /\ kevs \in [Requests -> [Keys -> Nat]]
    /\ soft \in [Requests -> [Buckets -> Nat]]
    /\ hard \in [Requests -> [Buckets -> Nat]]

\* The tables, the handlers' local state and the open transactions are well typed.
TypeOK == TablesOK /\ CallOK /\ WorkOK

\* The denormalised counter never drifts from the events it stands for, whatever
\* interleaving of increments, breaches, failures and commits happens.
CountersMatchEvents == counters = eventSum

\* x is within some limit of metric m that was in effect at some time.
Within(m, x) == \E l \in seen[m] : l = Unlimited \/ x <= l

\* What consume admitted in a month never exceeds the largest limit that was in
\* effect: concurrent consumers cannot overshoot.
NoOvershoot == \A b \in Buckets : Within(b[1], consumed[b])

\* A retry is not counted again: the events that carry a key are one per row the
\* ledger holds or held for it, even when the retries overlap.
KeyCountedOnce ==
    \A k \in Keys : keyEvents[k] = purged[k] + IF ledger[k] = NoRow THEN 0 ELSE 1

\* A row another request can see was settled: a replay answers with the total the
\* first request got and never with the placeholder of the reservation.
ReplayableTotals ==
    \A k \in Keys : ledger[k] # NoRow => ledger[k].total >= ledger[k].quantity

\* usage.soft_limit_reached is appended at most once for a metric and month.
SoftLimitOnce == \A b \in Buckets : softSent[b] <= 1

\* While a metric's limit stays the same, the month under way has had its notice
\* once its committed usage has reached the soft limit.  (A request that counts
\* before midnight of the last day and flags after it flags the wrong month.)
SoftLimitNoticed ==
    \A m \in Metrics :
        /\ seen[m] = {limit[m]} /\ limit[m] # Unlimited /\ SoftNum > 0
        /\ counters[<<m, month>>] > 0 /\ counters[<<m, month>>] >= Threshold(limit[m])
        => <<m, month>> \in notified

\* usage.hard_limit_reached is appended once per limit value at most, however
\* many consumers arrive at the limit together.
HardLimitOnce ==
    \A m \in Metrics, p \in Months :
        hardSent[<<m, p>>] <= Cardinality(seen[m] \ {Unlimited})

\* Every request that was accepted ends, also when batches take the counter rows
\* in opposite orders.
RequestsEnd == \A r \in Requests : Open(r) ~> pc[r] = "done"

\* The notices of a month: every limit that is reached is announced, and none twice,
\* whatever requests arrive at it together, roll back, or jump over it.
LimitNotices == HardLimitOnce /\ SoftLimitOnce /\ SoftLimitNoticed
====
