---------------------------- MODULE UsageRollup ----------------------------
(***************************************************************************)
(* Request metering together with the worker's hourly rollup_usage job:    *)
(* one INSERT ... SELECT SUM(quantity) ... ON CONFLICT DO UPDATE over the  *)
(* current month.  The sums come from the snapshot the statement starts    *)
(* with; each counter row is overwritten once its lock is free, however    *)
(* long that takes, and all of them become visible together.               *)
(***************************************************************************)
EXTENDS UsageMetering

\* Mutant: COUNT(*) for SUM(quantity).
RollupReadCounts ==
    /\ snapshot = NoSnapshot
    /\ snapshot' = [b \in {c \in Buckets : c[2] = month /\ eventSum[c] > 0} |-> 1]
    /\ UNCHANGED <<committed, month, limit, seen, purged,
                   pc, call, pos, now, cap, total, work, consumed>>

\* The statement starts: GROUP BY metric over the current month's events.
RollupRead ==
    /\ snapshot = NoSnapshot
    /\ snapshot' = [b \in {c \in Buckets : c[2] = month /\ eventSum[c] > 0} |-> eventSum[b]]
    /\ UNCHANGED <<committed, month, limit, seen, purged,
                   pc, call, pos, now, cap, total, work, consumed>>

\* Mutant: the rows are rebuilt (deleted and inserted), so the notice is forgotten.
RollupWriteRebuilds ==
    /\ snapshot # NoSnapshot
    /\ \A b \in DOMAIN snapshot, r \in Requests : ~Holds(r, b)
    /\ counters' = [b \in Buckets |-> IF b \in DOMAIN snapshot THEN snapshot[b] ELSE counters[b]]
    /\ notified' = notified \ DOMAIN snapshot
    /\ snapshot' = NoSnapshot
    /\ UNCHANGED <<eventSum, keyEvents, ledger, softSent, hardSent,
                   month, limit, seen, purged, pc, call, pos, now, cap, total, work, consumed>>

\* ... DO UPDATE SET quantity_total = EXCLUDED.quantity_total, and the commit.
\* soft_limit_notified_at keeps its value.
RollupWrite ==
    /\ snapshot # NoSnapshot
    /\ \A b \in DOMAIN snapshot, r \in Requests : ~Holds(r, b)
    /\ counters' = [b \in Buckets |-> IF b \in DOMAIN snapshot THEN snapshot[b] ELSE counters[b]]
    /\ snapshot' = NoSnapshot
    /\ UNCHANGED <<notified, eventSum, keyEvents, ledger, softSent, hardSent,
                   month, limit, seen, purged, pc, call, pos, now, cap, total, work, consumed>>

RollupNext == Next \/ RollupRead \/ RollupWrite

\* The cron starts the job every hour and a statement that can run does.
RollupFairness == WF_vars(RollupRead) /\ WF_vars(RollupWrite)

RollupSpec == Init /\ [][RollupNext]_vars
FairRollupSpec == RollupSpec /\ Fairness /\ RollupFairness

----------------------------------------------------------------------------
\* Once the requests of a month are over, the counters end up equal to the sums
\* of the month's events and stay so: the job repairs whatever drift it meets.
DriftHeals == <>[](\A m \in Metrics : counters[<<m, month>>] = eventSum[<<m, month>>])

\* The job overwrites totals, never the notice: a month is not notified twice
\* although its counter moved back.
RollupKeepsNotices == SoftLimitOnce /\ \A b \in notified : softSent[b] = 1

\* What requests have recorded besides the totals survives the job and the purge of
\* keys: the answers kept for a replay, and which notices were sent.
JobKeepsRecords == ReplayableTotals /\ RollupKeepsNotices
====
