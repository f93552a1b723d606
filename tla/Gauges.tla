------------------------------- MODULE Gauges -------------------------------
(***************************************************************************)
(* Capacity gauges of an organization: rows of usage_counters with the     *)
(* period GAUGE_PERIOD that hold a level instead of a monthly total.       *)
(* `users` is set to a count, `storage_bytes` is moved by differences.     *)
(***************************************************************************)
EXTENDS Integers, Sequences, FiniteSets

NoLimit == -1     \* limit.value is None

Greatest(a, b) == IF a >= b THEN a ELSE b

\* set_gauge: ON CONFLICT DO UPDATE SET quantity_total = EXCLUDED.quantity_total.
SetGauge(value) == Greatest(value, 0)

\* adjust_gauge's statement: the stored level moves by delta and never below zero.
AdjustGauge(level, delta) == Greatest(level + delta, 0)

\* ensure_gauge_capacity, on a level that was read earlier.
HasCapacity(current, adding, limit) == limit = NoLimit \/ current + adding <= limit
====
