-------------------------- MODULE UsageRefinement --------------------------
(* UsageMetering implements AtomicMeter. *)
EXTENDS UsageMetering

Meter == INSTANCE AtomicMeter WITH
    used     <- counters,
    granted  <- consumed,
    answered <- {k \in Keys : ledger[k] # NoRow},
    once     <- {k \in Keys : ledger[k] # NoRow \/ purged[k] > 0},
    inForce  <- seen

\* consume, consume_many and record are atomic: however their statements, row locks,
\* key reservations and rollbacks interleave, a request takes effect in one step or
\* not at all, counts each key once, and is enforced against the counter which that
\* very step finds.
MetersAtomically == Meter!MeterSpec
====
