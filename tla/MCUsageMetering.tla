-------------------------- MODULE MCUsageMetering --------------------------
(* Values for the model checker.                                           *)
EXTENDS UsageRefinement, TLC

CONSTANTS r1, r2, r3, mA, k1

Event(m, q, k) == [metric |-> m, quantity |-> q, key |-> k]

\* Single events with and without a key: two sizes, so that a breach depends on
\* who comes first; and a batch that may fail after its first event.
SmallBatches == {<<Event(mA, 1, k1)>>, <<Event(mA, 2, NoKey)>>,
                 <<Event(mA, 1, k1), Event(mA, 2, NoKey)>>}

Perms == Permutations(Requests)
====
