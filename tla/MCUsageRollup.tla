--------------------------- MODULE MCUsageRollup --------------------------
(* Values for the model checker.                                           *)
EXTENDS UsageRollup

CONSTANTS r1, r2, mA, mB, k1

Event(m, q, k) == [metric |-> m, quantity |-> q, key |-> k]

\* A key twice in a batch, and two metrics in opposite orders.
RetryBatches == {<<Event(mA, 1, k1), Event(mA, 1, k1)>>,
                 <<Event(mA, 1, k1), Event(mB, 2, NoKey)>>,
                 <<Event(mB, 2, NoKey), Event(mA, 1, k1)>>}
====
