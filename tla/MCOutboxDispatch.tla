-------------------------- MODULE MCOutboxDispatch --------------------------
EXTENDS OutboxDispatch

CONSTANTS w1, w2, ep1, ep2

\* ep1 has an empty filter (all events), ep2 subscribes to the first event only.
MCWants == [ep \in Endpoints |-> IF ep = ep1 THEN Events ELSE {1}]
====
