---------------------------- MODULE AtomicMeter ----------------------------
(***************************************************************************)
(* What UsageService promises its callers, without transactions, locks or  *)
(* statements: a batch of events is counted in one step.  An event whose   *)
(* key was answered before is not counted again; an enforced batch is      *)
(* counted only if no event takes its metric past a limit that was in      *)
(* effect.                                                                 *)
(***************************************************************************)
EXTENDS Integers, Sequences, FiniteSetsExt

CONSTANTS Metrics, Months, Keys, NoKey, Batches, LimitValues, Unlimited

VARIABLES
    used,         \* [metric, month -> what was counted]
    granted,      \* the part of it that was enforced
    answered,     \* keys whose answer is kept
    once,         \* keys that were ever answered
    inForce       \* [metric -> limits that were in effect]

meterVars == <<used, granted, answered, once, inForce>>

MeterInit ==
    /\ used = [b \in Metrics \X Months |-> 0] /\ granted = used
    /\ answered = {} /\ once = {}
    /\ inForce \in [Metrics -> {{l} : l \in LimitValues}]

\* What the events of items put into a bucket, each in its month.
Put(batch, items, when, bucket) ==
    SumFunctionOnSet([i \in DOMAIN batch |-> batch[i].quantity],
                     {i \in items : <<batch[i].metric, when[i]>> = bucket})

\* The total of a bucket after the first n events of a batch, of which those in
\* counted count.
Total(batch, counted, when, bucket, n) ==
    used[bucket] + Put(batch, {i \in counted : i <= n}, when, bucket)

KeysOf(batch, items) == {batch[i].key : i \in items} \ {NoKey}

\* An event with a key counts exactly if the key was not answered before, in an
\* earlier batch or earlier in this one.
OncePerKey(batch, counted) ==
    \A i \in DOMAIN batch :
        LET k == batch[i].key
            before == KeysOf(batch, {j \in counted : j < i}) IN
        IF i \in counted THEN k \notin answered \cup before
        ELSE k \in once \cup before

Serve(batch, enforced) ==
    \E counted \in SUBSET DOMAIN batch, when \in [DOMAIN batch -> Months] :
        /\ OncePerKey(batch, counted)
        /\ enforced => \A i \in counted : \E l \in inForce[batch[i].metric] :
              l = Unlimited \/ Total(batch, counted, when, <<batch[i].metric, when[i]>>, i) <= l
        /\ used' = [b \in DOMAIN used |-> Total(batch, counted, when, b, Len(batch))]
        /\ granted' = IF enforced
                      THEN [b \in DOMAIN granted |-> granted[b] + Put(batch, counted, when, b)]
                      ELSE granted
        /\ answered' = answered \cup KeysOf(batch, counted)
        /\ once' = once \cup KeysOf(batch, counted)
        /\ UNCHANGED inForce

\* An answer is forgotten when its retention ends.
Forget(k) ==
    /\ k \in answered /\ answered' = answered \ {k}
    /\ UNCHANGED <<used, granted, once, inForce>>

LimitMoves(m, l) ==
    /\ inForce' = [inForce EXCEPT ![m] = @ \cup {l}]
    /\ UNCHANGED <<used, granted, answered, once>>

MeterNext ==
    \/ \E batch \in Batches, enforced \in BOOLEAN : Serve(batch, enforced)
    \/ \E k \in Keys : Forget(k)
    \/ \E m \in Metrics, l \in LimitValues : LimitMoves(m, l)

MeterSpec == MeterInit /\ [][MeterNext]_meterVars
====
