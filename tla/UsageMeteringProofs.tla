------------------------ MODULE UsageMeteringProofs ------------------------
(***************************************************************************)
(* Proofs about UsageMetering, alone and beside the job of UsageRollup, for *)
(* every set of requests, metrics, keys, batches and limit values and any  *)
(* number of months: types, counters, limits, keys, notices, and that the  *)
(* requests implement AtomicMeter.                                         *)
(***************************************************************************)
EXTENDS UsageRollup, UsageRefinement, FoldLemmas, FiniteSetTheorems, TLAPS

InItem(r) == pc[r] \in {"begin", "reserve", "replay", "count", "notify"}

\* A request that has not started is at its first event; one inside an event points at
\* an event of its batch, and holds the reservation of that event's key while it counts
\* the event.
PosOK(r) ==
    /\ pc[r] = "idle" => pos[r] = 1
    /\ InItem(r) => batch[r] \in Batches /\ pos[r] \in 1..Len(batch[r])
    /\ pc[r] \in {"reserve", "replay"} => Current(r).key # NoKey
    /\ pc[r] \in {"count", "notify"} /\ Current(r).key # NoKey
          => keyrows[r][Current(r).key] # NoRow

PosInv == \A r \in Requests : PosOK(r)

TypeInv == TypeOK /\ PosInv

\* What a step of request r leaves alone in the transactions of the others.
Frame(r) ==
    \A s \in Requests \ {r} :
        /\ pc'[s] = pc[s] /\ op'[s] = op[s] /\ batch'[s] = batch[s] /\ pos'[s] = pos[s]
        /\ cap'[s] = cap[s] /\ now'[s] = now[s] /\ total'[s] = total[s]
        /\ rowv'[s] = rowv[s] /\ evs'[s] = evs[s] /\ flags'[s] = flags[s]
        /\ keyrows'[s] = keyrows[s] /\ kevs'[s] = kevs[s]
        /\ soft'[s] = soft[s] /\ hard'[s] = hard[s]

\* The event a request is working on is a well-formed event.
LEMMA CurrentType ==
    ASSUME TypeInv, NEW r \in Requests, InItem(r)
    PROVE  /\ Current(r) \in Item
           /\ Current(r).metric \in Metrics
           /\ Current(r).quantity \in Nat \ {0}
           /\ Current(r).key \in Keys \cup {NoKey}
           /\ BucketOf(r) \in Buckets
           /\ NoticeBucket(r) \in Buckets
<1>1. batch[r] \in Seq(Item) /\ pos[r] \in 1..Len(batch[r])
  BY BatchAssumption DEF TypeInv, PosInv, PosOK
<1>2. Current(r) \in Item
  BY <1>1 DEF Current
<1>3. month \in Months /\ now[r] \in Months
  BY DEF TypeInv, TypeOK, TablesOK, CallOK
<1> QED
  BY <1>2, <1>3 DEF Item, BucketOf, NoticeBucket, Buckets

\* No request touches the transaction of another.
LEMMA RollBackFrame ==
    ASSUME TypeInv, NEW r \in Requests, RollBack(r)
    PROVE  Frame(r)
BY DEF TypeInv, TypeOK, CallOK, WorkOK, RollBack, Frame, call

LEMMA StepFrame ==
    ASSUME TypeInv, NEW r \in Requests, Step(r)
    PROVE  Frame(r)
<1> USE DEF call, work, Frame
<1>0. CallOK /\ WorkOK
  BY DEF TypeInv, TypeOK
<1>1. CASE Start(r)
  BY <1>0, <1>1 DEF CallOK, WorkOK, Start
<1>2. CASE Begin(r)
  BY <1>0, <1>2 DEF CallOK, WorkOK, Begin
<1>3. CASE Reserve(r)
  BY <1>0, <1>3 DEF CallOK, WorkOK, Reserve
<1>4. CASE Replay(r)
  BY <1>0, <1>4 DEF CallOK, WorkOK, Replay
<1>5. CASE Count(r)
  BY <1>0, <1>5 DEF CallOK, WorkOK, Count
<1>6. CASE Notify(r)
  BY <1>0, <1>6 DEF CallOK, WorkOK, Notify, Settled
<1>7. CASE Commit(r)
  BY <1>0, <1>7 DEF CallOK, WorkOK, Commit
<1>8. CASE ReplayGone(r) \/ Breach(r)
  BY <1>8, RollBackFrame DEF ReplayGone, Breach
<1> QED
  BY <1>1, <1>2, <1>3, <1>4, <1>5, <1>6, <1>7, <1>8 DEF Step

\* The position of a request follows from its own step alone.
LEMMA PosStep ==
    ASSUME TypeInv, NEW r \in Requests, Frame(r), PosOK(r)'
    PROVE  PosInv'
<1> SUFFICES ASSUME NEW s \in Requests, s # r PROVE PosOK(s)'
  BY DEF PosInv
<1>1. PosOK(s)
  BY DEF TypeInv, PosInv
<1> QED
  BY <1>1 DEF Frame, PosOK, InItem, Current

\* Ending a transaction by an exception keeps the types.
LEMMA RollBackType ==
    ASSUME TypeInv, NEW r \in Requests, RollBack(r)
    PROVE  TypeInv'
<1> USE DEF RollBack, committed, world, call
<1>1. TablesOK'
  BY DEF TypeInv, TypeOK, TablesOK
<1>2. CallOK'
  BY DEF TypeInv, TypeOK, CallOK
<1>3. WorkOK'
  BY DEF TypeInv, TypeOK, WorkOK, NoRows, NoCounts, NoKeys
<1>4. PosOK(r)'
  BY DEF TypeInv, TypeOK, CallOK, PosOK, InItem
<1> QED
  BY <1>1, <1>2, <1>3, <1>4, RollBackFrame, PosStep DEF TypeInv, TypeOK

LEMMA StepType ==
    ASSUME TypeInv, NEW r \in Requests, Step(r)
    PROVE  TypeInv'
<1> USE DEF committed, world, call, work
<1> DEFINE m == Current(r).metric
           q == Current(r).quantity
           k == Current(r).key
<1> SUFFICES ASSUME ~RollBack(r) PROVE TablesOK' /\ CallOK' /\ WorkOK' /\ PosOK(r)'
  BY StepFrame, PosStep, RollBackType DEF TypeInv, TypeOK
<1>0. TablesOK /\ CallOK /\ WorkOK /\ PosOK(r)
  BY DEF TypeInv, TypeOK, PosInv
<1>a. InItem(r) => /\ m \in Metrics /\ q \in Nat \ {0} /\ k \in Keys \cup {NoKey}
                   /\ BucketOf(r) \in Buckets /\ NoticeBucket(r) \in Buckets
  BY CurrentType
<1>b. month \in Months /\ pos[r] \in Nat \ {0} /\ total[r] \in Nat
  BY <1>0 DEF TablesOK, CallOK
<1>c. \A b \in Buckets : RowTotal(r, b) \in Nat
  BY <1>0 DEF TablesOK, WorkOK, RowTotal, Holds
<1>d. \A j \in Keys : /\ keyrows[r][j] \in KeyRow \cup {NoRow}
                      /\ KeyView(r, j) \in KeyRow \cup {NoRow}
  BY <1>0 DEF TablesOK, WorkOK, KeyView
<1> HIDE DEF m, q, k
<1>1. CASE Start(r)
  <2>1. TablesOK' /\ WorkOK'
    BY <1>0, <1>1 DEF TablesOK, WorkOK, Start
  <2>2. CallOK'
    BY <1>0, <1>1 DEF CallOK, Start
  <2>3. batch'[r] \in Batches /\ pos'[r] = 1 /\ pc'[r] = "begin"
    BY <1>0, <1>1 DEF CallOK, Start, PosOK
  <2>4. batch'[r] \in Seq(Item) /\ batch'[r] # << >>
    BY <2>3, BatchAssumption
  <2>5. PosOK(r)'
    BY <2>3, <2>4 DEF PosOK, InItem
  <2> QED
    BY <2>1, <2>2, <2>5
<1>2. CASE Begin(r)
  <2>1. InItem(r)
    BY <1>2 DEF Begin, InItem
  <2>2. TablesOK' /\ WorkOK'
    BY <1>0, <1>2 DEF TablesOK, WorkOK, Begin
  <2>3. CallOK'
    BY <1>0, <1>a, <1>b, <1>2, <2>1 DEF TablesOK, CallOK, Begin, m
  <2>4. PosOK(r)'
    BY <1>0, <1>2 DEF CallOK, PosOK, Begin, InItem, Current
  <2> QED
    BY <2>2, <2>3, <2>4
<1>3. CASE Reserve(r)
  <2> DEFINE row == [metric |-> m, quantity |-> q, total |-> 0, born |-> month]
  <2>1. InItem(r) /\ k # NoKey
    BY <1>0, <1>3 DEF Reserve, InItem, PosOK, k
  <2>2. row \in KeyRow
    BY <1>a, <1>b, <2>1 DEF KeyRow
  <2>3. \/ keyrows' = [keyrows EXCEPT ![r][k] = row] /\ pc' = [pc EXCEPT ![r] = "count"]
        \/ keyrows' = keyrows /\ pc' = [pc EXCEPT ![r] = "replay"]
    BY <1>3 DEF Reserve, m, q, k
  <2> HIDE DEF row
  <2>4. TablesOK' /\ CallOK'
    BY <1>0, <1>3, <2>3 DEF TablesOK, CallOK, Reserve
  <2>5. WorkOK'
    <3>1. k \in Keys /\ keyrows \in [Requests -> [Keys -> KeyRow \cup {NoRow}]]
      BY <1>0, <1>a, <2>1 DEF WorkOK
    <3>2. [keyrows EXCEPT ![r][k] = row] \in [Requests -> [Keys -> KeyRow \cup {NoRow}]]
      BY <2>2, <3>1
    <3>3. keyrows' \in [Requests -> [Keys -> KeyRow \cup {NoRow}]]
      BY <2>3, <3>1, <3>2
    <3> QED
      BY <1>0, <1>3, <3>3 DEF WorkOK, Reserve
  <2>6. Current(r)' = Current(r)
    BY <1>3 DEF Reserve, Current
  <2>7. pc'[r] = "count" => keyrows'[r][k] # NoRow
    <3>1. row # NoRow /\ k \in Keys
      BY <1>a, <2>1, <2>2, KeyAssumption
    <3>2. CASE keyrows' = [keyrows EXCEPT ![r][k] = row]
      <4>1. r \in DOMAIN keyrows /\ k \in DOMAIN keyrows[r]
        BY <1>0, <3>1 DEF WorkOK
      <4> QED
        BY <3>1, <3>2, <4>1
    <3>3. CASE pc' = [pc EXCEPT ![r] = "replay"]
      BY <1>0, <3>3 DEF CallOK
    <3> QED
      BY <2>3, <3>2, <3>3
  <2>8. pc'[r] \in {"count", "replay"}
    BY <1>0, <2>3 DEF CallOK
  <2>9. PosOK(r)'
    BY <1>0, <1>3, <2>1, <2>6, <2>7, <2>8 DEF PosOK, Reserve, InItem, k
  <2> QED
    BY <2>4, <2>5, <2>9
<1>4. CASE Replay(r)
  <2>1. InItem(r) /\ k # NoKey /\ KeyView(r, k) # NoRow
    BY <1>0, <1>4 DEF Replay, InItem, PosOK, k
  <2>2. KeyView(r, k) \in KeyRow
    BY <1>a, <1>d, <2>1
  <2>3. KeyView(r, k).total \in Nat
    BY <2>2 DEF KeyRow
  <2>4. TablesOK' /\ WorkOK'
    BY <1>0, <1>4 DEF TablesOK, WorkOK, Replay
  <2>5. CallOK'
    BY <1>0, <1>4, <2>3 DEF CallOK, Replay, AfterItem, k
  <2>6. PosOK(r)'
    BY <1>0, <1>4 DEF CallOK, PosOK, Replay, InItem, AfterItem
  <2> QED
    BY <2>4, <2>5, <2>6
<1>5. CASE Count(r)
  <2>1. InItem(r)
    BY <1>5 DEF Count, InItem
  <2>2. TablesOK'
    BY <1>0, <1>5 DEF TablesOK, Count
  <2>3. CallOK'
    BY <1>0, <1>a, <1>c, <1>5, <2>1 DEF CallOK, Count, q
  <2>4. WorkOK'
    BY <1>0, <1>a, <1>c, <1>5, <2>1 DEF WorkOK, Count, q, k
  <2>5. PosOK(r)'
    BY <1>0, <1>5 DEF CallOK, PosOK, Count, InItem, Current
  <2> QED
    BY <2>2, <2>3, <2>4, <2>5
<1>6. CASE Notify(r)
  <2>1. InItem(r)
    BY <1>6 DEF Notify, InItem
  <2>2. TablesOK'
    BY <1>0, <1>6 DEF TablesOK, Notify
  <2>3. CallOK'
    BY <1>0, <1>6 DEF CallOK, Notify, AfterItem
  <2>4. k # NoKey => WithTotal(keyrows[r][k], total[r]) \in KeyRow
    <3> SUFFICES ASSUME k # NoKey PROVE WithTotal(keyrows[r][k], total[r]) \in KeyRow
      OBVIOUS
    <3>1. keyrows[r][k] \in KeyRow
      BY <1>0, <1>a, <1>d, <1>6, <2>1 DEF PosOK, Notify, k
    <3> QED
      BY <1>b, <3>1 DEF KeyRow, WithTotal
  <2>5. keyrows' \in [Requests -> [Keys -> KeyRow \cup {NoRow}]]
    BY <1>0, <1>a, <1>6, <2>1, <2>4 DEF WorkOK, Notify, Settled, k
  <2>6. WorkOK'
    <3> DEFINE n == NoticeBucket(r)
    <3>0. \/ /\ flags' = [flags EXCEPT ![r] = @ \cup {n}]
             /\ rowv' = [rowv EXCEPT ![r][n] = RowTotal(r, n)]
             /\ soft' = [soft EXCEPT ![r][n] = @ + 1]
          \/ flags' = flags /\ rowv' = rowv /\ soft' = soft
      BY <1>6 DEF Notify
    <3>a. n \in Buckets /\ RowTotal(r, n) \in Nat
      BY <1>a, <1>c, <2>1
    <3> HIDE DEF n
    <3>1. rowv' \in [Requests -> [Buckets -> Nat \cup {Free}]]
      <4>1. rowv \in [Requests -> [Buckets -> Nat \cup {Free}]]
        BY <1>0 DEF WorkOK
      <4>2. [rowv EXCEPT ![r][n] = RowTotal(r, n)] \in [Requests -> [Buckets -> Nat \cup {Free}]]
        BY <3>a, <4>1
      <4> QED
        BY <3>0, <4>1, <4>2
    <3>2. flags' \in [Requests -> SUBSET Buckets]
      <4>1. flags \in [Requests -> SUBSET Buckets]
        BY <1>0 DEF WorkOK
      <4>2. [flags EXCEPT ![r] = @ \cup {n}] \in [Requests -> SUBSET Buckets]
        BY <3>a, <4>1
      <4> QED
        BY <3>0, <4>1, <4>2
    <3>3. soft' \in [Requests -> [Buckets -> Nat]]
      <4>1. soft \in [Requests -> [Buckets -> Nat]]
        BY <1>0 DEF WorkOK
      <4>2. [soft EXCEPT ![r][n] = @ + 1] \in [Requests -> [Buckets -> Nat]]
        BY <3>a, <4>1
      <4> QED
        BY <3>0, <4>1, <4>2
    <3>4. hard' \in [Requests -> [Buckets -> Nat]]
      BY <1>0, <1>a, <1>6, <2>1 DEF WorkOK, Notify
    <3> QED
      BY <1>0, <1>6, <2>5, <3>1, <3>2, <3>3, <3>4 DEF WorkOK, Notify
  <2>7. PosOK(r)'
    BY <1>0, <1>6 DEF CallOK, PosOK, Notify, InItem, AfterItem
  <2> QED
    BY <2>2, <2>3, <2>6, <2>7
<1>7. CASE Commit(r)
  <2>1. TablesOK'
    BY <1>0, <1>c, <1>d, <1>7 DEF TablesOK, WorkOK, Commit, Sum
  <2>2. CallOK'
    BY <1>0, <1>7 DEF CallOK, Commit
  <2>3. WorkOK'
    BY <1>0, <1>7 DEF WorkOK, Commit, NoRows, NoCounts, NoKeys
  <2>4. PosOK(r)'
    BY <1>0, <1>7 DEF CallOK, PosOK, Commit, InItem
  <2> QED
    BY <2>1, <2>2, <2>3, <2>4
<1> QED
  BY <1>1, <1>2, <1>3, <1>4, <1>5, <1>6, <1>7 DEF Step, ReplayGone, Breach

LEMMA EnvironmentType ==
    ASSUME TypeInv, Environment
    PROVE  TypeInv'
<1> USE DEF committed, world, call, work
<1>1. CASE \E m \in Metrics, l \in LimitValues : ChangeLimit(m, l)
  BY <1>1 DEF TypeInv, TypeOK, TablesOK, CallOK, WorkOK, PosInv, PosOK, ChangeLimit, InItem, Current
<1>2. CASE NextMonth
  BY <1>2, MonthAssumption DEF TypeInv, TypeOK, TablesOK, CallOK, WorkOK, PosInv, PosOK, NextMonth, InItem, Current, Months
<1>3. CASE \E k \in Keys : PurgeKey(k)
  BY <1>3 DEF TypeInv, TypeOK, TablesOK, CallOK, WorkOK, PosInv, PosOK, PurgeKey, InItem, Current
<1> QED
  BY <1>1, <1>2, <1>3 DEF Environment

LEMMA InitType == Init => TypeInv
<1> SUFFICES ASSUME Init PROVE TypeInv
  OBVIOUS
<1>1. TypeOK
  BY MonthAssumption DEF Init, TypeOK, TablesOK, CallOK, WorkOK, NoRows, NoCounts, NoKeys, Free, Months, Unlimited
<1>2. PosInv
  BY DEF Init, PosInv, PosOK, InItem
<1> QED
  BY <1>1, <1>2 DEF TypeInv

LEMMA NextType == TypeInv /\ [Next]_vars => TypeInv'
<1> SUFFICES ASSUME TypeInv, [Next]_vars PROVE TypeInv'
  OBVIOUS
<1>1. CASE \E r \in Requests : Step(r)
  BY <1>1, StepType
<1>2. CASE \E r \in Requests : Fail(r) \/ DeadlockAbort(r)
  BY <1>2, RollBackType DEF Fail, DeadlockAbort
<1>3. CASE Environment
  BY <1>3, EnvironmentType
<1>4. CASE UNCHANGED vars
  BY <1>4 DEF vars, committed, world, call, work, TypeInv, TypeOK, TablesOK, CallOK, WorkOK, PosInv, PosOK, InItem, Current
<1> QED
  BY <1>1, <1>2, <1>3, <1>4 DEF Next

\* Every reachable state of the metering tables and of the open transactions is
\* well typed, for every instance.
THEOREM TypeCorrect == Spec => []TypeOK
<1>1. TypeInv => TypeOK
  BY DEF TypeInv
<1> QED
  BY InitType, NextType, <1>1, PTL DEF Spec

----------------------------------------------------------------------------
(* The counters equal the events.  The row lock makes the version a        *)
(* transaction writes equal to the committed total plus its own events.    *)

LocksOK == \A b \in Buckets : \A r, s \in Requests : Holds(r, b) /\ Holds(s, b) => r = s

RowOK(r, b) == IF Holds(r, b) THEN rowv[r][b] = counters[b] + evs[r][b] ELSE evs[r][b] = 0

RowsOK == \A r \in Requests : \A b \in Buckets : RowOK(r, b)

DriftInv == TypeInv /\ LocksOK /\ RowsOK /\ CountersMatchEvents

rowVars == <<counters, eventSum, rowv, evs>>

LEMMA DriftUnchanged ==
    ASSUME LocksOK, RowsOK, CountersMatchEvents, UNCHANGED rowVars
    PROVE  LocksOK' /\ RowsOK' /\ CountersMatchEvents'
BY DEF LocksOK, RowsOK, RowOK, CountersMatchEvents, Holds, rowVars

LEMMA DriftRollBack ==
    ASSUME DriftInv, NEW r \in Requests, RollBack(r)
    PROVE  LocksOK' /\ RowsOK' /\ CountersMatchEvents'
<1>1. WorkOK
  BY DEF DriftInv, TypeInv, TypeOK
<1>2. \A b \in Buckets : rowv'[r][b] = Free /\ evs'[r][b] = 0
  BY <1>1 DEF WorkOK, RollBack, NoRows, NoCounts
<1>3. \A s \in Requests \ {r} : rowv'[s] = rowv[s] /\ evs'[s] = evs[s]
  BY RollBackFrame DEF DriftInv, Frame
<1>4. counters' = counters /\ eventSum' = eventSum
  BY DEF RollBack, committed
<1>5. LocksOK'
  BY <1>2, <1>3 DEF DriftInv, LocksOK, Holds
<1>6. RowsOK'
  BY <1>2, <1>3, <1>4 DEF DriftInv, RowsOK, RowOK, Holds
<1> QED
  BY <1>4, <1>5, <1>6 DEF DriftInv, CountersMatchEvents

LEMMA DriftStep ==
    ASSUME DriftInv, NEW r \in Requests, Step(r)
    PROVE  LocksOK' /\ RowsOK' /\ CountersMatchEvents'
<1>0. WorkOK /\ TablesOK /\ LocksOK /\ RowsOK /\ CountersMatchEvents
  BY DEF DriftInv, TypeInv, TypeOK
<1>a. \A s \in Requests \ {r} : rowv'[s] = rowv[s] /\ evs'[s] = evs[s]
  BY StepFrame DEF DriftInv, Frame
<1>1. CASE Start(r) \/ Begin(r) \/ Reserve(r) \/ Replay(r)
  <2>1. UNCHANGED rowVars
    BY <1>1 DEF Start, Begin, Reserve, Replay, committed, work, rowVars
  <2> QED
    BY <1>0, <2>1, DriftUnchanged
<1>2. CASE ReplayGone(r) \/ Breach(r)
  BY <1>2, DriftRollBack DEF ReplayGone, Breach
<1>3. CASE Count(r)
  <2>0. PICK b \in Buckets, q \in Nat : b = BucketOf(r) /\ q = Current(r).quantity
    BY <1>3, CurrentType DEF DriftInv, Count, InItem
  <2>2. /\ rowv' = [rowv EXCEPT ![r][b] = RowTotal(r, b) + q]
        /\ evs' = [evs EXCEPT ![r][b] = @ + q]
        /\ counters' = counters /\ eventSum' = eventSum
        /\ FreeRow(r, b)
    BY <1>3, <2>0 DEF Count, committed
  <2>3. /\ rowv'[r][b] = RowTotal(r, b) + q /\ evs'[r][b] = evs[r][b] + q
        /\ \A c \in Buckets \ {b} : rowv'[r][c] = rowv[r][c] /\ evs'[r][c] = evs[r][c]
    BY <1>0, <2>2 DEF WorkOK
  <2>4. RowOK(r, b) /\ counters[b] \in Nat /\ evs[r][b] \in Nat /\ rowv[r][b] \in Nat \cup {Free}
    BY <1>0 DEF RowsOK, WorkOK, TablesOK
  <2>5. RowOK(r, b)'
    BY <2>2, <2>3, <2>4 DEF RowOK, RowTotal, Holds, Free
  <2>6. LocksOK'
    BY <1>0, <1>a, <2>2, <2>3 DEF LocksOK, Holds, FreeRow
  <2>7. RowsOK'
    BY <1>0, <1>a, <2>2, <2>3, <2>5 DEF RowsOK, RowOK, Holds
  <2> QED
    BY <1>0, <2>2, <2>6, <2>7 DEF CountersMatchEvents
<1>4. CASE Notify(r)
  <2>0. evs' = evs /\ counters' = counters /\ eventSum' = eventSum
    BY <1>4 DEF Notify, committed
  <2>1. CASE rowv' = rowv
    BY <1>0, <2>0, <2>1, DriftUnchanged DEF rowVars
  <2>2. CASE rowv' # rowv
    <3>1. PICK n \in Buckets : n = NoticeBucket(r)
      BY <1>4, CurrentType DEF DriftInv, Notify, InItem
    <3>2. rowv' = [rowv EXCEPT ![r][n] = RowTotal(r, n)] /\ FreeRow(r, n)
      BY <1>4, <2>2, <3>1 DEF Notify
    <3>3. /\ rowv'[r][n] = RowTotal(r, n)
          /\ \A c \in Buckets \ {n} : rowv'[r][c] = rowv[r][c]
      BY <1>0, <3>1, <3>2 DEF WorkOK
    <3>4. RowOK(r, n) /\ counters[n] \in Nat /\ evs[r][n] \in Nat /\ rowv[r][n] \in Nat \cup {Free}
      BY <1>0, <3>1 DEF RowsOK, WorkOK, TablesOK
    <3>5. RowOK(r, n)'
      BY <2>0, <3>3, <3>4 DEF RowOK, RowTotal, Holds, Free
    <3>6. LocksOK'
      BY <1>0, <1>a, <3>1, <3>2, <3>3 DEF LocksOK, Holds, FreeRow
    <3>7. RowsOK'
      BY <1>0, <1>a, <2>0, <3>3, <3>5 DEF RowsOK, RowOK, Holds
    <3> QED
      BY <1>0, <2>0, <3>6, <3>7 DEF CountersMatchEvents
  <2> QED
    BY <2>1, <2>2
<1>5. CASE Commit(r)
  <2>1. \A b \in Buckets : rowv'[r][b] = Free /\ evs'[r][b] = 0
    BY <1>0, <1>5 DEF WorkOK, Commit, NoRows, NoCounts
  <2>2. counters' = [b \in Buckets |-> RowTotal(r, b)] /\ eventSum' = Sum(eventSum, evs[r])
    BY <1>5 DEF Commit
  <2>3. \A b \in Buckets : RowTotal(r, b) = counters[b] + evs[r][b]
    BY <1>0 DEF RowsOK, RowOK, RowTotal, Holds, WorkOK, TablesOK
  <2>4. CountersMatchEvents'
    BY <1>0, <2>2, <2>3 DEF CountersMatchEvents, Sum, TablesOK
  <2>5. LocksOK'
    BY <1>0, <1>a, <2>1 DEF LocksOK, Holds
  <2>6. ASSUME NEW s \in Requests \ {r}, NEW b \in Buckets PROVE RowOK(s, b)'
    <3>1. Holds(s, b) => counters'[b] = counters[b]
      BY <1>0, <2>2 DEF LocksOK, RowTotal
    <3> QED
      BY <1>0, <1>a, <3>1 DEF RowsOK, RowOK, Holds
  <2>7. RowsOK'
    BY <2>1, <2>6 DEF RowsOK, RowOK, Holds
  <2> QED
    BY <2>4, <2>5, <2>7
<1> QED
  BY <1>1, <1>2, <1>3, <1>4, <1>5 DEF Step

LEMMA InitDrift == Init => DriftInv
<1> SUFFICES ASSUME Init PROVE LocksOK /\ RowsOK /\ CountersMatchEvents
  BY InitType DEF DriftInv
<1>1. \A r \in Requests : \A b \in Buckets : rowv[r][b] = Free /\ evs[r][b] = 0
  BY DEF Init, NoRows, NoCounts
<1> QED
  BY <1>1 DEF Init, LocksOK, RowsOK, RowOK, Holds, CountersMatchEvents

LEMMA NextDrift == DriftInv /\ [Next]_vars => DriftInv'
<1> SUFFICES ASSUME DriftInv, [Next]_vars PROVE LocksOK' /\ RowsOK' /\ CountersMatchEvents'
  BY NextType DEF DriftInv
<1>1. CASE \E r \in Requests : Step(r)
  BY <1>1, DriftStep
<1>2. CASE \E r \in Requests : Fail(r) \/ DeadlockAbort(r)
  BY <1>2, DriftRollBack DEF Fail, DeadlockAbort
<1>3. CASE Environment \/ UNCHANGED vars
  <2>1. UNCHANGED rowVars
    BY <1>3 DEF Environment, ChangeLimit, NextMonth, PurgeKey, vars, committed, work, rowVars
  <2> QED
    BY <2>1, DriftUnchanged DEF DriftInv
<1> QED
  BY <1>1, <1>2, <1>3 DEF Next

\* The counter rows never drift from the events, whatever requests overlap, fail
\* or are aborted (rollup_usage, which overwrites counters, is not part of Spec).
THEOREM NoDrift == Spec => []CountersMatchEvents
<1>1. DriftInv => CountersMatchEvents
  BY DEF DriftInv
<1> QED
  BY InitDrift, NextDrift, <1>1, PTL DEF Spec

----------------------------------------------------------------------------
(* The limit.  What an open consume has written is within a limit that was *)
(* in effect, and consumed quantities are a part of the events.            *)

CapOK(r) ==
    pc[r] \in {"reserve", "replay", "count", "notify"} /\ op[r] = "consume"
        => cap[r] \in seen[Current(r).metric]

FreshOK(r) == pc[r] = "idle" => \A b \in Buckets : evs[r][b] = 0

AdmitOK(r) ==
    op[r] = "consume" => \A b \in Buckets : evs[r][b] > 0 => Within(b[1], rowv[r][b])

SeenOK == \A m \in Metrics : limit[m] \in seen[m]

PartOK == \A b \in Buckets : consumed[b] <= eventSum[b]

LimitParts == /\ \A r \in Requests : CapOK(r) /\ FreshOK(r) /\ AdmitOK(r)
              /\ SeenOK /\ PartOK /\ NoOvershoot

LimitInv == DriftInv /\ LimitParts

\* What another request has is not disturbed: limits in effect are only added.
LEMMA LimitOthers ==
    ASSUME LimitInv, NEW r \in Requests, Frame(r), seen' = seen
    PROVE  \A s \in Requests \ {r} : CapOK(s)' /\ FreshOK(s)' /\ AdmitOK(s)'
BY DEF LimitInv, LimitParts, Frame, CapOK, FreshOK, AdmitOK, Within, Current

LEMMA LimitRollBack ==
    ASSUME LimitInv, NEW r \in Requests, RollBack(r)
    PROVE  LimitParts'
<1>1. Frame(r) /\ WorkOK /\ CallOK
  BY RollBackFrame DEF LimitInv, DriftInv, TypeInv, TypeOK
<1>2. /\ \A b \in Buckets : evs'[r][b] = 0
      /\ pc'[r] = "done"
  BY <1>1 DEF RollBack, WorkOK, CallOK, NoCounts
<1>3. CapOK(r)' /\ FreshOK(r)' /\ AdmitOK(r)'
  BY <1>2 DEF CapOK, FreshOK, AdmitOK
<1>4. UNCHANGED <<seen, limit, consumed, eventSum>>
  BY DEF RollBack, world, committed
<1>5. SeenOK' /\ PartOK' /\ NoOvershoot'
  BY <1>4 DEF LimitInv, LimitParts, SeenOK, PartOK, NoOvershoot, Within
<1> QED
  BY <1>1, <1>3, <1>4, <1>5, LimitOthers DEF LimitParts

LEMMA LimitStep ==
    ASSUME LimitInv, NEW r \in Requests, Step(r)
    PROVE  LimitParts'
<1>0. /\ TablesOK /\ CallOK /\ WorkOK /\ RowsOK /\ CountersMatchEvents
      /\ CapOK(r) /\ FreshOK(r) /\ AdmitOK(r) /\ SeenOK /\ PartOK /\ NoOvershoot /\ TypeInv
  BY DEF LimitInv, LimitParts, DriftInv, TypeInv, TypeOK
<1>a. Frame(r)
  BY <1>0, StepFrame
<1>b. seen' = seen /\ limit' = limit
  BY DEF Step, Start, Begin, Reserve, Replay, ReplayGone, Count, Breach, Notify, Commit,
         RollBack, world
<1>c. SeenOK'
  BY <1>0, <1>b DEF SeenOK
<1>d. consumed' = consumed /\ eventSum' = eventSum => PartOK' /\ NoOvershoot'
  BY <1>0, <1>b DEF PartOK, NoOvershoot, Within
<1> SUFFICES ASSUME ~RollBack(r)
             PROVE  CapOK(r)' /\ FreshOK(r)' /\ AdmitOK(r)' /\ PartOK' /\ NoOvershoot'
  BY <1>a, <1>b, <1>c, LimitOthers, LimitRollBack DEF LimitParts
<1>1. CASE Start(r)
  <2>1. pc'[r] = "begin" /\ evs' = evs /\ consumed' = consumed /\ eventSum' = eventSum
    BY <1>0, <1>1 DEF CallOK, Start, work, committed
  <2>2. \A b \in Buckets : evs[r][b] = 0
    BY <1>0, <1>1 DEF FreshOK, Start
  <2> QED
    BY <1>d, <2>1, <2>2 DEF CapOK, FreshOK, AdmitOK
<1>2. CASE Begin(r)
  <2>1. /\ evs' = evs /\ rowv' = rowv /\ op' = op /\ consumed' = consumed /\ eventSum' = eventSum
        /\ Current(r)' = Current(r)
    BY <1>2 DEF Begin, work, committed, call, Current
  <2>2. pc'[r] # "idle" /\ pc'[r] \in {"count", "reserve"}
    BY <1>0, <1>2 DEF CallOK, Begin
  <2>3. op[r] = "consume" => cap'[r] = limit[Current(r).metric]
    BY <1>0, <1>2 DEF CallOK, Begin
  <2>4. Current(r).metric \in Metrics
    BY <1>0, <1>2, CurrentType DEF Begin, InItem
  <2>5. CapOK(r)'
    BY <1>0, <1>b, <2>1, <2>3, <2>4 DEF CapOK, SeenOK
  <2> QED
    BY <1>0, <1>b, <1>d, <2>1, <2>2, <2>5 DEF FreshOK, AdmitOK, Within
<1>3. CASE Reserve(r)
  <2>1. /\ evs' = evs /\ rowv' = rowv /\ op' = op /\ consumed' = consumed /\ eventSum' = eventSum
        /\ cap' = cap /\ Current(r)' = Current(r) /\ pc[r] = "reserve"
    BY <1>3 DEF Reserve, committed, call, Current
  <2>2. pc'[r] # "idle"
    BY <1>0, <1>3 DEF CallOK, Reserve
  <2> QED
    BY <1>0, <1>b, <1>d, <2>1, <2>2 DEF CapOK, FreshOK, AdmitOK, Within
<1>4. CASE Replay(r)
  <2>1. /\ evs' = evs /\ rowv' = rowv /\ op' = op /\ consumed' = consumed /\ eventSum' = eventSum
    BY <1>4 DEF Replay, work, committed, call
  <2>2. pc'[r] \in {"begin", "commit"}
    BY <1>0, <1>4 DEF CallOK, Replay, AfterItem
  <2> QED
    BY <1>0, <1>b, <1>d, <2>1, <2>2 DEF CapOK, FreshOK, AdmitOK, Within
<1>5. CASE Count(r)
  <2>0. PICK b \in Buckets, q \in Nat : b = BucketOf(r) /\ q = Current(r).quantity
    BY <1>0, <1>5, CurrentType DEF Count, InItem
  <2>1. /\ rowv' = [rowv EXCEPT ![r][b] = RowTotal(r, b) + q]
        /\ evs' = [evs EXCEPT ![r][b] = @ + q]
        /\ op' = op /\ cap' = cap /\ consumed' = consumed /\ eventSum' = eventSum
        /\ Current(r)' = Current(r) /\ pc[r] = "count"
        /\ ~Breaches(r, RowTotal(r, b) + q)
    BY <1>5, <2>0 DEF Count, committed, call, Current
  <2>2. pc'[r] = "notify"
    BY <1>0, <1>5 DEF CallOK, Count
  <2>3. /\ rowv'[r][b] = RowTotal(r, b) + q
        /\ \A c \in Buckets \ {b} : rowv'[r][c] = rowv[r][c] /\ evs'[r][c] = evs[r][c]
    BY <1>0, <2>1 DEF WorkOK
  <2>4. op[r] = "consume" => cap[r] \in seen[b[1]] /\ (cap[r] = Unlimited \/ rowv'[r][b] <= cap[r])
    <3>1. b[1] = Current(r).metric
      BY <2>0 DEF BucketOf
    <3>2. cap[r] \in Nat \cup {Unlimited}
      BY <1>0, LimitAssumption DEF CallOK
    <3>3. RowTotal(r, b) \in Nat
      BY <1>0 DEF RowTotal, Holds, TablesOK, WorkOK
    <3> QED
      BY <1>0, <2>1, <2>3, <3>1, <3>2, <3>3 DEF CapOK, Breaches
  <2>5. AdmitOK(r)'
    BY <1>0, <1>b, <2>1, <2>3, <2>4 DEF AdmitOK, Within
  <2>6. CapOK(r)' /\ FreshOK(r)'
    BY <1>0, <1>b, <2>1, <2>2 DEF CapOK, FreshOK
  <2> QED
    BY <1>d, <2>1, <2>5, <2>6
<1>6. CASE Notify(r)
  <2>1. /\ evs' = evs /\ op' = op /\ consumed' = consumed /\ eventSum' = eventSum
    BY <1>6 DEF Notify, committed, call
  <2>2. pc'[r] \in {"begin", "commit"}
    BY <1>0, <1>6 DEF CallOK, Notify, AfterItem
  <2>3. PICK n \in Buckets : n = NoticeBucket(r)
    BY <1>0, <1>6, CurrentType DEF Notify, InItem
  <2>4. rowv' = rowv \/ rowv' = [rowv EXCEPT ![r][n] = RowTotal(r, n)]
    BY <1>6, <2>3 DEF Notify
  <2>5. \A b \in Buckets : evs[r][b] > 0 => rowv'[r][b] = rowv[r][b]
    BY <1>0, <2>4 DEF RowsOK, RowOK, RowTotal, WorkOK
  <2>6. AdmitOK(r)'
    BY <1>0, <1>b, <2>1, <2>5 DEF AdmitOK, Within
  <2> QED
    BY <1>d, <2>1, <2>2, <2>6 DEF CapOK, FreshOK
<1>7. CASE Commit(r)
  <2>1. /\ \A b \in Buckets : evs'[r][b] = 0
        /\ pc'[r] = "done"
    BY <1>0, <1>7 DEF Commit, WorkOK, CallOK, NoCounts
  <2>2. CapOK(r)' /\ FreshOK(r)' /\ AdmitOK(r)'
    BY <2>1 DEF CapOK, FreshOK, AdmitOK
  <2>3. ASSUME NEW b \in Buckets
        PROVE  consumed'[b] <= eventSum'[b] /\ Within(b[1], consumed[b])' 
    <3>1. /\ consumed[b] \in Nat /\ eventSum[b] \in Nat /\ evs[r][b] \in Nat
          /\ consumed[b] <= eventSum[b] /\ counters[b] = eventSum[b] /\ Within(b[1], consumed[b])
      BY <1>0 DEF TablesOK, WorkOK, PartOK, CountersMatchEvents, NoOvershoot
    <3>2. eventSum'[b] = eventSum[b] + evs[r][b]
      BY <1>0, <1>7 DEF Commit, Sum, TablesOK
    <3>3. CASE op[r] = "consume" /\ evs[r][b] > 0
      <4>1. consumed'[b] = consumed[b] + evs[r][b]
        BY <1>0, <1>7, <3>3 DEF Commit, Sum, TablesOK
      <4>2. rowv[r][b] = eventSum[b] + evs[r][b] /\ Within(b[1], rowv[r][b])
        BY <1>0, <3>1, <3>3 DEF RowsOK, RowOK, AdmitOK
      <4>3. PICK l \in seen[b[1]] : l = Unlimited \/ rowv[r][b] <= l
        BY <4>2 DEF Within
      <4>4. l \in Nat \cup {Unlimited}
        BY <1>0, LimitAssumption DEF TablesOK, Buckets
      <4>5. l = Unlimited \/ consumed'[b] <= l
        BY <3>1, <4>1, <4>2, <4>3, <4>4 DEF Unlimited
      <4> QED
        BY <1>b, <3>1, <3>2, <4>1, <4>5 DEF Within
    <3>4. CASE ~(op[r] = "consume" /\ evs[r][b] > 0)
      <4>1. consumed'[b] = consumed[b]
        BY <1>0, <1>7, <3>1, <3>4 DEF Commit, Sum, TablesOK
      <4> QED
        BY <1>b, <3>1, <3>2, <4>1 DEF Within
    <3> QED
      BY <3>3, <3>4
  <2> QED
    BY <2>2, <2>3 DEF PartOK, NoOvershoot
<1> QED
  BY <1>1, <1>2, <1>3, <1>4, <1>5, <1>6, <1>7 DEF Step, ReplayGone, Breach

LEMMA InitLimit == Init => LimitInv
<1> SUFFICES ASSUME Init PROVE LimitParts
  BY InitDrift DEF LimitInv
<1>1. \A r \in Requests : CapOK(r) /\ FreshOK(r) /\ AdmitOK(r)
  BY DEF Init, CapOK, FreshOK, AdmitOK, NoCounts
<1>2. SeenOK /\ PartOK
  BY DEF Init, SeenOK, PartOK, NoCounts
<1>3. ASSUME NEW b \in Buckets PROVE Within(b[1], consumed[b])
  <2>1. b[1] \in Metrics /\ consumed[b] = 0 /\ limit[b[1]] \in seen[b[1]]
    BY DEF Init, NoCounts, Buckets
  <2>2. limit[b[1]] \in Nat \cup {Unlimited}
    BY <2>1, LimitAssumption DEF Init
  <2> QED
    BY <2>1, <2>2 DEF Within
<1> QED
  BY <1>1, <1>2, <1>3 DEF LimitParts, NoOvershoot

LEMMA NextLimit == LimitInv /\ [Next]_vars => LimitInv'
<1> SUFFICES ASSUME LimitInv, [Next]_vars PROVE LimitParts'
  BY NextDrift DEF LimitInv
<1>1. CASE \E r \in Requests : Step(r)
  BY <1>1, LimitStep
<1>2. CASE \E r \in Requests : Fail(r) \/ DeadlockAbort(r)
  BY <1>2, LimitRollBack DEF Fail, DeadlockAbort
<1>3. CASE Environment \/ UNCHANGED vars
  <2>0. TablesOK /\ TypeInv /\ LimitParts
    BY DEF LimitInv, DriftInv, TypeInv, TypeOK
  <2>1. UNCHANGED <<pc, op, batch, pos, cap, rowv, evs, consumed, eventSum>>
    BY <1>3 DEF Environment, ChangeLimit, NextMonth, PurgeKey, vars, committed, work, call
  <2>2. \A m \in Metrics : seen[m] \subseteq seen'[m] /\ limit'[m] \in seen'[m]
    <3>1. CASE \E m \in Metrics, l \in LimitValues : ChangeLimit(m, l)
      <4>1. PICK m \in Metrics, l \in LimitValues : ChangeLimit(m, l)
        BY <3>1
      <4>2. /\ limit' = [limit EXCEPT ![m] = l] /\ limit \in [Metrics -> LimitValues]
            /\ seen' = [seen EXCEPT ![m] = @ \cup {l}] /\ seen \in [Metrics -> SUBSET LimitValues]
        BY <2>0, <4>1 DEF ChangeLimit, TablesOK
      <4> QED
        BY <2>0, <4>2 DEF LimitParts, SeenOK
    <3>2. CASE seen' = seen /\ limit' = limit
      BY <2>0, <3>2 DEF LimitParts, SeenOK
    <3> QED
      BY <1>3, <3>1, <3>2 DEF Environment, NextMonth, PurgeKey, vars, world
  <2>3. \A x : \A b \in Buckets : Within(b[1], x) => \E l \in seen'[b[1]] : l = Unlimited \/ x <= l
    BY <2>2 DEF Within, Buckets
  <2>4. NoOvershoot' /\ PartOK' /\ SeenOK'
    BY <2>0, <2>1, <2>2, <2>3 DEF LimitParts, NoOvershoot, PartOK, SeenOK, Within
  <2>5. ASSUME NEW r \in Requests PROVE CapOK(r)' /\ FreshOK(r)' /\ AdmitOK(r)'
    <3>1. CapOK(r) /\ FreshOK(r) /\ AdmitOK(r)
      BY <2>0 DEF LimitParts
    <3>2. CapOK(r)'
      <4>1. InItem(r) => Current(r).metric \in Metrics
        BY <2>0, CurrentType
      <4>2. Current(r)' = Current(r)
        BY <2>1 DEF Current
      <4> QED
        BY <2>1, <2>2, <3>1, <4>1, <4>2 DEF CapOK, InItem
    <3>3. AdmitOK(r)'
      BY <2>1, <2>3, <3>1 DEF AdmitOK, Within
    <3> QED
      BY <2>1, <3>1, <3>2, <3>3 DEF FreshOK
  <2> QED
    BY <2>4, <2>5 DEF LimitParts
<1> QED
  BY <1>1, <1>2, <1>3 DEF Next

\* Concurrent consumers never take more out of a month than some limit that was
\* in effect allows.
THEOREM LimitHolds == Spec => []NoOvershoot
<1>1. LimitInv => NoOvershoot
  BY DEF LimitInv, LimitParts
<1> QED
  BY InitLimit, NextLimit, <1>1, PTL DEF Spec

----------------------------------------------------------------------------
(* Idempotency.  A reservation is exclusive, it excludes a committed row,  *)
(* and the transaction that holds it has written exactly one event for it  *)
(* once it is past the counting of that event.                             *)

Counting(r, k) == pc[r] = "count" /\ Current(r).key = k

KeyOK(r, k) ==
    /\ keyrows[r][k] # NoRow => ledger[k] = NoRow
    /\ kevs[r][k] = IF keyrows[r][k] = NoRow \/ Counting(r, k) THEN 0 ELSE 1

ReservedOnce ==
    \A k \in Keys : \A r, s \in Requests :
        keyrows[r][k] # NoRow /\ keyrows[s][k] # NoRow => r = s

KeyParts == /\ \A r \in Requests : \A k \in Keys : KeyOK(r, k)
            /\ ReservedOnce /\ KeyCountedOnce

KeyInv == TypeInv /\ KeyParts

\* A step of r that keeps the ledger does not disturb the keys of the others.
LEMMA KeyOthers ==
    ASSUME KeyInv, NEW r \in Requests, Frame(r), ledger' = ledger
    PROVE  \A s \in Requests \ {r} : \A k \in Keys : KeyOK(s, k)'
BY DEF KeyInv, KeyParts, Frame, KeyOK, Counting, Current

LEMMA KeyRollBack ==
    ASSUME KeyInv, NEW r \in Requests, RollBack(r)
    PROVE  KeyParts'
<1>1. Frame(r) /\ WorkOK
  BY RollBackFrame DEF KeyInv, TypeInv, TypeOK
<1>2. \A k \in Keys : kevs'[r][k] = 0 /\ keyrows'[r][k] = NoRow
  BY <1>1 DEF RollBack, WorkOK, NoKeys
<1>3. ledger' = ledger /\ keyEvents' = keyEvents /\ purged' = purged
  BY DEF RollBack, committed, world
<1>4. \A k \in Keys : KeyOK(r, k)'
  BY <1>2 DEF KeyOK
<1>5. ReservedOnce'
  BY <1>1, <1>2 DEF KeyInv, KeyParts, ReservedOnce, Frame
<1>6. KeyCountedOnce'
  BY <1>3 DEF KeyInv, KeyParts, KeyCountedOnce
<1> QED
  BY <1>1, <1>3, <1>4, <1>5, <1>6, KeyOthers DEF KeyParts

LEMMA KeyStep ==
    ASSUME KeyInv, NEW r \in Requests, Step(r)
    PROVE  KeyParts'
<1>0. /\ TypeInv /\ TablesOK /\ CallOK /\ WorkOK /\ PosOK(r) /\ ReservedOnce /\ KeyCountedOnce
      /\ \A k \in Keys : KeyOK(r, k)
  BY DEF KeyInv, KeyParts, TypeInv, TypeOK, PosInv
<1>a. Frame(r)
  BY <1>0, StepFrame
<1>b. keyrows' = keyrows => ReservedOnce'
  BY <1>0 DEF ReservedOnce
<1>c. ledger' = ledger /\ keyEvents' = keyEvents /\ purged' = purged => KeyCountedOnce'
  BY <1>0 DEF KeyCountedOnce
<1> SUFFICES ASSUME ~RollBack(r) PROVE KeyParts'
  BY KeyRollBack
<1>1. CASE Start(r) \/ Begin(r) \/ Replay(r)
  <2>1. /\ keyrows' = keyrows /\ kevs' = kevs /\ ledger' = ledger
        /\ keyEvents' = keyEvents /\ purged' = purged
    BY <1>1 DEF Start, Begin, Replay, work, committed, world
  <2>2. ASSUME NEW k \in Keys PROVE ~Counting(r, k) /\ ~Counting(r, k)'
    <3>1. CASE Start(r) \/ Replay(r)
      BY <1>0, <3>1 DEF Start, Replay, AfterItem, Counting, CallOK
    <3>2. CASE Begin(r)
      <4>1. Current(r)' = Current(r)
        BY <3>2 DEF Begin, call, Current
      <4> QED
        BY <1>0, <3>2, <4>1, KeyAssumption DEF Begin, Counting, CallOK
    <3> QED
      BY <1>1, <3>1, <3>2
  <2>3. \A k \in Keys : KeyOK(r, k)'
    BY <1>0, <2>1, <2>2 DEF KeyOK
  <2> QED
    BY <1>a, <1>b, <1>c, <2>1, <2>3, KeyOthers DEF KeyParts
<1>2. CASE Reserve(r)
  <2>0. PICK k \in Keys : k = Current(r).key
    BY <1>0, <1>2, CurrentType DEF Reserve, InItem, PosOK
  <2>1. /\ kevs' = kevs /\ ledger' = ledger /\ keyEvents' = keyEvents /\ purged' = purged
        /\ Current(r)' = Current(r) /\ pc[r] = "reserve" /\ FreeKey(r, k)
    BY <1>2, <2>0 DEF Reserve, committed, world, call, Current
  <2>2. CASE KeyView(r, k) = NoRow
    <3>1. keyrows[r][k] = NoRow /\ ledger[k] = NoRow
      BY <2>2 DEF KeyView
    <3>2. pc'[r] = "count"
      BY <1>0, <1>2, <2>0, <2>2 DEF Reserve, CallOK
    <3>3. \A j \in Keys \ {k} : keyrows'[r][j] = keyrows[r][j]
      BY <1>0, <1>2, <2>0, <2>2 DEF Reserve, WorkOK
    <3>4. KeyOK(r, k)'
      BY <1>0, <2>0, <2>1, <3>1, <3>2 DEF KeyOK, Counting
    <3>5. \A j \in Keys \ {k} : KeyOK(r, j)'
      BY <1>0, <2>0, <2>1, <3>2, <3>3 DEF KeyOK, Counting
    <3>6. ReservedOnce'
      BY <1>0, <1>a, <2>1, <3>3 DEF ReservedOnce, FreeKey, Frame
    <3> QED
      BY <1>a, <1>c, <2>1, <3>4, <3>5, <3>6, KeyOthers DEF KeyParts
  <2>3. CASE KeyView(r, k) # NoRow
    <3>1. keyrows' = keyrows /\ pc'[r] = "replay"
      BY <1>0, <1>2, <2>0, <2>3 DEF Reserve, CallOK
    <3>2. \A j \in Keys : KeyOK(r, j)'
      BY <1>0, <2>1, <3>1 DEF KeyOK, Counting
    <3> QED
      BY <1>a, <1>b, <1>c, <2>1, <3>1, <3>2, KeyOthers DEF KeyParts
  <2> QED
    BY <2>2, <2>3
<1>3. CASE Count(r)
  <2>1. /\ keyrows' = keyrows /\ ledger' = ledger /\ keyEvents' = keyEvents /\ purged' = purged
        /\ pc[r] = "count"
    BY <1>3 DEF Count, committed, world
  <2>2. pc'[r] = "notify"
    BY <1>0, <1>3 DEF Count, CallOK
  <2>3. \A j \in Keys : kevs'[r][j] = kevs[r][j] + IF j = Current(r).key THEN 1 ELSE 0
    BY <1>0, <1>3 DEF Count, WorkOK
  <2>4. \A j \in Keys : KeyOK(r, j)'
    BY <1>0, <2>1, <2>2, <2>3, KeyAssumption DEF KeyOK, Counting, PosOK
  <2> QED
    BY <1>a, <1>b, <1>c, <2>1, <2>4, KeyOthers DEF KeyParts
<1>4. CASE Notify(r)
  <2>1. /\ kevs' = kevs /\ ledger' = ledger /\ keyEvents' = keyEvents /\ purged' = purged
        /\ pc[r] = "notify" /\ keyrows' = Settled(r)
    BY <1>4 DEF Notify, committed, world
  <2>2. pc'[r] \in {"begin", "commit"}
    BY <1>0, <1>4 DEF Notify, AfterItem, CallOK
  <2>3. ASSUME NEW j \in Keys PROVE keyrows'[r][j] = NoRow <=> keyrows[r][j] = NoRow
    <3>1. CASE j # Current(r).key
      BY <1>0, <2>1, <3>1 DEF Settled, WorkOK
    <3>2. CASE j = Current(r).key
      <4>1. keyrows[r][j] \in KeyRow /\ total[r] \in Nat
        BY <1>0, <2>1, <3>2, KeyAssumption DEF WorkOK, PosOK, CallOK
      <4>2. WithTotal(keyrows[r][j], total[r]) \in KeyRow
        BY <4>1 DEF KeyRow, WithTotal
      <4>3. keyrows'[r][j] = WithTotal(keyrows[r][j], total[r])
        BY <1>0, <2>1, <3>2, KeyAssumption DEF Settled, WorkOK
      <4> QED
        BY <4>1, <4>2, <4>3, KeyAssumption
    <3> QED
      BY <3>1, <3>2
  <2>4. \A j \in Keys : KeyOK(r, j)'
    BY <1>0, <2>1, <2>2, <2>3 DEF KeyOK, Counting
  <2>5. ReservedOnce'
    BY <1>0, <1>a, <2>3 DEF ReservedOnce, Frame
  <2> QED
    BY <1>a, <1>c, <2>1, <2>4, <2>5, KeyOthers DEF KeyParts
<1>5. CASE Commit(r)
  <2>1. \A k \in Keys : kevs'[r][k] = 0 /\ keyrows'[r][k] = NoRow
    BY <1>0, <1>5 DEF Commit, WorkOK, NoKeys
  <2>2. /\ ledger' = [k \in Keys |-> KeyView(r, k)] /\ keyEvents' = Sum(keyEvents, kevs[r])
        /\ purged' = purged /\ pc[r] = "commit"
    BY <1>5 DEF Commit, world
  <2>3. \A k \in Keys : KeyOK(r, k)'
    BY <2>1 DEF KeyOK
  <2>4. ReservedOnce'
    BY <1>0, <1>a, <2>1 DEF ReservedOnce, Frame
  <2>5. KeyCountedOnce'
    BY <1>0, <2>2 DEF KeyCountedOnce, KeyOK, Counting, KeyView, Sum, TablesOK, WorkOK
  <2>6. ASSUME NEW s \in Requests \ {r}, NEW k \in Keys PROVE KeyOK(s, k)'
    <3>1. KeyOK(s, k)
      BY DEF KeyInv, KeyParts
    <3>2. keyrows[s][k] # NoRow => ledger'[k] = ledger[k]
      BY <1>0, <2>2 DEF ReservedOnce, KeyView
    <3> QED
      BY <1>a, <3>1, <3>2 DEF Frame, KeyOK, Counting, Current
  <2> QED
    BY <2>3, <2>4, <2>5, <2>6 DEF KeyParts
<1> QED
  BY <1>1, <1>2, <1>3, <1>4, <1>5 DEF Step, ReplayGone, Breach

LEMMA InitKey == Init => KeyInv
<1> SUFFICES ASSUME Init PROVE KeyParts
  BY InitType DEF KeyInv
<1>1. \A r \in Requests : \A k \in Keys : keyrows[r][k] = NoRow /\ kevs[r][k] = 0
  BY DEF Init, NoKeys
<1>2. KeyCountedOnce
  BY DEF Init, NoKeys, KeyCountedOnce
<1> QED
  BY <1>1, <1>2 DEF KeyParts, KeyOK, ReservedOnce

LEMMA NextKey == KeyInv /\ [Next]_vars => KeyInv'
<1> SUFFICES ASSUME KeyInv, [Next]_vars PROVE KeyParts'
  BY NextType DEF KeyInv
<1>1. CASE \E r \in Requests : Step(r)
  BY <1>1, KeyStep
<1>2. CASE \E r \in Requests : Fail(r) \/ DeadlockAbort(r)
  BY <1>2, KeyRollBack DEF Fail, DeadlockAbort
<1>3. CASE Environment \/ UNCHANGED vars
  <2>0. TablesOK /\ KeyParts
    BY DEF KeyInv, TypeInv, TypeOK
  <2>1. UNCHANGED <<pc, batch, pos, keyrows, kevs, keyEvents>>
    BY <1>3 DEF Environment, ChangeLimit, NextMonth, PurgeKey, vars, committed, work, call
  <2>2. \/ ledger' = ledger /\ purged' = purged
        \/ \E k \in Keys : /\ ledger[k] # NoRow
                           /\ ledger' = [ledger EXCEPT ![k] = NoRow]
                           /\ purged' = [purged EXCEPT ![k] = @ + 1]
    BY <1>3 DEF Environment, ChangeLimit, NextMonth, PurgeKey, vars, committed, world
  <2>3. KeyCountedOnce'
    <3>1. CASE ledger' = ledger /\ purged' = purged
      BY <2>0, <2>1, <3>1 DEF KeyParts, KeyCountedOnce
    <3>2. CASE \E k \in Keys : /\ ledger[k] # NoRow
                               /\ ledger' = [ledger EXCEPT ![k] = NoRow]
                               /\ purged' = [purged EXCEPT ![k] = @ + 1]
      <4>1. PICK k \in Keys : /\ ledger[k] # NoRow
                              /\ ledger' = [ledger EXCEPT ![k] = NoRow]
                              /\ purged' = [purged EXCEPT ![k] = @ + 1]
        BY <3>2
      <4>2. /\ ledger'[k] = NoRow /\ purged'[k] = purged[k] + 1 /\ purged[k] \in Nat
            /\ \A j \in Keys \ {k} : ledger'[j] = ledger[j] /\ purged'[j] = purged[j]
        BY <2>0, <4>1 DEF TablesOK
      <4> QED
        BY <2>0, <2>1, <4>1, <4>2 DEF KeyParts, KeyCountedOnce
    <3> QED
      BY <2>2, <3>1, <3>2
  <2>4. \A k \in Keys : ledger[k] = NoRow => ledger'[k] = NoRow
    BY <2>0, <2>2 DEF TablesOK
  <2>5. \A r \in Requests : \A k \in Keys : KeyOK(r, k)'
    BY <2>0, <2>1, <2>4 DEF KeyParts, KeyOK, Counting, Current
  <2> QED
    BY <2>0, <2>1, <2>3, <2>5 DEF KeyParts, ReservedOnce
<1> QED
  BY <1>1, <1>2, <1>3 DEF Next

\* However often a key is retried, and however the retries overlap, one event is
\* counted for each reservation the ledger holds or held.
THEOREM Idempotent == Spec => []KeyCountedOnce
<1>1. KeyInv => KeyCountedOnce
  BY DEF KeyInv, KeyParts
<1> QED
  BY InitKey, NextKey, <1>1, PTL DEF Spec

----------------------------------------------------------------------------
(* What the rollup job leaves alone.  A notice is flagged under the row    *)
(* lock, in the transaction that appends it; a reservation is settled      *)
(* before its transaction commits.                                         *)

SoftOK(r, b) ==
    /\ soft[r][b] = IF b \in flags[r] THEN 1 ELSE 0
    /\ b \in flags[r] => Holds(r, b) /\ b \notin notified

SentOK == \A b \in Buckets : softSent[b] = IF b \in notified THEN 1 ELSE 0

SoftParts == /\ \A r \in Requests : \A b \in Buckets : SoftOK(r, b)
             /\ LocksOK /\ SentOK

\* The row of request r for key k is a placeholder only until its event is settled.
SettledOK(r, k) ==
    keyrows[r][k] # NoRow =>
        IF pc[r] \in {"count", "notify"} /\ Current(r).key = k
        THEN /\ keyrows[r][k].quantity = Current(r).quantity
             /\ pc[r] = "notify" => total[r] >= Current(r).quantity
        ELSE keyrows[r][k].total >= keyrows[r][k].quantity

RecordParts == /\ \A r \in Requests : \A k \in Keys : SettledOK(r, k)
               /\ ReplayableTotals

SnapshotOK ==
    snapshot # NoSnapshot => /\ DOMAIN snapshot \subseteq Buckets
                             /\ \A b \in DOMAIN snapshot : snapshot[b] \in Nat

JobInv == TypeInv /\ SnapshotOK /\ KeyParts /\ SoftParts /\ RecordParts

\* A transaction that ends has no row, no flag and no notice left.
LEMMA SoftClean ==
    ASSUME TypeInv, NEW r \in Requests, RollBack(r) \/ Commit(r)
    PROVE  \A b \in Buckets : rowv'[r][b] = Free /\ flags'[r] = {} /\ soft'[r][b] = 0
<1>1. WorkOK
  BY DEF TypeInv, TypeOK
<1> QED
  BY <1>1 DEF RollBack, Commit, WorkOK, NoRows, NoCounts

\* A step that keeps the notified buckets disturbs no other request's flags.
LEMMA SoftOthers ==
    ASSUME SoftParts, NEW r \in Requests, Frame(r), notified' = notified
    PROVE  \A s \in Requests \ {r} : \A b \in Buckets : SoftOK(s, b)'
BY DEF SoftParts, Frame, SoftOK, Holds

LEMMA SoftRollBack ==
    ASSUME TypeInv, SoftParts, NEW r \in Requests, RollBack(r)
    PROVE  SoftParts'
<1>1. Frame(r) /\ \A b \in Buckets : rowv'[r][b] = Free /\ flags'[r] = {} /\ soft'[r][b] = 0
  BY RollBackFrame, SoftClean
<1>2. notified' = notified /\ softSent' = softSent
  BY DEF RollBack, committed
<1>3. SentOK'
  BY <1>2 DEF SoftParts, SentOK
<1>4. LocksOK'
  BY <1>1 DEF SoftParts, LocksOK, Holds, Frame
<1>5. \A b \in Buckets : SoftOK(r, b)'
  BY <1>1 DEF SoftOK
<1> QED
  BY <1>1, <1>2, <1>3, <1>4, <1>5, SoftOthers DEF SoftParts

LEMMA SoftStep ==
    ASSUME TypeInv, SoftParts, NEW r \in Requests, Step(r)
    PROVE  SoftParts'
<1>0. /\ TablesOK /\ WorkOK /\ LocksOK /\ SentOK
      /\ \A b \in Buckets : SoftOK(r, b)
  BY DEF SoftParts, TypeInv, TypeOK
<1>a. Frame(r)
  BY StepFrame
<1>b. notified' = notified /\ softSent' = softSent => SentOK'
  BY <1>0 DEF SentOK
<1> SUFFICES ASSUME ~RollBack(r) PROVE SoftParts'
  BY SoftRollBack
<1>1. CASE Start(r) \/ Begin(r) \/ Reserve(r) \/ Replay(r)
  <2>1. rowv' = rowv /\ flags' = flags /\ soft' = soft /\ notified' = notified /\ softSent' = softSent
    BY <1>1 DEF Start, Begin, Reserve, Replay, committed, work
  <2>2. LocksOK'
    BY <1>0, <2>1 DEF LocksOK, Holds
  <2> QED
    BY <1>b, <2>1, <2>2 DEF SoftParts, SoftOK, Holds
<1>2. CASE Count(r)
  <2>1. PICK b \in Buckets, q \in Nat : b = BucketOf(r) /\ q = Current(r).quantity
    BY <1>2, CurrentType DEF Count, InItem
  <2>2. /\ rowv' = [rowv EXCEPT ![r][b] = RowTotal(r, b) + q] /\ FreeRow(r, b)
        /\ flags' = flags /\ soft' = soft /\ notified' = notified /\ softSent' = softSent
    BY <1>2, <2>1 DEF Count, committed
  <2>3. RowTotal(r, b) \in Nat
    BY <1>0 DEF RowTotal, Holds, TablesOK, WorkOK
  <2>4. /\ rowv'[r][b] # Free
        /\ \A c \in Buckets \ {b} : rowv'[r][c] = rowv[r][c]
    BY <1>0, <2>2, <2>3 DEF WorkOK, Free
  <2>5. LocksOK'
    BY <1>0, <1>a, <2>2, <2>4 DEF LocksOK, Holds, FreeRow, Frame
  <2>6. \A c \in Buckets : SoftOK(r, c)'
    BY <1>0, <2>2, <2>4 DEF SoftOK, Holds
  <2> QED
    BY <1>a, <1>b, <2>2, <2>5, <2>6, SoftOthers DEF SoftParts
<1>3. CASE Notify(r)
  <2>0. notified' = notified /\ softSent' = softSent
    BY <1>3 DEF Notify, committed
  <2>1. PICK n \in Buckets : n = NoticeBucket(r)
    BY <1>3, CurrentType DEF Notify, InItem
  <2>2. CASE ~MustNotify(r)
    <3>1. rowv' = rowv /\ flags' = flags /\ soft' = soft
      BY <1>3, <2>2 DEF Notify
    <3>2. LocksOK'
      BY <1>0, <3>1 DEF LocksOK, Holds
    <3> QED
      BY <1>b, <2>0, <3>1, <3>2 DEF SoftParts, SoftOK, Holds
  <2>3. CASE MustNotify(r)
    <3>1. /\ rowv' = [rowv EXCEPT ![r][n] = RowTotal(r, n)] /\ FreeRow(r, n)
          /\ flags' = [flags EXCEPT ![r] = @ \cup {n}]
          /\ soft' = [soft EXCEPT ![r][n] = @ + 1]
      BY <1>3, <2>1, <2>3 DEF Notify
    <3>2. n \notin notified /\ n \notin flags[r]
      BY <2>1, <2>3 DEF MustNotify, Unnotified
    <3>3. RowTotal(r, n) \in Nat
      BY <1>0 DEF RowTotal, Holds, TablesOK, WorkOK
    <3>4. /\ rowv'[r][n] # Free /\ flags'[r] = flags[r] \cup {n} /\ soft'[r][n] = soft[r][n] + 1
          /\ \A c \in Buckets \ {n} : rowv'[r][c] = rowv[r][c] /\ soft'[r][c] = soft[r][c]
      BY <1>0, <3>1, <3>3 DEF WorkOK, Free
    <3>5. LocksOK'
      BY <1>0, <1>a, <3>1, <3>4 DEF LocksOK, Holds, FreeRow, Frame
    <3>6. SoftOK(r, n)'
      BY <1>0, <2>0, <3>2, <3>4 DEF SoftOK, Holds
    <3>7. \A c \in Buckets \ {n} : SoftOK(r, c)'
      BY <1>0, <2>0, <3>4 DEF SoftOK, Holds
    <3> QED
      BY <1>a, <1>b, <2>0, <3>5, <3>6, <3>7, SoftOthers DEF SoftParts
  <2> QED
    BY <2>2, <2>3
<1>4. CASE Commit(r)
  <2>1. \A b \in Buckets : rowv'[r][b] = Free /\ flags'[r] = {} /\ soft'[r][b] = 0
    BY <1>4, SoftClean
  <2>2. notified' = notified \cup flags[r] /\ softSent' = Sum(softSent, soft[r])
    BY <1>4 DEF Commit
  <2>3. ASSUME NEW b \in Buckets PROVE softSent'[b] = IF b \in notified' THEN 1 ELSE 0
    <3>1. softSent'[b] = softSent[b] + soft[r][b]
      BY <1>0, <2>2 DEF Sum, TablesOK
    <3>2. softSent[b] = (IF b \in notified THEN 1 ELSE 0) /\ SoftOK(r, b)
      BY <1>0 DEF SentOK
    <3> QED
      BY <2>2, <3>1, <3>2 DEF SoftOK
  <2>4. LocksOK'
    BY <1>0, <1>a, <2>1 DEF LocksOK, Holds, Frame
  <2>5. ASSUME NEW s \in Requests \ {r}, NEW b \in Buckets PROVE SoftOK(s, b)'
    <3>1. SoftOK(s, b) /\ SoftOK(r, b)
      BY DEF SoftParts
    <3>2. b \in flags[s] => b \notin flags[r]
      BY <1>0, <3>1 DEF SoftOK, LocksOK
    <3> QED
      BY <1>a, <2>2, <3>1, <3>2 DEF SoftOK, Holds, Frame
  <2>6. \A b \in Buckets : SoftOK(r, b)'
    BY <2>1 DEF SoftOK
  <2> QED
    BY <2>3, <2>4, <2>5, <2>6 DEF SoftParts, SentOK
<1> QED
  BY <1>1, <1>2, <1>3, <1>4 DEF Step, ReplayGone, Breach

\* Neither the environment nor the job writes a flag, a notice or a version of a row.
softVars == <<rowv, flags, soft, notified, softSent>>

LEMMA SoftUnchanged ==
    ASSUME SoftParts, UNCHANGED softVars
    PROVE  SoftParts'
<1>1. LocksOK'
  BY DEF SoftParts, LocksOK, Holds, softVars
<1>2. SentOK'
  BY DEF SoftParts, SentOK, softVars
<1> QED
  BY <1>1, <1>2 DEF SoftParts, SoftOK, Holds, softVars

LEMMA SoftNext ==
    ASSUME TypeInv, SoftParts, [RollupNext]_vars
    PROVE  SoftParts'
<1>1. CASE \E r \in Requests : Step(r)
  BY <1>1, SoftStep
<1>2. CASE \E r \in Requests : Fail(r) \/ DeadlockAbort(r)
  BY <1>2, SoftRollBack DEF Fail, DeadlockAbort
<1>3. CASE Environment \/ RollupRead \/ RollupWrite \/ UNCHANGED vars
  <2>1. UNCHANGED softVars
    BY <1>3 DEF Environment, ChangeLimit, NextMonth, PurgeKey, RollupRead, RollupWrite, vars,
                committed, work, softVars
  <2> QED
    BY <2>1, SoftUnchanged
<1> QED
  BY <1>1, <1>2, <1>3 DEF RollupNext, Next

LEMMA SoftInit == Init => SoftParts
<1> SUFFICES ASSUME Init PROVE SoftParts
  OBVIOUS
<1>1. \A r \in Requests : \A b \in Buckets : rowv[r][b] = Free /\ flags[r] = {} /\ soft[r][b] = 0
  BY DEF Init, NoRows, NoCounts
<1>2. SentOK
  BY DEF Init, NoCounts, SentOK
<1> QED
  BY <1>1, <1>2 DEF SoftParts, SoftOK, LocksOK, Holds

LEMMA RecordOthers ==
    ASSUME RecordParts, NEW r \in Requests, Frame(r)
    PROVE  \A s \in Requests \ {r} : \A k \in Keys : SettledOK(s, k)'
BY DEF RecordParts, Frame, SettledOK, Current

LEMMA RecordRollBack ==
    ASSUME TypeInv, RecordParts, NEW r \in Requests, RollBack(r)
    PROVE  RecordParts'
<1>1. Frame(r) /\ WorkOK
  BY RollBackFrame DEF TypeInv, TypeOK
<1>2. \A k \in Keys : keyrows'[r][k] = NoRow
  BY <1>1 DEF RollBack, WorkOK, NoKeys
<1>3. ReplayableTotals'
  BY DEF RollBack, committed, RecordParts, ReplayableTotals
<1> QED
  BY <1>1, <1>2, <1>3, RecordOthers DEF RecordParts, SettledOK

LEMMA RecordStep ==
    ASSUME TypeInv, RecordParts, NEW r \in Requests, Step(r)
    PROVE  RecordParts'
<1>0. /\ TablesOK /\ CallOK /\ WorkOK /\ PosOK(r) /\ ReplayableTotals
      /\ \A k \in Keys : SettledOK(r, k)
  BY DEF RecordParts, TypeInv, TypeOK, PosInv
<1>a. Frame(r)
  BY StepFrame
<1>b. ledger' = ledger => ReplayableTotals'
  BY <1>0 DEF ReplayableTotals
<1> SUFFICES ASSUME ~RollBack(r) PROVE ReplayableTotals' /\ \A k \in Keys : SettledOK(r, k)'
  BY <1>a, RecordRollBack, RecordOthers DEF RecordParts
<1>1. CASE Start(r) \/ Replay(r)
  <2>1. keyrows' = keyrows /\ ledger' = ledger /\ pc[r] \notin {"count", "notify"}
    BY <1>1 DEF Start, Replay, work, committed
  <2>2. pc'[r] \in {"begin", "commit"}
    BY <1>0, <1>1 DEF Start, Replay, AfterItem, CallOK
  <2> QED
    BY <1>0, <1>b, <2>1, <2>2 DEF SettledOK
<1>2. CASE Begin(r)
  <2>1. /\ keyrows' = keyrows /\ ledger' = ledger /\ pc[r] = "begin" /\ Current(r)' = Current(r)
    BY <1>2 DEF Begin, work, committed, call, Current
  <2>2. pc'[r] = "count" => Current(r).key = NoKey
    BY <1>0, <1>2 DEF Begin, CallOK
  <2>3. pc'[r] # "notify"
    BY <1>0, <1>2 DEF Begin, CallOK
  <2> QED
    BY <1>0, <1>b, <2>1, <2>2, <2>3, KeyAssumption DEF SettledOK
<1>3. CASE Reserve(r)
  <2>0. PICK k \in Keys : k = Current(r).key
    BY <1>0, <1>3, CurrentType DEF Reserve, InItem, PosOK
  <2>1. ledger' = ledger /\ Current(r)' = Current(r) /\ pc[r] = "reserve"
    BY <1>3 DEF Reserve, committed, call, Current
  <2>2. CASE KeyView(r, k) = NoRow
    <3>1. pc'[r] = "count"
      BY <1>0, <1>3, <2>0, <2>2 DEF Reserve, CallOK
    <3>2. /\ keyrows'[r][k].quantity = Current(r).quantity
          /\ \A j \in Keys \ {k} : keyrows'[r][j] = keyrows[r][j]
      BY <1>0, <1>3, <2>0, <2>2 DEF Reserve, WorkOK
    <3>3. SettledOK(r, k)'
      BY <2>0, <2>1, <3>1, <3>2 DEF SettledOK
    <3>4. \A j \in Keys \ {k} : SettledOK(r, j)'
      BY <1>0, <2>0, <2>1, <3>1, <3>2 DEF SettledOK
    <3> QED
      BY <1>b, <2>1, <3>3, <3>4
  <2>3. CASE KeyView(r, k) # NoRow
    <3>1. keyrows' = keyrows /\ pc'[r] = "replay"
      BY <1>0, <1>3, <2>0, <2>3 DEF Reserve, CallOK
    <3> QED
      BY <1>0, <1>b, <2>1, <3>1 DEF SettledOK
  <2> QED
    BY <2>2, <2>3
<1>4. CASE Count(r)
  <2>0. PICK b \in Buckets, q \in Nat : b = BucketOf(r) /\ q = Current(r).quantity
    BY <1>4, CurrentType DEF Count, InItem
  <2>1. /\ keyrows' = keyrows /\ ledger' = ledger /\ pc[r] = "count" /\ Current(r)' = Current(r)
        /\ total' = [total EXCEPT ![r] = RowTotal(r, b) + q]
    BY <1>4, <2>0 DEF Count, committed, call, Current
  <2>2. pc'[r] = "notify" /\ total'[r] = RowTotal(r, b) + q
    BY <1>0, <1>4, <2>1 DEF Count, CallOK
  <2>3. RowTotal(r, b) \in Nat
    BY <1>0 DEF RowTotal, Holds, TablesOK, WorkOK
  <2>4. total'[r] >= Current(r).quantity
    BY <2>0, <2>2, <2>3
  <2> QED
    BY <1>0, <1>b, <2>1, <2>2, <2>4 DEF SettledOK
<1>5. CASE Notify(r)
  <2>1. ledger' = ledger /\ pc[r] = "notify" /\ keyrows' = Settled(r)
    BY <1>5 DEF Notify, committed
  <2>2. pc'[r] \in {"begin", "commit"}
    BY <1>0, <1>5 DEF Notify, AfterItem, CallOK
  <2>3. ASSUME NEW j \in Keys PROVE SettledOK(r, j)'
    <3>1. CASE j # Current(r).key
      <4>1. keyrows'[r][j] = keyrows[r][j]
        BY <1>0, <2>1, <3>1 DEF Settled, WorkOK
      <4> QED
        BY <1>0, <2>1, <2>2, <3>1, <4>1 DEF SettledOK
    <3>2. CASE j = Current(r).key
      <4>1. keyrows'[r][j] = WithTotal(keyrows[r][j], total[r]) /\ keyrows[r][j] # NoRow
        BY <1>0, <2>1, <3>2, KeyAssumption DEF Settled, WorkOK, PosOK
      <4>2. total[r] >= keyrows[r][j].quantity
        BY <1>0, <2>1, <3>2, <4>1 DEF SettledOK
      <4>3. keyrows'[r][j].total >= keyrows'[r][j].quantity
        BY <4>1, <4>2 DEF WithTotal
      <4> QED
        BY <2>2, <4>3 DEF SettledOK
    <3> QED
      BY <3>1, <3>2
  <2> QED
    BY <1>b, <2>1, <2>3
<1>6. CASE Commit(r)
  <2>1. \A k \in Keys : keyrows'[r][k] = NoRow
    BY <1>0, <1>6 DEF Commit, WorkOK, NoKeys
  <2>2. ledger' = [k \in Keys |-> KeyView(r, k)] /\ pc[r] = "commit"
    BY <1>6 DEF Commit
  <2>3. ReplayableTotals'
    BY <1>0, <2>2 DEF ReplayableTotals, KeyView, SettledOK
  <2> QED
    BY <2>1, <2>3 DEF SettledOK
<1> QED
  BY <1>1, <1>2, <1>3, <1>4, <1>5, <1>6 DEF Step, ReplayGone, Breach

LEMMA RecordNext ==
    ASSUME TypeInv, RecordParts, [RollupNext]_vars
    PROVE  RecordParts'
<1>1. CASE \E r \in Requests : Step(r)
  BY <1>1, RecordStep
<1>2. CASE \E r \in Requests : Fail(r) \/ DeadlockAbort(r)
  BY <1>2, RecordRollBack DEF Fail, DeadlockAbort
<1>3. CASE Environment \/ RollupRead \/ RollupWrite \/ UNCHANGED vars
  <2>1. UNCHANGED <<pc, batch, pos, keyrows, total>>
    BY <1>3 DEF Environment, ChangeLimit, NextMonth, PurgeKey, RollupRead, RollupWrite, vars,
                work, call
  <2>2. ledger' = ledger \/ \E k \in Keys : ledger' = [ledger EXCEPT ![k] = NoRow]
    BY <1>3 DEF Environment, ChangeLimit, NextMonth, PurgeKey, RollupRead, RollupWrite, vars,
                committed
  <2>3. \A k \in Keys : ledger'[k] = ledger[k] \/ ledger'[k] = NoRow
    BY <2>2 DEF TypeInv, TypeOK, TablesOK
  <2>4. ReplayableTotals'
    BY <2>3 DEF RecordParts, ReplayableTotals
  <2> QED
    BY <2>1, <2>4 DEF RecordParts, SettledOK, Current
<1> QED
  BY <1>1, <1>2, <1>3 DEF RollupNext, Next

LEMMA RecordInit == Init => RecordParts
BY DEF Init, NoKeys, RecordParts, SettledOK, ReplayableTotals

\* The job writes the sums it has read, which are numbers, and touches no key.
LEMMA JobStep ==
    ASSUME JobInv, RollupRead \/ RollupWrite
    PROVE  TypeInv' /\ SnapshotOK' /\ KeyParts'
<1>0. TablesOK /\ CallOK /\ WorkOK /\ PosInv /\ SnapshotOK /\ KeyParts
  BY DEF JobInv, TypeInv, TypeOK
<1>1. /\ UNCHANGED <<notified, eventSum, keyEvents, ledger, softSent, hardSent, month, limit, seen,
                     purged, consumed>>
      /\ UNCHANGED <<pc, op, batch, pos, now, cap, total>>
      /\ UNCHANGED <<rowv, flags, evs, keyrows, kevs, soft, hard>>
  BY DEF RollupRead, RollupWrite, committed, call, work
<1>2. counters' \in [Buckets -> Nat]
  BY <1>0 DEF RollupRead, RollupWrite, committed, TablesOK, SnapshotOK
<1>3. SnapshotOK'
  BY <1>0 DEF RollupRead, RollupWrite, TablesOK, SnapshotOK
<1>4. CallOK' /\ WorkOK'
  BY <1>0, <1>1 DEF CallOK, WorkOK
<1>5. TablesOK'
  BY <1>0, <1>1, <1>2 DEF TablesOK
<1>6. PosInv'
  BY <1>0, <1>1 DEF PosInv, PosOK, InItem, Current
<1>7. KeyParts'
  BY <1>0, <1>1 DEF KeyParts, KeyOK, ReservedOnce, KeyCountedOnce, Counting, Current
<1> QED
  BY <1>3, <1>4, <1>5, <1>6, <1>7 DEF TypeInv, TypeOK

LEMMA InitJob == Init => JobInv
<1>1. Init => SnapshotOK
  BY DEF Init, SnapshotOK
<1> QED
  BY <1>1, InitKey, SoftInit, RecordInit DEF JobInv, KeyInv

LEMMA NextJob == JobInv /\ [RollupNext]_vars => JobInv'
<1> SUFFICES ASSUME JobInv, [RollupNext]_vars PROVE TypeInv' /\ SnapshotOK' /\ KeyParts'
  BY SoftNext, RecordNext DEF JobInv
<1>1. CASE [Next]_vars
  <2>1. TypeInv' /\ KeyParts'
    BY <1>1, NextKey DEF JobInv, KeyInv
  <2>2. snapshot' = snapshot
    BY <1>1 DEF Next, Step, Start, Begin, Reserve, Replay, ReplayGone, Count, Breach, Notify, Commit,
                RollBack, Fail, DeadlockAbort, Environment, ChangeLimit, NextMonth, PurgeKey, vars, world
  <2> QED
    BY <2>1, <2>2 DEF JobInv, SnapshotOK
<1>2. CASE RollupRead \/ RollupWrite
  BY <1>2, JobStep
<1> QED
  BY <1>1, <1>2 DEF RollupNext

\* With the rollup job at work beside any number of requests, a row that answers a
\* replay carries the total the first request got, and a month's warning is sent once
\* although the job may set its counter back.
THEOREM RecordsAreKept == RollupSpec => []JobKeepsRecords
<1>1. JobInv => JobKeepsRecords
  <2> SUFFICES ASSUME JobInv PROVE ReplayableTotals /\ RollupKeepsNotices
    BY DEF JobKeepsRecords
  <2>1. SentOK /\ notified \subseteq Buckets
    BY DEF JobInv, SoftParts, TypeInv, TypeOK, TablesOK
  <2>2. SoftLimitOnce
    BY <2>1 DEF SentOK, SoftLimitOnce
  <2>3. \A b \in notified : softSent[b] = 1
    BY <2>1 DEF SentOK
  <2> QED
    BY <2>2, <2>3 DEF JobInv, RecordParts, RollupKeepsNotices
<1> QED
  BY InitJob, NextJob, <1>1, PTL DEF RollupSpec

\* The job does not make a retry count twice either.
THEOREM IdempotentBesideJob == RollupSpec => []KeyCountedOnce
<1>1. JobInv => KeyCountedOnce
  BY DEF JobInv, KeyParts
<1> QED
  BY InitJob, NextJob, <1>1, PTL DEF RollupSpec

----------------------------------------------------------------------------
(* The notices.  A request arrives at a limit by counting onto a row it    *)
(* holds, so that at most one request arrives at each value, and whoever   *)
(* takes a month past the soft limit flags the month before it commits.    *)

\* The limits that a month's counter of x has reached.
UpTo(b, x) == {l \in seen[b[1]] \ {Unlimited} : l <= x}

SeenFinite == \A m \in Metrics : IsFiniteSet(seen[m])

\* Nothing is counted in a month that has not begun.
FutureOK ==
    \A b \in Buckets : b[2] > month => counters[b] = 0 /\ \A r \in Requests : ~Holds(r, b)

\* Before its notices, a consume has counted its event and is within its limit.
TotalOK(r) ==
    /\ now[r] <= month
    /\ pc[r] \in {"reserve", "replay", "count", "notify"} /\ op[r] = "record"
          => cap[r] = Unlimited
    /\ pc[r] = "notify" /\ op[r] = "consume" => rowv[r][BucketOf(r)] = total[r]
    /\ pc[r] = "notify" => total[r] > 0 /\ (cap[r] = Unlimited \/ total[r] <= cap[r])

\* The total that request r has announced in bucket b.
Announced(r, b) ==
    IF pc[r] = "notify" /\ op[r] = "consume" /\ b = BucketOf(r)
    THEN total[r] - 1 ELSE RowTotal(r, b)

HardOK(r, b) ==
    /\ hardSent[b] + hard[r][b] <= Cardinality(UpTo(b, Announced(r, b)))
    /\ ~Holds(r, b) => hard[r][b] = 0

HardDone == \A b \in Buckets : hardSent[b] <= Cardinality(UpTo(b, counters[b]))

\* A counter of x in this month has to have its warning.
Due(m, x) ==
    /\ seen[m] = {limit[m]} /\ limit[m] # Unlimited /\ SoftNum > 0
    /\ x > 0 /\ x >= Threshold(limit[m])

WarnOK(r, m) ==
    /\ Holds(r, <<m, month>>) /\ Due(m, rowv[r][<<m, month>>])
    /\ <<m, month>> \notin notified \cup flags[r]
    => pc[r] = "notify" /\ Current(r).metric = m /\ total[r] = rowv[r][<<m, month>>]

NoticeParts == /\ SeenFinite /\ FutureOK /\ HardDone /\ SoftLimitNoticed
               /\ \A r \in Requests : /\ TotalOK(r)
                                      /\ \A b \in Buckets : HardOK(r, b)
                                      /\ \A m \in Metrics : WarnOK(r, m)

NoticeInv == LimitInv /\ SoftParts /\ NoticeParts

\* A counter that grows has reached at least as many limits, and one more when it
\* arrives at a limit.
LEMMA UpToGrows ==
    ASSUME TypeInv, SeenFinite, NEW b \in Buckets, NEW x \in Int, NEW y \in Int, x <= y
    PROVE  /\ Cardinality(UpTo(b, x)) \in Nat /\ Cardinality(UpTo(b, y)) \in Nat
           /\ Cardinality(UpTo(b, x)) <= Cardinality(UpTo(b, y))
<1>1. b[1] \in Metrics
  BY DEF Buckets
<1>2. IsFiniteSet(seen[b[1]]) /\ seen[b[1]] \subseteq Nat \cup {Unlimited}
  BY <1>1, LimitAssumption DEF SeenFinite, TypeInv, TypeOK, TablesOK
<1>3. UpTo(b, y) \subseteq seen[b[1]] /\ UpTo(b, x) \subseteq UpTo(b, y)
  BY <1>2 DEF UpTo, Unlimited
<1>4. IsFiniteSet(UpTo(b, y))
  BY <1>2, <1>3, FS_Subset
<1>5. IsFiniteSet(UpTo(b, x)) /\ Cardinality(UpTo(b, x)) <= Cardinality(UpTo(b, y))
  BY <1>3, <1>4, FS_Subset
<1> QED
  BY <1>4, <1>5, FS_CardinalityType

LEMMA UpToArrives ==
    ASSUME TypeInv, SeenFinite, NEW b \in Buckets, NEW x \in Nat, x \in seen[b[1]]
    PROVE  Cardinality(UpTo(b, x - 1)) + 1 <= Cardinality(UpTo(b, x))
<1>1. b[1] \in Metrics
  BY DEF Buckets
<1>2. IsFiniteSet(seen[b[1]]) /\ seen[b[1]] \subseteq Nat \cup {Unlimited}
  BY <1>1, LimitAssumption DEF SeenFinite, TypeInv, TypeOK, TablesOK
<1>3. UpTo(b, x) \subseteq seen[b[1]] /\ x \in UpTo(b, x) /\ UpTo(b, x - 1) = UpTo(b, x) \ {x}
  BY <1>2 DEF UpTo, Unlimited
<1>4. IsFiniteSet(UpTo(b, x))
  BY <1>2, <1>3, FS_Subset
<1>5. Cardinality(UpTo(b, x - 1)) = Cardinality(UpTo(b, x)) - 1 /\ Cardinality(UpTo(b, x)) \in Nat
  BY <1>3, <1>4, FS_RemoveElement, FS_CardinalityType
<1> QED
  BY <1>5

\* The numbers the notices are about.
LEMMA NoticeTypes ==
    ASSUME TypeInv, NEW r \in Requests
    PROVE  /\ total[r] \in Nat /\ cap[r] \in Nat \cup {Unlimited}
           /\ \A b \in Buckets : /\ RowTotal(r, b) \in Nat /\ rowv[r][b] \in Nat \cup {Free}
                                 /\ hardSent[b] \in Nat /\ hard[r][b] \in Nat /\ counters[b] \in Nat
                                 /\ Announced(r, b) \in Int
<1>1. TablesOK /\ CallOK /\ WorkOK
  BY DEF TypeInv, TypeOK
<1>2. total[r] \in Nat /\ cap[r] \in Nat \cup {Unlimited}
  BY <1>1, LimitAssumption DEF CallOK
<1>3. \A b \in Buckets : /\ RowTotal(r, b) \in Nat /\ rowv[r][b] \in Nat \cup {Free}
                         /\ hardSent[b] \in Nat /\ hard[r][b] \in Nat /\ counters[b] \in Nat
  BY <1>1 DEF TablesOK, WorkOK, RowTotal, Holds
<1> QED
  BY <1>2, <1>3 DEF Announced

\* What a step that writes no committed row leaves of the other requests' notices.
LEMMA NoticeOthers ==
    ASSUME NoticeInv, NEW r \in Requests, Frame(r),
           UNCHANGED <<counters, notified, hardSent, seen, limit, month>>
    PROVE  \A s \in Requests \ {r} : /\ TotalOK(s)'
                                     /\ \A b \in Buckets : HardOK(s, b)'
                                     /\ \A m \in Metrics : WarnOK(s, m)'
<1> SUFFICES ASSUME NEW s \in Requests \ {r}
             PROVE  /\ TotalOK(s)'
                    /\ \A b \in Buckets : HardOK(s, b)'
                    /\ \A m \in Metrics : WarnOK(s, m)'
  OBVIOUS
<1>0. /\ TotalOK(s)
      /\ \A b \in Buckets : HardOK(s, b)
      /\ \A m \in Metrics : WarnOK(s, m)
  BY DEF NoticeInv, NoticeParts
<1>1. Current(s)' = Current(s) /\ BucketOf(s)' = BucketOf(s)
  BY DEF Frame, Current, BucketOf
<1>2. TotalOK(s)'
  BY <1>0, <1>1 DEF TotalOK, Frame
<1>3. ASSUME NEW b \in Buckets PROVE HardOK(s, b)'
  <2>1. Announced(s, b)' = Announced(s, b) /\ Holds(s, b)' = Holds(s, b)
    BY <1>1 DEF Announced, RowTotal, Holds, Frame
  <2>2. UpTo(b, Announced(s, b))' = UpTo(b, Announced(s, b))
    BY <2>1 DEF UpTo
  <2> QED
    BY <1>0, <2>1, <2>2 DEF HardOK, Frame
<1>4. \A m \in Metrics : WarnOK(s, m)'
  BY <1>0, <1>1 DEF WarnOK, Due, Holds, Frame
<1> QED
  BY <1>2, <1>3, <1>4

LEMMA NoticeRollBack ==
    ASSUME NoticeInv, NEW r \in Requests, RollBack(r)
    PROVE  NoticeParts'
<1>0. /\ TypeInv /\ WorkOK /\ CallOK /\ TablesOK /\ SeenFinite /\ FutureOK /\ HardDone
      /\ SoftLimitNoticed /\ TotalOK(r)
  BY DEF NoticeInv, NoticeParts, LimitInv, DriftInv, TypeInv, TypeOK
<1>1. Frame(r) /\ \A b \in Buckets : rowv'[r][b] = Free
  BY <1>0, RollBackFrame, SoftClean
<1>2. pc'[r] = "done" /\ now' = now /\ \A b \in Buckets : hard'[r][b] = 0
  BY <1>0 DEF RollBack, CallOK, WorkOK, NoCounts
<1>3. UNCHANGED <<counters, notified, hardSent, seen, limit, month>>
  BY DEF RollBack, committed, world
<1>4. TotalOK(r)'
  BY <1>0, <1>2, <1>3 DEF TotalOK
<1>5. ASSUME NEW b \in Buckets PROVE HardOK(r, b)'
  <2>1. Announced(r, b)' = counters[b]
    BY <1>1, <1>2, <1>3 DEF Announced, RowTotal, Holds
  <2>2. UpTo(b, Announced(r, b))' = UpTo(b, counters[b])
    BY <1>3, <2>1 DEF UpTo
  <2>3. hardSent[b] \in Nat
    BY <1>0 DEF TablesOK
  <2> QED
    BY <1>0, <1>2, <1>3, <2>2, <2>3 DEF HardOK, HardDone
<1>6. \A m \in Metrics : WarnOK(r, m)'
  <2>1. month' \in Months
    BY <1>0, <1>3 DEF TablesOK
  <2> QED
    BY <1>1, <2>1 DEF WarnOK, Holds, Buckets
<1>7. FutureOK'
  BY <1>0, <1>1, <1>3 DEF FutureOK, Holds, Frame
<1>8. HardDone'
  BY <1>0, <1>3 DEF HardDone, UpTo
<1>9. SeenFinite' /\ SoftLimitNoticed'
  BY <1>0, <1>3 DEF SeenFinite, SoftLimitNoticed
<1> QED
  BY <1>1, <1>3, <1>4, <1>5, <1>6, <1>7, <1>8, <1>9, NoticeOthers DEF NoticeParts

\* A step that counts nothing, commits nothing and sends nothing.
LEMMA NoticeQuiet ==
    ASSUME NoticeInv, NEW r \in Requests, Frame(r),
           UNCHANGED <<counters, notified, hardSent, seen, limit, month, rowv, flags, hard>>,
           pc[r] # "notify", pc'[r] # "notify", TotalOK(r)'
    PROVE  NoticeParts'
<1>0. /\ SeenFinite /\ FutureOK /\ HardDone /\ SoftLimitNoticed
      /\ \A b \in Buckets : HardOK(r, b)
      /\ \A m \in Metrics : WarnOK(r, m)
  BY DEF NoticeInv, NoticeParts
<1>1. ASSUME NEW b \in Buckets PROVE HardOK(r, b)'
  <2>1. Announced(r, b)' = Announced(r, b)
    BY DEF Announced, RowTotal, Holds
  <2>2. UpTo(b, Announced(r, b))' = UpTo(b, Announced(r, b))
    BY <2>1 DEF UpTo
  <2> QED
    BY <1>0, <2>2 DEF HardOK, Holds
<1>2. \A m \in Metrics : WarnOK(r, m)'
  BY <1>0 DEF WarnOK, Due, Holds
<1>3. FutureOK'
  BY <1>0 DEF FutureOK, Holds
<1>4. HardDone'
  BY <1>0 DEF HardDone, UpTo
<1>5. SeenFinite' /\ SoftLimitNoticed'
  BY <1>0 DEF SeenFinite, SoftLimitNoticed
<1> QED
  BY <1>1, <1>2, <1>3, <1>4, <1>5, NoticeOthers DEF NoticeParts

LEMMA NoticeCount ==
    ASSUME NoticeInv, NEW r \in Requests, Count(r)
    PROVE  NoticeParts'
<1>0. /\ TypeInv /\ WorkOK /\ CallOK /\ TablesOK /\ SeenFinite /\ FutureOK /\ HardDone
      /\ SoftLimitNoticed /\ TotalOK(r)
      /\ \A b \in Buckets : HardOK(r, b)
      /\ \A m \in Metrics : WarnOK(r, m)
  BY DEF NoticeInv, NoticeParts, LimitInv, DriftInv, TypeInv, TypeOK
<1>a. Frame(r)
  BY <1>0, StepFrame DEF Step
<1>1. PICK b \in Buckets, q \in Nat \ {0}, t \in Nat :
           b = BucketOf(r) /\ q = Current(r).quantity /\ t = RowTotal(r, b) + q
  BY <1>0, CurrentType, NoticeTypes DEF Count, InItem
<1>2. /\ rowv' = [rowv EXCEPT ![r][b] = t] /\ total' = [total EXCEPT ![r] = t]
      /\ pc' = [pc EXCEPT ![r] = "notify"] /\ ~Breaches(r, t) /\ pc[r] = "count"
      /\ UNCHANGED <<counters, notified, hardSent, seen, limit, month, flags, hard, op, cap, now, batch, pos>>
  BY <1>1 DEF Count, committed, world, call
<1>3. /\ rowv'[r][b] = t /\ total'[r] = t /\ pc'[r] = "notify" /\ t # Free
      /\ \A c \in Buckets \ {b} : rowv'[r][c] = rowv[r][c]
  BY <1>0, <1>2 DEF WorkOK, CallOK, Free
<1>4. Current(r)' = Current(r) /\ BucketOf(r)' = b
  BY <1>1, <1>2 DEF Current, BucketOf
<1>5. now[r] <= month /\ b[2] <= month /\ t > 0 /\ t - 1 >= RowTotal(r, b) /\ RowTotal(r, b) \in Nat
  <2>1. now[r] <= month /\ month \in Nat
    BY <1>0 DEF TotalOK, TablesOK, Months
  <2>2. b[2] = now[r] \/ b[2] = month
    BY <1>1 DEF BucketOf
  <2>3. RowTotal(r, b) \in Nat
    BY <1>0, NoticeTypes
  <2> QED
    BY <1>1, <2>1, <2>2, <2>3
<1>6. TotalOK(r)'
  <2>1. cap[r] = Unlimited \/ t <= cap[r]
    BY <1>0, <1>2, NoticeTypes DEF Breaches, Unlimited
  <2> QED
    BY <1>0, <1>2, <1>3, <1>4, <1>5, <2>1 DEF TotalOK
<1>7. ASSUME NEW c \in Buckets PROVE HardOK(r, c)'
  <2>1. hardSent[c] + hard[r][c] <= Cardinality(UpTo(c, RowTotal(r, c))) /\ (~Holds(r, c) => hard[r][c] = 0)
    BY <1>0, <1>2 DEF HardOK, Announced
  <2>2. CASE c # b
    <3>1. Announced(r, c)' = RowTotal(r, c)
      BY <1>2, <1>3, <1>4, <2>2 DEF Announced, RowTotal, Holds
    <3>2. UpTo(c, Announced(r, c))' = UpTo(c, RowTotal(r, c))
      BY <1>2, <3>1 DEF UpTo
    <3> QED
      BY <1>2, <1>3, <2>1, <2>2, <3>2 DEF HardOK, Holds
  <2>3. CASE c = b
    <3>1. PICK y \in Int : y = Announced(r, c)' /\ y >= RowTotal(r, c)
      BY <1>1, <1>3, <1>5, <2>3 DEF Announced, RowTotal, Holds
    <3>2. UpTo(c, Announced(r, c))' = UpTo(c, y)
      BY <1>2, <3>1 DEF UpTo
    <3>3. Cardinality(UpTo(c, RowTotal(r, c))) <= Cardinality(UpTo(c, y))
          /\ Cardinality(UpTo(c, RowTotal(r, c))) \in Nat /\ Cardinality(UpTo(c, y)) \in Nat
      BY <1>0, <1>5, <2>3, <3>1, UpToGrows
    <3>4. hardSent[c] \in Nat /\ hard[r][c] \in Nat
      BY <1>0, NoticeTypes
    <3>5. hardSent[c] + hard[r][c] <= Cardinality(UpTo(c, y))
      BY <2>1, <3>3, <3>4
    <3>6. hardSent'[c] = hardSent[c] /\ hard'[r][c] = hard[r][c] /\ Holds(r, c)'
      BY <1>2, <1>3, <2>3 DEF Holds
    <3> QED
      BY <3>2, <3>5, <3>6 DEF HardOK
  <2> QED
    BY <2>2, <2>3
<1>8. ASSUME NEW m \in Metrics PROVE WarnOK(r, m)'
  <2>1. <<m, month>> \in Buckets
    BY <1>0 DEF TablesOK, Buckets
  <2>2. WarnOK(r, m) /\ month' = month
    BY <1>0, <1>2
  <2>3. CASE b = <<m, month>>
    <3>1. Current(r).metric = m
      BY <1>1, <2>3 DEF BucketOf
    <3> QED
      BY <1>2, <1>3, <1>4, <2>3, <3>1 DEF WarnOK
  <2>4. CASE b # <<m, month>>
    <3>1. rowv'[r][<<m, month>>] = rowv[r][<<m, month>>]
      BY <1>3, <2>1, <2>4
    <3> QED
      BY <1>2, <2>2, <3>1 DEF WarnOK, Due, Holds
  <2> QED
    BY <2>3, <2>4
<1>9. FutureOK'
  <2>1. ASSUME NEW c \in Buckets, c[2] > month, NEW s \in Requests PROVE ~Holds(s, c)'
    <3>1. c # b /\ ~Holds(s, c)
      <4>1. month \in Nat /\ b[2] \in Nat /\ c[2] \in Nat
        BY <1>0 DEF TablesOK, Months, Buckets
      <4> QED
        BY <1>0, <1>5, <2>1, <4>1 DEF FutureOK
    <3> QED
      BY <1>a, <1>3, <3>1 DEF Frame, Holds
  <2> QED
    BY <1>0, <1>2, <2>1 DEF FutureOK
<1>10. HardDone'
  BY <1>0, <1>2 DEF HardDone, UpTo
<1>11. SeenFinite' /\ SoftLimitNoticed'
  BY <1>0, <1>2 DEF SeenFinite, SoftLimitNoticed
<1> QED
  BY <1>a, <1>2, <1>6, <1>7, <1>8, <1>9, <1>10, <1>11, NoticeOthers DEF NoticeParts

LEMMA NoticeNotify ==
    ASSUME NoticeInv, NEW r \in Requests, Notify(r)
    PROVE  NoticeParts'
<1>0. /\ TypeInv /\ WorkOK /\ CallOK /\ TablesOK /\ SeenFinite /\ FutureOK /\ HardDone
      /\ SoftLimitNoticed /\ TotalOK(r) /\ CapOK(r)
      /\ \A b \in Buckets : HardOK(r, b)
      /\ \A m \in Metrics : WarnOK(r, m)
  BY DEF NoticeInv, NoticeParts, LimitInv, LimitParts, DriftInv, TypeInv, TypeOK
<1>a. Frame(r)
  BY <1>0, StepFrame DEF Step
<1>1. PICK b \in Buckets, n \in Buckets : b = BucketOf(r) /\ n = NoticeBucket(r)
  BY <1>0, CurrentType DEF Notify, InItem
<1>2. /\ pc[r] = "notify"
      /\ UNCHANGED <<counters, notified, hardSent, seen, limit, month, op, cap, now, batch>>
  BY DEF Notify, committed, world, call
<1>3. pc'[r] \in {"begin", "commit"}
  BY <1>0 DEF Notify, AfterItem, CallOK
<1>4. \/ /\ rowv' = [rowv EXCEPT ![r][n] = RowTotal(r, n)] /\ FreeRow(r, n)
         /\ flags' = [flags EXCEPT ![r] = @ \cup {n}]
      \/ rowv' = rowv /\ flags' = flags /\ ~MustNotify(r)
  BY <1>1 DEF Notify
<1>5. hard' = IF cap[r] # Unlimited /\ total[r] >= cap[r] THEN [hard EXCEPT ![r][b] = @ + 1] ELSE hard
  BY <1>1 DEF Notify
<1>6. /\ \A c \in Buckets : RowTotal(r, c)' = RowTotal(r, c) /\ (Holds(r, c) => rowv'[r][c] = rowv[r][c])
      /\ \A c \in Buckets \ {n} : rowv'[r][c] = rowv[r][c]
      /\ flags[r] \subseteq flags'[r]
  <2>1. CASE rowv' = rowv /\ flags' = flags
    BY <1>2, <2>1 DEF RowTotal, Holds
  <2>2. CASE /\ rowv' = [rowv EXCEPT ![r][n] = RowTotal(r, n)]
             /\ flags' = [flags EXCEPT ![r] = @ \cup {n}]
    <3>1. /\ rowv'[r][n] = RowTotal(r, n) /\ \A c \in Buckets \ {n} : rowv'[r][c] = rowv[r][c]
          /\ flags'[r] = flags[r] \cup {n}
      BY <1>0, <2>2 DEF WorkOK
    <3>2. RowTotal(r, n) # Free
      BY <1>0, NoticeTypes DEF Free
    <3> QED
      BY <1>2, <3>1, <3>2 DEF RowTotal, Holds
  <2> QED
    BY <1>4, <2>1, <2>2
<1>7. TotalOK(r)'
  BY <1>0, <1>2, <1>3 DEF TotalOK
<1>8. ASSUME NEW c \in Buckets PROVE HardOK(r, c)'
  <2>1. Announced(r, c)' = RowTotal(r, c)
    BY <1>3, <1>6 DEF Announced
  <2>2. UpTo(c, Announced(r, c))' = UpTo(c, RowTotal(r, c))
    BY <1>2, <2>1 DEF UpTo
  <2>3. Holds(r, c) => Holds(r, c)'
    BY <1>6 DEF Holds
  <2>t. hardSent[c] \in Nat /\ hard[r][c] \in Nat /\ RowTotal(r, c) \in Nat /\ Announced(r, c) \in Int
        /\ total[r] \in Nat /\ cap[r] \in Nat \cup {Unlimited}
    BY <1>0, NoticeTypes
  <2>4. HardOK(r, c) /\ hardSent'[c] = hardSent[c]
    BY <1>0, <1>2
  <2>5. CASE op[r] = "consume" /\ c = b
    <3>1. Announced(r, c) = total[r] - 1 /\ rowv[r][c] = total[r] /\ RowTotal(r, c) = total[r] /\ Holds(r, c)
      BY <1>0, <1>1, <1>2, <2>5, <2>t DEF Announced, TotalOK, RowTotal, Holds, Free
    <3>2. CASE cap[r] # Unlimited /\ total[r] >= cap[r]
      <4>1. hard'[r][c] = hard[r][c] + 1
        BY <1>0, <1>5, <2>5, <3>2 DEF WorkOK
      <4>2. total[r] = cap[r] /\ cap[r] \in Nat
        BY <1>0, <1>2, <2>t, <3>2 DEF TotalOK
      <4>3. total[r] \in seen[c[1]]
        BY <1>0, <1>1, <1>2, <2>5, <4>2 DEF CapOK, BucketOf
      <4>4. Cardinality(UpTo(c, total[r] - 1)) + 1 <= Cardinality(UpTo(c, total[r]))
        BY <1>0, <2>t, <4>3, UpToArrives
      <4>5. Cardinality(UpTo(c, total[r] - 1)) \in Nat /\ Cardinality(UpTo(c, total[r])) \in Nat
        BY <1>0, <2>t, UpToGrows
      <4>6. hardSent[c] + hard[r][c] <= Cardinality(UpTo(c, total[r] - 1))
        BY <2>4, <3>1 DEF HardOK
      <4>7. hardSent'[c] + hard'[r][c] <= Cardinality(UpTo(c, total[r]))
        BY <2>4, <2>t, <4>1, <4>4, <4>5, <4>6
      <4> QED
        BY <2>2, <2>3, <3>1, <4>7 DEF HardOK
    <3>3. CASE ~(cap[r] # Unlimited /\ total[r] >= cap[r])
      <4>1. hard' = hard
        BY <1>5, <3>3
      <4>2. /\ Cardinality(UpTo(c, total[r] - 1)) <= Cardinality(UpTo(c, total[r]))
            /\ Cardinality(UpTo(c, total[r] - 1)) \in Nat /\ Cardinality(UpTo(c, total[r])) \in Nat
        BY <1>0, <2>t, UpToGrows
      <4>3. hardSent[c] + hard[r][c] <= Cardinality(UpTo(c, total[r] - 1))
        BY <2>4, <3>1 DEF HardOK
      <4>4. hardSent'[c] + hard'[r][c] <= Cardinality(UpTo(c, total[r]))
        BY <2>4, <2>t, <4>1, <4>2, <4>3
      <4> QED
        BY <2>2, <2>3, <3>1, <4>4 DEF HardOK
    <3> QED
      BY <3>2, <3>3
  <2>6. CASE ~(op[r] = "consume" /\ c = b)
    <3>1. Announced(r, c) = RowTotal(r, c)
      BY <1>1, <2>6 DEF Announced
    <3>2. hard'[r][c] = hard[r][c]
      <4>1. CASE op[r] = "consume"
        BY <1>0, <1>5, <2>6, <4>1 DEF WorkOK
      <4>2. CASE op[r] # "consume"
        <5>1. cap[r] = Unlimited
          BY <1>0, <1>2, <4>2 DEF TotalOK, CallOK
        <5> QED
          BY <1>5, <5>1
      <4> QED
        BY <4>1, <4>2
    <3> QED
      BY <2>2, <2>3, <2>4, <3>1, <3>2 DEF HardOK
  <2> QED
    BY <2>5, <2>6
<1>9. ASSUME NEW m \in Metrics PROVE WarnOK(r, m)'
  <2>1. PICK c \in Buckets : c = <<m, month>>
    BY <1>0 DEF TablesOK, Buckets
  <2>2. WarnOK(r, m) /\ month' = month /\ notified' = notified
    BY <1>0, <1>2
  <2>3. CASE c = n /\ rowv' = [rowv EXCEPT ![r][n] = RowTotal(r, n)] /\ flags' = [flags EXCEPT ![r] = @ \cup {n}]
    <3>1. c \in flags'[r]
      BY <1>0, <2>3 DEF WorkOK
    <3> QED
      BY <2>1, <2>2, <3>1 DEF WarnOK
  <2>4. CASE c # n
    <3>1. Current(r).metric # m
      BY <1>1, <2>1, <2>4 DEF NoticeBucket
    <3> QED
      BY <1>2, <1>6, <2>1, <2>2, <2>4, <3>1 DEF WarnOK, Due, Holds
  <2>5. CASE c = n /\ rowv' = rowv /\ flags' = flags /\ ~MustNotify(r)
    <3>1. Current(r).metric = m
      BY <1>1, <2>1, <2>5 DEF NoticeBucket
    <3>2. ASSUME Holds(r, c), Due(m, rowv[r][c]), c \notin notified \cup flags[r] PROVE FALSE
      <4>1. total[r] = rowv[r][c]
        BY <2>1, <2>2, <3>2 DEF WarnOK
      <4>2. Crossed(r)
        BY <3>1, <3>2, <4>1 DEF Crossed, Due
      <4>3. Unnotified(r, NoticeBucket(r))
        BY <1>1, <2>5, <3>2 DEF Unnotified
      <4> QED
        BY <2>5, <4>2, <4>3 DEF MustNotify
    <3> QED
      BY <1>2, <2>1, <2>5, <3>2 DEF WarnOK, Due, Holds
  <2> QED
    BY <1>4, <2>3, <2>4, <2>5
<1>10. FutureOK'
  <2>1. ASSUME NEW c \in Buckets, c[2] > month, NEW s \in Requests PROVE ~Holds(s, c)'
    <3>1. c # n /\ ~Holds(s, c)
      <4>1. n[2] = month /\ month \in Nat
        BY <1>0, <1>1 DEF TablesOK, Months, NoticeBucket
      <4> QED
        BY <1>0, <2>1, <4>1 DEF FutureOK
    <3> QED
      BY <1>a, <1>6, <3>1 DEF Frame, Holds
  <2> QED
    BY <1>0, <1>2, <2>1 DEF FutureOK
<1>11. HardDone'
  BY <1>0, <1>2 DEF HardDone, UpTo
<1>12. SeenFinite' /\ SoftLimitNoticed'
  BY <1>0, <1>2 DEF SeenFinite, SoftLimitNoticed
<1> QED
  BY <1>a, <1>2, <1>7, <1>8, <1>9, <1>10, <1>11, <1>12, NoticeOthers DEF NoticeParts

LEMMA NoticeCommit ==
    ASSUME NoticeInv, NEW r \in Requests, Commit(r)
    PROVE  NoticeParts'
<1>0. /\ TypeInv /\ WorkOK /\ CallOK /\ TablesOK /\ SeenFinite /\ FutureOK /\ HardDone /\ LocksOK
      /\ SoftLimitNoticed /\ TotalOK(r)
      /\ \A b \in Buckets : HardOK(r, b)
      /\ \A m \in Metrics : WarnOK(r, m)
  BY DEF NoticeInv, NoticeParts, LimitInv, DriftInv, TypeInv, TypeOK
<1>1. Frame(r) /\ \A b \in Buckets : rowv'[r][b] = Free
  BY <1>0, StepFrame, SoftClean DEF Step
<1>2. /\ pc[r] = "commit" /\ notified' = notified \cup flags[r]
      /\ counters' = [b \in Buckets |-> RowTotal(r, b)] /\ hardSent' = Sum(hardSent, hard[r])
      /\ UNCHANGED <<seen, limit, month, now, cap>>
  BY DEF Commit, world
<1>3. pc'[r] = "done" /\ \A b \in Buckets : hard'[r][b] = 0
  BY <1>0 DEF Commit, CallOK, WorkOK, NoCounts
<1>4. ASSUME NEW b \in Buckets
      PROVE  /\ counters'[b] = RowTotal(r, b) /\ hardSent'[b] = hardSent[b] + hard[r][b]
             /\ ~Holds(r, b) => counters'[b] = counters[b] /\ hardSent'[b] = hardSent[b]
  <2>1. counters'[b] = RowTotal(r, b) /\ hardSent'[b] = hardSent[b] + hard[r][b]
    BY <1>0, <1>2 DEF Sum, TablesOK
  <2>2. ~Holds(r, b) => hard[r][b] = 0 /\ RowTotal(r, b) = counters[b]
    BY <1>0 DEF HardOK, RowTotal
  <2>3. hardSent[b] \in Nat
    BY <1>0 DEF TablesOK
  <2> QED
    BY <2>1, <2>2, <2>3
<1>5. ASSUME NEW b \in Buckets PROVE hardSent'[b] <= Cardinality(UpTo(b, counters[b])')
  <2>1. hardSent[b] + hard[r][b] <= Cardinality(UpTo(b, RowTotal(r, b)))
    BY <1>0, <1>2 DEF HardOK, Announced
  <2>2. UpTo(b, counters[b])' = UpTo(b, RowTotal(r, b))
    BY <1>2, <1>4 DEF UpTo
  <2> QED
    BY <1>4, <2>1, <2>2
<1>6. HardDone'
  BY <1>5 DEF HardDone
<1>7. ASSUME NEW s \in Requests, NEW b \in Buckets PROVE HardOK(s, b)'
  <2>0. TotalOK(s) /\ HardOK(s, b)
    BY DEF NoticeInv, NoticeParts
  <2>t. hardSent'[b] \in Nat
    <3>1. hardSent[b] \in Nat /\ hard[r][b] \in Nat
      BY <1>0, NoticeTypes
    <3> QED
      BY <1>4, <3>1
  <2>1. CASE hard'[s][b] = 0 /\ ~Holds(s, b)' /\ Announced(s, b)' = counters'[b]
    <3>1. UpTo(b, Announced(s, b))' = UpTo(b, counters[b])'
      BY <2>1 DEF UpTo
    <3> QED
      BY <1>5, <2>1, <2>t, <3>1 DEF HardOK
  <2>2. CASE s = r
    <3>1. hard'[s][b] = 0 /\ ~Holds(s, b)' /\ Announced(s, b)' = counters'[b]
      BY <1>1, <1>3, <2>2 DEF Holds, Announced, RowTotal
    <3> QED
      BY <2>1, <3>1
  <2>3. CASE s # r /\ Holds(r, b)
    <3>1. ~Holds(s, b)
      BY <1>0, <2>3 DEF LocksOK
    <3>2. ~Holds(s, b)' /\ hard'[s][b] = 0 /\ BucketOf(s)' = BucketOf(s)
      BY <1>1, <1>2, <2>0, <2>3, <3>1 DEF Holds, HardOK, Frame, BucketOf, Current
    <3>3. ~(pc[s] = "notify" /\ op[s] = "consume" /\ b = BucketOf(s))
      BY <1>0, <2>0, <3>1, NoticeTypes DEF TotalOK, Holds, Free
    <3>4. Announced(s, b)' = counters'[b]
      BY <1>1, <2>3, <3>2, <3>3 DEF Announced, RowTotal, Frame
    <3> QED
      BY <2>1, <3>2, <3>4
  <2>4. CASE s # r /\ ~Holds(r, b)
    <3>1. counters'[b] = counters[b] /\ hardSent'[b] = hardSent[b]
      BY <1>4, <2>4
    <3>2. BucketOf(s)' = BucketOf(s)
      BY <1>1, <1>2, <2>4 DEF Frame, BucketOf, Current
    <3>3. Announced(s, b)' = Announced(s, b) /\ Holds(s, b)' = Holds(s, b)
      BY <1>1, <2>4, <3>1, <3>2 DEF Announced, RowTotal, Holds, Frame
    <3>4. UpTo(b, Announced(s, b))' = UpTo(b, Announced(s, b))
      BY <1>2, <3>3 DEF UpTo
    <3> QED
      BY <1>1, <2>0, <2>4, <3>1, <3>3, <3>4 DEF HardOK, Frame
  <2> QED
    BY <2>2, <2>3, <2>4
<1>8. ASSUME NEW s \in Requests, NEW m \in Metrics PROVE WarnOK(s, m)'
  <2>1. <<m, month>> \in Buckets
    BY <1>0 DEF TablesOK, Buckets
  <2>2. CASE s = r
    BY <1>1, <1>2, <2>1, <2>2 DEF WarnOK, Holds
  <2>3. CASE s # r
    <3>1. WarnOK(s, m)
      BY DEF NoticeInv, NoticeParts
    <3>2. Current(s)' = Current(s)
      BY <1>1, <2>3 DEF Frame, Current
    <3> QED
      BY <1>1, <1>2, <2>3, <3>1, <3>2 DEF WarnOK, Due, Holds, Frame
  <2> QED
    BY <2>2, <2>3
<1>9. ASSUME NEW s \in Requests PROVE TotalOK(s)'
  <2>1. TotalOK(s)
    BY DEF NoticeInv, NoticeParts
  <2>2. CASE s = r
    BY <1>2, <1>3, <2>1, <2>2 DEF TotalOK
  <2>3. CASE s # r
    <3>1. BucketOf(s)' = BucketOf(s)
      BY <1>1, <1>2, <2>3 DEF Frame, BucketOf, Current
    <3> QED
      BY <1>1, <1>2, <2>1, <2>3, <3>1 DEF TotalOK, Frame
  <2> QED
    BY <2>2, <2>3
<1>10. FutureOK'
  BY <1>0, <1>1, <1>2, <1>4 DEF FutureOK, Holds, Frame
<1>11. ASSUME NEW m \in Metrics, Due(m, counters'[<<m, month>>])
       PROVE  <<m, month>> \in notified'
  <2>1. PICK b \in Buckets : b = <<m, month>>
    BY <1>0 DEF TablesOK, Buckets
  <2>2. CASE Holds(r, b)
    <3>1. counters'[b] = rowv[r][b]
      BY <1>4, <2>2 DEF RowTotal
    <3>2. WarnOK(r, m)
      BY <1>0
    <3> QED
      BY <1>2, <1>11, <2>1, <2>2, <3>1, <3>2 DEF WarnOK
  <2>3. CASE ~Holds(r, b)
    <3>1. counters'[b] = counters[b]
      BY <1>4, <2>3
    <3> QED
      BY <1>0, <1>2, <1>11, <2>1, <3>1 DEF Due, SoftLimitNoticed
  <2> QED
    BY <2>2, <2>3
<1>12. SoftLimitNoticed'
  BY <1>2, <1>11 DEF SoftLimitNoticed, Due, Threshold
<1>13. SeenFinite'
  BY <1>0, <1>2 DEF SeenFinite
<1> QED
  BY <1>6, <1>7, <1>8, <1>9, <1>10, <1>12, <1>13 DEF NoticeParts

LEMMA NoticeStep ==
    ASSUME NoticeInv, NEW r \in Requests, Step(r)
    PROVE  NoticeParts'
<1>0. TypeInv /\ CallOK /\ TablesOK /\ TotalOK(r)
  BY DEF NoticeInv, NoticeParts, LimitInv, DriftInv, TypeInv, TypeOK
<1>a. Frame(r)
  BY <1>0, StepFrame
<1> SUFFICES ASSUME ~RollBack(r) PROVE NoticeParts'
  BY NoticeRollBack
<1>1. CASE Start(r) \/ Begin(r) \/ Reserve(r) \/ Replay(r)
  <2>1. UNCHANGED <<counters, notified, hardSent, seen, limit, month, rowv, flags, hard>>
    BY <1>1 DEF Start, Begin, Reserve, Replay, committed, world, work
  <2>2. pc[r] # "notify" /\ pc'[r] # "notify"
    BY <1>0, <1>1 DEF Start, Begin, Reserve, Replay, AfterItem, CallOK
  <2>3. TotalOK(r)'
    <3>1. CASE Start(r) \/ Replay(r)
      <4>1. pc'[r] \in {"begin", "commit"} /\ now' = now /\ month' = month
        BY <1>0, <3>1 DEF Start, Replay, AfterItem, CallOK, world
      <4> QED
        BY <1>0, <4>1 DEF TotalOK
    <3>2. CASE Begin(r)
      <4>1. now'[r] = month /\ month' = month /\ month \in Nat /\ op' = op
        BY <1>0, <3>2 DEF Begin, CallOK, TablesOK, Months, world, call
      <4>2. op[r] = "record" => cap'[r] = Unlimited
        BY <1>0, <3>2 DEF Begin, CallOK
      <4> QED
        BY <2>2, <4>1, <4>2 DEF TotalOK
    <3>3. CASE Reserve(r)
      BY <1>0, <2>2, <3>3 DEF Reserve, TotalOK, world, call
    <3> QED
      BY <1>1, <3>1, <3>2, <3>3
  <2> QED
    BY <1>a, <2>1, <2>2, <2>3, NoticeQuiet
<1> QED
  BY <1>1, NoticeCount, NoticeNotify, NoticeCommit DEF Step, ReplayGone, Breach

\* A limit that changes may be announced once more; a new month starts at zero.
LEMMA NoticeEnvironment ==
    ASSUME NoticeInv, Environment \/ UNCHANGED vars
    PROVE  NoticeParts'
<1>0. /\ TypeInv /\ CallOK /\ TablesOK /\ WorkOK /\ SeenOK /\ SeenFinite /\ FutureOK /\ HardDone /\ SoftLimitNoticed
      /\ \A r \in Requests : TotalOK(r) /\ \A b \in Buckets : HardOK(r, b)
      /\ \A r \in Requests : \A m \in Metrics : WarnOK(r, m)
  BY DEF NoticeInv, NoticeParts, LimitInv, LimitParts, DriftInv, TypeInv, TypeOK
<1>1. /\ UNCHANGED <<counters, notified, hardSent, rowv, flags, hard, total>>
      /\ UNCHANGED <<pc, op, batch, pos, now, cap>>
  BY DEF Environment, ChangeLimit, NextMonth, PurgeKey, vars, committed, work, call
<1>2. \A r \in Requests : Current(r)' = Current(r)
  BY <1>1 DEF Current
<1>3. \A r \in Requests : \A b \in Buckets : Holds(r, b)' = Holds(r, b) /\ RowTotal(r, b)' = RowTotal(r, b)
  BY <1>1 DEF Holds, RowTotal
<1>4. \/ month' = month /\ month \in Nat
      \/ month' = month + 1 /\ month \in Nat /\ seen' = seen /\ limit' = limit
  BY <1>0 DEF Environment, ChangeLimit, NextMonth, PurgeKey, vars, world, TablesOK, Months
<1>5. \/ seen' = seen /\ limit' = limit
      \/ \E m \in Metrics, l \in LimitValues :
             /\ l # limit[m] /\ limit' = [limit EXCEPT ![m] = l]
             /\ seen' = [seen EXCEPT ![m] = @ \cup {l}] /\ month' = month
  BY DEF Environment, ChangeLimit, NextMonth, PurgeKey, vars, world
<1>6. \A m \in Metrics :
          \/ seen'[m] = seen[m] /\ limit'[m] = limit[m]
          \/ \E l : seen'[m] = seen[m] \cup {l} /\ limit'[m] = l /\ l # limit[m]
  BY <1>0, <1>5 DEF TablesOK
<1>7. SeenFinite'
  <2>1. ASSUME NEW m \in Metrics PROVE IsFiniteSet(seen'[m])
    <3>1. IsFiniteSet(seen[m])
      BY <1>0 DEF SeenFinite
    <3>2. \A l : IsFiniteSet(seen[m] \cup {l})
      BY <3>1, FS_AddElement
    <3> QED
      BY <1>6, <3>1, <3>2
  <2> QED
    BY <2>1 DEF SeenFinite
<1>8. \A m \in Metrics : \A x : Due(m, x)' => Due(m, x)
  <2> SUFFICES ASSUME NEW m \in Metrics, NEW x, seen'[m] # seen[m] \/ limit'[m] # limit[m]
               PROVE  seen'[m] # {limit'[m]}
    BY DEF Due, Threshold
  <2>1. PICK l : seen'[m] = seen[m] \cup {l} /\ limit'[m] = l /\ l # limit[m]
    BY <1>6
  <2>2. limit[m] \in seen'[m]
    BY <1>0, <2>1 DEF SeenOK
  <2> QED
    BY <2>1, <2>2
<1>9. TypeInv'
  BY <1>0, NextType DEF Next
<1>10. ASSUME NEW b \in Buckets, NEW x \in Int
       PROVE  \A S : S = UpTo(b, x)' =>
                 /\ Cardinality(UpTo(b, x)) <= Cardinality(S)
                 /\ Cardinality(UpTo(b, x)) \in Nat /\ Cardinality(S) \in Nat
  <2>1. PICK m \in Metrics : m = b[1]
    BY DEF Buckets
  <2>2. IsFiniteSet(seen'[m]) /\ seen[m] \subseteq seen'[m]
    BY <1>6, <1>7, <2>1 DEF SeenFinite
  <2>3. PICK S : S = UpTo(b, x)'
    OBVIOUS
  <2>4. S \subseteq seen'[m] /\ UpTo(b, x) \subseteq S
    BY <2>1, <2>2, <2>3 DEF UpTo
  <2>5. IsFiniteSet(S)
    BY <2>2, <2>4, FS_Subset
  <2>6. IsFiniteSet(UpTo(b, x)) /\ Cardinality(UpTo(b, x)) <= Cardinality(S)
    BY <2>4, <2>5, FS_Subset
  <2> QED
    BY <2>3, <2>5, <2>6, FS_CardinalityType
<1>11. ASSUME NEW r \in Requests PROVE TotalOK(r)'
  <2>1. now[r] \in Nat
    BY <1>0 DEF CallOK, Months
  <2>2. op[r] = "consume" => BucketOf(r)' = BucketOf(r)
    BY <1>1, <1>2 DEF BucketOf
  <2> QED
    BY <1>0, <1>1, <1>4, <2>1, <2>2 DEF TotalOK
<1>12. HardDone'
  <2>1. ASSUME NEW b \in Buckets PROVE hardSent'[b] <= Cardinality(UpTo(b, counters[b])')
    <3>1. PICK x \in Nat : x = counters[b]
      BY <1>0 DEF TablesOK
    <3>2. PICK S : S = UpTo(b, x)'
      OBVIOUS
    <3>3. UpTo(b, counters[b])' = S
      BY <1>1, <3>1, <3>2 DEF UpTo
    <3>4. hardSent[b] \in Nat /\ hardSent[b] <= Cardinality(UpTo(b, x))
      BY <1>0, <3>1 DEF HardDone, TablesOK
    <3>5. Cardinality(UpTo(b, x)) <= Cardinality(S) /\ Cardinality(UpTo(b, x)) \in Nat /\ Cardinality(S) \in Nat
      BY <1>10, <3>2
    <3> QED
      BY <1>1, <3>3, <3>4, <3>5
  <2> QED
    BY <2>1 DEF HardDone
<1>13. ASSUME NEW r \in Requests, NEW b \in Buckets PROVE HardOK(r, b)'
  <2>1. op[r] = "consume" => BucketOf(r)' = BucketOf(r)
    BY <1>1, <1>2 DEF BucketOf
  <2>2. PICK x \in Int : x = Announced(r, b)
    BY <1>0, NoticeTypes
  <2>3. Announced(r, b)' = x
    BY <1>1, <1>3, <2>1, <2>2 DEF Announced
  <2>4. PICK S : S = UpTo(b, x)'
    OBVIOUS
  <2>5. UpTo(b, Announced(r, b))' = S
    BY <2>3, <2>4 DEF UpTo
  <2>6. HardOK(r, b) /\ hardSent[b] \in Nat /\ hard[r][b] \in Nat
    BY <1>0, NoticeTypes
  <2>7. Cardinality(UpTo(b, x)) <= Cardinality(S) /\ Cardinality(UpTo(b, x)) \in Nat /\ Cardinality(S) \in Nat
    BY <1>10, <2>4
  <2>8. hardSent[b] + hard[r][b] <= Cardinality(UpTo(b, x))
    BY <2>2, <2>6 DEF HardOK
  <2>9. hardSent[b] + hard[r][b] <= Cardinality(S)
    BY <2>6, <2>7, <2>8
  <2> QED
    BY <1>1, <1>3, <2>5, <2>6, <2>9 DEF HardOK
<1>14. FutureOK'
  <2>1. \A b \in Buckets : b[2] > month' => b[2] > month
    BY <1>4 DEF Buckets, Months
  <2> QED
    BY <1>0, <1>1, <1>3, <2>1 DEF FutureOK
<1>15. ASSUME NEW m \in Metrics
       PROVE  /\ Due(m, counters[<<m, month>>])' => <<m, month>>' \in notified'
              /\ \A r \in Requests : WarnOK(r, m)'
  <2>m. <<m, month'>> \in Buckets
    BY <1>9 DEF TypeInv, TypeOK, TablesOK, Buckets
  <2>1. CASE month' = month
    <3>1. Due(m, counters[<<m, month>>])' => Due(m, counters[<<m, month>>])
      BY <1>1, <1>8, <2>1 DEF Due
    <3>2. Due(m, counters[<<m, month>>])' => <<m, month>> \in notified
      BY <1>0, <3>1 DEF SoftLimitNoticed, Due
    <3>3. ASSUME NEW r \in Requests PROVE WarnOK(r, m)'
      <4>1. WarnOK(r, m)
        BY <1>0
      <4>2. Due(m, rowv[r][<<m, month>>])' => Due(m, rowv[r][<<m, month>>])
        BY <1>1, <1>8, <2>1 DEF Due
      <4> QED
        BY <1>1, <1>2, <2>1, <4>1, <4>2 DEF WarnOK, Holds
    <3> QED
      BY <1>1, <2>1, <3>2, <3>3
  <2>2. CASE month' = month + 1 /\ month \in Nat
    <3>1. PICK b \in Buckets : b = <<m, month'>>
      BY <2>m
    <3>2. counters[b] = 0 /\ \A r \in Requests : ~Holds(r, b)
      BY <1>0, <2>2, <3>1 DEF FutureOK
    <3>3. counters'[<<m, month'>>] = 0 /\ \A r \in Requests : rowv'[r][<<m, month'>>] = Free
      BY <1>1, <3>1, <3>2 DEF Holds
    <3>4. \A r \in Requests : WarnOK(r, m)'
      BY <3>3 DEF WarnOK, Holds
    <3>5. ~Due(m, counters[<<m, month>>])'
      BY <3>3 DEF Due
    <3> QED
      BY <3>4, <3>5
  <2> QED
    BY <1>4, <2>1, <2>2
<1>16. SoftLimitNoticed'
  BY <1>15 DEF SoftLimitNoticed, Due
<1> QED
  BY <1>7, <1>11, <1>12, <1>13, <1>14, <1>15, <1>16 DEF NoticeParts

LEMMA InitNotice == Init => NoticeInv
<1> SUFFICES ASSUME Init PROVE NoticeParts
  BY InitLimit, SoftInit DEF NoticeInv
<1>0. TypeInv
  BY InitType
<1>1. \A r \in Requests : /\ pc[r] = "idle" /\ now[r] = 1
                          /\ \A b \in Buckets : rowv[r][b] = Free /\ hard[r][b] = 0
  BY DEF Init, NoRows, NoCounts
<1>2. \A b \in Buckets : counters[b] = 0 /\ hardSent[b] = 0
  BY DEF Init, NoCounts
<1>3. SeenFinite
  BY FS_Singleton DEF Init, SeenFinite
<1>4. \A b \in Buckets : Cardinality(UpTo(b, 0)) \in Nat
  BY <1>0, <1>3, UpToGrows
<1>5. HardDone
  BY <1>2, <1>4 DEF HardDone
<1>6. ASSUME NEW r \in Requests, NEW b \in Buckets PROVE HardOK(r, b)
  <2>1. Announced(r, b) = 0
    BY <1>1, <1>2 DEF Announced, RowTotal, Holds
  <2> QED
    BY <1>1, <1>2, <1>4, <2>1 DEF HardOK
<1>7. month = 1 /\ month \in Months
  BY <1>0 DEF Init, TypeInv, TypeOK, TablesOK
<1>8. \A r \in Requests : TotalOK(r)
  BY <1>1, <1>7 DEF TotalOK
<1>9. \A r \in Requests : \A m \in Metrics : WarnOK(r, m)
  BY <1>1, <1>7 DEF WarnOK, Holds, Buckets
<1>10. FutureOK
  BY <1>1, <1>2 DEF FutureOK, Holds
<1>11. SoftLimitNoticed
  BY <1>2, <1>7 DEF SoftLimitNoticed, Buckets
<1> QED
  BY <1>3, <1>5, <1>6, <1>8, <1>9, <1>10, <1>11 DEF NoticeParts

LEMMA NextNotice == NoticeInv /\ [Next]_vars => NoticeInv'
<1> SUFFICES ASSUME NoticeInv, [Next]_vars PROVE NoticeParts'
  BY NextLimit, SoftNext DEF NoticeInv, LimitInv, DriftInv, RollupNext
<1>1. CASE \E r \in Requests : Step(r)
  BY <1>1, NoticeStep
<1>2. CASE \E r \in Requests : Fail(r) \/ DeadlockAbort(r)
  BY <1>2, NoticeRollBack DEF Fail, DeadlockAbort
<1>3. CASE Environment \/ UNCHANGED vars
  BY <1>3, NoticeEnvironment
<1> QED
  BY <1>1, <1>2, <1>3 DEF Next

\* However many requests arrive at a limit together, roll back or jump over it, each
\* limit value is announced once at most, the warning once a month, and a month whose
\* usage has reached the soft limit has had its warning.
THEOREM NoticesAreRight == Spec => []LimitNotices
<1>1. NoticeInv => LimitNotices
  <2> SUFFICES ASSUME NoticeInv PROVE HardLimitOnce /\ SoftLimitOnce /\ SoftLimitNoticed
    BY DEF LimitNotices
  <2>0. TypeInv /\ TablesOK /\ SentOK /\ HardDone /\ SeenFinite /\ SoftLimitNoticed
    BY DEF NoticeInv, NoticeParts, SoftParts, LimitInv, DriftInv, TypeInv, TypeOK
  <2>1. SoftLimitOnce
    BY <2>0 DEF SentOK, SoftLimitOnce
  <2>2. ASSUME NEW m \in Metrics, NEW p \in Months
        PROVE  hardSent[<<m, p>>] <= Cardinality(seen[m] \ {Unlimited})
    <3>1. PICK b \in Buckets, x \in Nat, h \in Nat : b = <<m, p>> /\ x = counters[b] /\ h = hardSent[b]
      BY <2>0 DEF TablesOK, Buckets
    <3>2. h <= Cardinality(UpTo(b, x)) /\ Cardinality(UpTo(b, x)) \in Nat
      BY <2>0, <3>1, UpToGrows DEF HardDone
    <3>3. UpTo(b, x) \subseteq seen[m] \ {Unlimited} /\ seen[m] \ {Unlimited} \subseteq seen[m]
      BY <3>1 DEF UpTo
    <3>4. IsFiniteSet(seen[m] \ {Unlimited})
      BY <2>0, <3>3, FS_Subset DEF SeenFinite
    <3>5. Cardinality(UpTo(b, x)) <= Cardinality(seen[m] \ {Unlimited})
      BY <3>3, <3>4, FS_Subset
    <3>6. Cardinality(seen[m] \ {Unlimited}) \in Nat
      BY <3>4, FS_CardinalityType
    <3> QED
      BY <3>1, <3>2, <3>5, <3>6
  <2> QED
    BY <2>0, <2>1, <2>2 DEF HardLimitOnce
<1> QED
  BY InitNotice, NextNotice, <1>1, PTL DEF Spec

----------------------------------------------------------------------------
(* The refinement.  What an open transaction holds is the effect of some   *)
(* of the events it has been through: those it counted, each in a month.   *)

Quantities(B) == [i \in DOMAIN B |-> B[i].quantity]
InBucket(B, C, w, b) == {i \in C : <<B[i].metric, w[i]>> = b}
Put(B, C, w, b) == SumFunctionOnSet(Quantities(B), InBucket(B, C, w, b))
KeysOf(B, C) == {B[i].key : i \in C} \ {NoKey}
UpToItem(C, i) == {j \in C : j <= i}
BeforeItem(C, i) == {j \in C : j < i}

\* The uncommitted events are those counted, and their rows are locked.
Weighed(B, C, w, E, R) ==
    /\ \A b \in Buckets : E[b] = Put(B, C, w, b)
    /\ \A i \in C : R[<<B[i].metric, w[i]>>] # Free

\* No two counted events have the same key.
Distinct(B, C) == \A i \in C : B[i].key \notin KeysOf(B, BeforeItem(C, i))

\* An event that was not counted has a key that was answered.
Excused(B, C, p, o) ==
    \A i \in DOMAIN B \ C : i < p => B[i].key \in KeysOf(B, BeforeItem(C, i)) \cup o

\* Reserved keys are those of the counted events and of the one in hand.
Kept(B, C, K, h) ==
    /\ \A k \in Keys : K[k] # NoRow <=> k \in KeysOf(B, C) \cup h
    /\ h \cap KeysOf(B, C) = {}

\* Each counted event was within a limit that was in effect.
Admitted(B, C, w, used, inForce) ==
    \A i \in C : \E l \in inForce[B[i].metric] :
        \/ l = Unlimited
        \/ used[<<B[i].metric, w[i]>>] + Put(B, UpToItem(C, i), w, <<B[i].metric, w[i]>>) <= l

Once == {k \in Keys : ledger[k] # NoRow \/ purged[k] > 0}
InHand(r) == IF pc[r] = "count" THEN {Current(r).key} ELSE {}

Reached(C, p, at) == /\ \A i \in C : i < p \/ (at = "notify" /\ i = p)
                     /\ at = "notify" => p \in C

Tally(r, C, w) ==
    /\ C \in SUBSET DOMAIN batch[r] /\ w \in [DOMAIN batch[r] -> Months]
    /\ Reached(C, pos[r], pc[r])
    /\ Weighed(batch[r], C, w, evs[r], rowv[r])
    /\ Distinct(batch[r], C)
    /\ Excused(batch[r], C, pos[r], Once)
    /\ Kept(batch[r], C, keyrows[r], InHand(r))
    /\ op[r] = "consume" => Admitted(batch[r], C, w, counters, seen)

Tallied(r) == \E C, w : Tally(r, C, w)

TallyOK(r) ==
    /\ pc[r] = "idle" => \A k \in Keys : keyrows[r][k] = NoRow
    /\ Open(r) => batch[r] \in Batches /\ Tallied(r)
    /\ pc[r] = "commit" => pos[r] = Len(batch[r]) + 1

MeterInv == LimitInv /\ KeyParts /\ \A r \in Requests : TallyOK(r)

----------------------------------------------------------------------------
(* Facts about the operators *)

LEMMA SumOfMeter == ASSUME NEW f, NEW S PROVE Meter!SumFunctionOnSet(f, S) = SumFunctionOnSet(f, S)
BY Zenon DEF Meter!SumFunctionOnSet, SumFunctionOnSet, Meter!FoldFunctionOnSet, FoldFunctionOnSet,
             Meter!MapThenFoldSet, MapThenFoldSet

LEMMA PutOfMeter ==
    ASSUME NEW B, NEW C, NEW w, NEW b
    PROVE  Meter!Put(B, C, w, b) = Put(B, C, w, b)
BY SumOfMeter DEF Meter!Put, Put, Quantities, InBucket

LEMMA Batch ==
    ASSUME NEW B \in Batches
    PROVE  /\ B \in Seq(Item) /\ Len(B) \in Nat /\ DOMAIN B = 1..Len(B) /\ IsFiniteSet(DOMAIN B)
           /\ \A i \in DOMAIN B : B[i] \in Item /\ B[i].metric \in Metrics /\ B[i].quantity \in Nat \ {0}
                                  /\ B[i].key \in Keys \cup {NoKey} /\ i \in Nat
<1>1. B \in Seq(Item)
  BY BatchAssumption
<1>2. Len(B) \in Nat /\ DOMAIN B = 1..Len(B) /\ \A i \in DOMAIN B : B[i] \in Item
  BY <1>1
<1>3. IsFiniteSet(1..Len(B))
  BY <1>2, FS_Interval
<1> QED
  BY <1>1, <1>2, <1>3 DEF Item

LEMMA PutSummable ==
    ASSUME NEW B \in Batches, NEW C \in SUBSET DOMAIN B, NEW w, NEW b
    PROVE  Summable(Quantities(B), InBucket(B, C, w, b))
<1>1. IsFiniteSet(DOMAIN B) /\ \A i \in DOMAIN B : B[i].quantity \in Nat \ {0}
  BY Batch
<1>2. InBucket(B, C, w, b) \in SUBSET DOMAIN B
  BY DEF InBucket
<1>3. IsFiniteSet(InBucket(B, C, w, b))
  BY <1>1, <1>2, FS_Subset
<1> QED
  BY <1>1, <1>2, <1>3 DEF Summable, Quantities

LEMMA PutNone ==
    ASSUME NEW B \in Batches, NEW w, NEW b
    PROVE  Put(B, {}, w, b) = 0
<1>1. InBucket(B, {}, w, b) = {}
  BY DEF InBucket
<1> QED
  BY <1>1, SumEmpty DEF Put

\* Only the months of the counted events matter.
LEMMA PutSame ==
    ASSUME NEW B, NEW C, NEW v, NEW w, NEW b, \A i \in C : v[i] = w[i]
    PROVE  Put(B, C, v, b) = Put(B, C, w, b)
<1>1. InBucket(B, C, v, b) = InBucket(B, C, w, b)
  BY DEF InBucket
<1> QED
  BY <1>1 DEF Put

\* What event p puts into bucket b.
Share(B, p, w, b) == IF <<B[p].metric, w[p]>> = b THEN B[p].quantity ELSE 0

LEMMA PutOne ==
    ASSUME NEW B \in Batches, NEW C \in SUBSET DOMAIN B, NEW p \in DOMAIN B, p \notin C, NEW w, NEW b
    PROVE  Put(B, C \cup {p}, w, b) = Put(B, C, w, b) + Share(B, p, w, b)
<1>0. Summable(Quantities(B), InBucket(B, C, w, b))
  BY PutSummable
<1>1. CASE <<B[p].metric, w[p]>> = b
  <2>1. InBucket(B, C \cup {p}, w, b) = InBucket(B, C, w, b) \cup {p}
    BY <1>1 DEF InBucket
  <2>2. p \notin InBucket(B, C, w, b)
    BY DEF InBucket
  <2>3. Quantities(B)[p] = B[p].quantity /\ B[p].quantity \in Int
    BY Batch DEF Quantities
  <2>4. SumFunctionOnSet(Quantities(B), InBucket(B, C, w, b) \cup {p})
          = SumFunctionOnSet(Quantities(B), InBucket(B, C, w, b)) + B[p].quantity
    BY <1>0, <2>2, <2>3, SumInsert
  <2> QED
    BY <1>1, <2>1, <2>4 DEF Put, Share
<1>2. CASE <<B[p].metric, w[p]>> # b
  <2>1. \A i \in C \cup {p} : <<B[i].metric, w[i]>> = b => i \in C
    BY <1>2
  <2>2. InBucket(B, C \cup {p}, w, b) = InBucket(B, C, w, b)
    BY <2>1 DEF InBucket
  <2>3. Put(B, C, w, b) \in Int
    BY <1>0, SumType DEF Put
  <2>4. Put(B, C \cup {p}, w, b) = Put(B, C, w, b) /\ Share(B, p, w, b) = 0
    BY <1>2, <2>2 DEF Put, Share
  <2> QED
    BY <2>3, <2>4
<1> QED
  BY <1>1, <1>2

LEMMA KeysOne ==
    ASSUME NEW B, NEW C, NEW p
    PROVE  KeysOf(B, C \cup {p}) = KeysOf(B, C) \cup ({B[p].key} \ {NoKey})
BY DEF KeysOf

----------------------------------------------------------------------------
(* One more event is counted *)

\* Event p of batch B is counted in month m, after those in C.
Adds(B, C, w, p, m, v) ==
    /\ B \in Batches /\ C \in SUBSET DOMAIN B /\ p \in DOMAIN B /\ \A i \in C : i < p
    /\ w \in [DOMAIN B -> Months] /\ m \in Months /\ v = [w EXCEPT ![p] = m]

Added(B, C, w, p, m, v) ==
    /\ p \notin C /\ p \in Nat /\ C \cup {p} \in SUBSET DOMAIN B /\ v \in [DOMAIN B -> Months]
    /\ v[p] = m
    /\ \A i \in C : v[i] = w[i]
    /\ BeforeItem(C \cup {p}, p) = C /\ UpToItem(C \cup {p}, p) = C \cup {p}
    /\ \A i \in DOMAIN B : i < p => BeforeItem(C \cup {p}, i) = BeforeItem(C, i)
    /\ \A i \in C : UpToItem(C \cup {p}, i) = UpToItem(C, i)

LEMMA AddedOne ==
    ASSUME NEW B, NEW C, NEW w, NEW p, NEW m, NEW v, Adds(B, C, w, p, m, v)
    PROVE  Added(B, C, w, p, m, v)
<1>1. DOMAIN B = 1..Len(B) /\ Len(B) \in Nat
  BY Batch DEF Adds
<1>2. p \in Nat /\ p \notin C /\ \A i \in C : i \in Nat /\ i < p /\ i # p
  BY <1>1 DEF Adds
<1>3. C \cup {p} \in SUBSET DOMAIN B /\ v \in [DOMAIN B -> Months] /\ v[p] = m /\ \A i \in C : v[i] = w[i]
  BY <1>2 DEF Adds
<1>4. BeforeItem(C \cup {p}, p) = C
  BY <1>2 DEF BeforeItem
<1>5. UpToItem(C \cup {p}, p) = C \cup {p}
  BY <1>2 DEF UpToItem
<1>6. ASSUME NEW i \in DOMAIN B, i < p PROVE BeforeItem(C \cup {p}, i) = BeforeItem(C, i)
  <2>1. ~(p < i)
    BY <1>1, <1>2, <1>6
  <2> QED
    BY <2>1 DEF BeforeItem
<1>7. ASSUME NEW i \in C PROVE UpToItem(C \cup {p}, i) = UpToItem(C, i)
  <2>1. ~(p <= i)
    BY <1>2
  <2> QED
    BY <2>1 DEF UpToItem
<1> QED
  BY <1>2, <1>3, <1>4, <1>5, <1>6, <1>7 DEF Added

\* The uncommitted events go from E to F by event p, the row versions from R to S.
Writes(B, p, m, E, F, R, S) ==
    LET b == <<B[p].metric, m>> IN
    /\ F[b] = E[b] + B[p].quantity /\ S[b] # Free
    /\ \A c \in Buckets \ {b} : F[c] = E[c]
    /\ \A c \in Buckets : R[c] # Free => S[c] # Free

LEMMA WeighedOne ==
    ASSUME NEW B, NEW C, NEW w, NEW p, NEW m, NEW v, Adds(B, C, w, p, m, v),
           NEW E \in [Buckets -> Nat], NEW R, NEW F, NEW S, Weighed(B, C, w, E, R), Writes(B, p, m, E, F, R, S)
    PROVE  Weighed(B, C \cup {p}, v, F, S)
<1>b. PICK b : b = <<B[p].metric, m>>
  OBVIOUS
<1>a. Added(B, C, w, p, m, v)
  BY AddedOne
<1>0. /\ B \in Batches /\ C \in SUBSET DOMAIN B /\ p \in DOMAIN B /\ p \notin C /\ v[p] = m
      /\ \A i \in C : v[i] = w[i]
  BY <1>a DEF Added, Adds
<1>1. ASSUME NEW c \in Buckets PROVE F[c] = Put(B, C \cup {p}, v, c)
  <2>1. E[c] = Put(B, C, w, c) /\ Put(B, C, v, c) = Put(B, C, w, c)
    BY <1>0, PutSame DEF Weighed
  <2>2. F[c] = IF c = b THEN E[c] + B[p].quantity ELSE E[c]
    BY <1>b DEF Writes
  <2>3. Put(B, C \cup {p}, v, c) = Put(B, C, v, c) + Share(B, p, v, c)
    BY <1>0, PutOne
  <2>4. Share(B, p, v, c) = IF c = b THEN B[p].quantity ELSE 0
    BY <1>0, <1>b DEF Share
  <2> QED
    BY <2>1, <2>2, <2>3, <2>4
<1>2. ASSUME NEW i \in C \cup {p} PROVE S[<<B[i].metric, v[i]>>] # Free
  <2>1. CASE i = p
    BY <1>0, <2>1 DEF Writes
  <2>2. CASE i \in C
    <3>1. v[i] = w[i] /\ R[<<B[i].metric, w[i]>>] # Free
      BY <1>0, <2>2 DEF Weighed
    <3>2. <<B[i].metric, w[i]>> \in Buckets
      BY <1>0, <2>2, Batch DEF Adds, Buckets
    <3> QED
      BY <3>1, <3>2 DEF Writes
  <2> QED
    BY <2>1, <2>2
<1> QED
  BY <1>1, <1>2 DEF Weighed

LEMMA KeysAfterOne ==
    ASSUME NEW B, NEW C, NEW w, NEW p, NEW m, NEW v, Adds(B, C, w, p, m, v), NEW K, NEW o,
           Distinct(B, C), Excused(B, C, p, o), Kept(B, C, K, {B[p].key})
    PROVE  /\ Distinct(B, C \cup {p}) /\ Excused(B, C \cup {p}, p, o) /\ Kept(B, C \cup {p}, K, {})
<1>a. Added(B, C, w, p, m, v)
  BY AddedOne
<1>0. /\ p \in DOMAIN B /\ C \in SUBSET DOMAIN B /\ \A i \in C : i < p
      /\ BeforeItem(C \cup {p}, p) = C
      /\ \A i \in DOMAIN B : i < p => BeforeItem(C \cup {p}, i) = BeforeItem(C, i)
  BY <1>a DEF Added, Adds
<1>1. Distinct(B, C \cup {p})
  <2>1. B[p].key \notin KeysOf(B, C)
    BY DEF Kept
  <2> QED
    BY <1>0, <2>1 DEF Distinct
<1>2. Excused(B, C \cup {p}, p, o)
  BY <1>0 DEF Excused
<1>3. Kept(B, C \cup {p}, K, {})
  BY KeysOne, KeyAssumption DEF Kept
<1> QED
  BY <1>1, <1>2, <1>3

LEMMA AdmittedOne ==
    ASSUME NEW B, NEW C, NEW w, NEW p, NEW m, NEW v, Adds(B, C, w, p, m, v),
           NEW used, NEW inForce, Admitted(B, C, w, used, inForce),
           NEW l \in inForce[B[p].metric],
           l = Unlimited \/ used[<<B[p].metric, m>>] + Put(B, C \cup {p}, v, <<B[p].metric, m>>) <= l
    PROVE  Admitted(B, C \cup {p}, v, used, inForce)
<1>a. Added(B, C, w, p, m, v)
  BY AddedOne
<1>0. /\ p \notin C /\ v[p] = m /\ UpToItem(C \cup {p}, p) = C \cup {p}
      /\ \A i \in C : v[i] = w[i] /\ UpToItem(C \cup {p}, i) = UpToItem(C, i)
  BY <1>a DEF Added
<1> SUFFICES ASSUME NEW i \in C \cup {p}
             PROVE  \E x \in inForce[B[i].metric] :
                       \/ x = Unlimited
                       \/ used[<<B[i].metric, v[i]>>]
                             + Put(B, UpToItem(C \cup {p}, i), v, <<B[i].metric, v[i]>>) <= x
  BY DEF Admitted
<1>1. CASE i = p
  BY <1>0, <1>1
<1>2. CASE i \in C
  <2>1. Put(B, UpToItem(C, i), v, <<B[i].metric, w[i]>>) = Put(B, UpToItem(C, i), w, <<B[i].metric, w[i]>>)
    BY <1>0, PutSame DEF UpToItem
  <2> QED
    BY <1>0, <1>2, <2>1 DEF Admitted
<1> QED
  BY <1>1, <1>2

----------------------------------------------------------------------------
(* What the steps of the others leave of a transaction *)

LEMMA AdmittedStays ==
    ASSUME TypeInv, NEW B \in Batches, NEW C \in SUBSET DOMAIN B, NEW w \in [DOMAIN B -> Months],
           NEW E, NEW R, Weighed(B, C, w, E, R), Admitted(B, C, w, counters, seen),
           \A b \in Buckets : R[b] # Free => counters'[b] = counters[b],
           \A m \in Metrics : seen[m] \subseteq seen'[m]
    PROVE  Admitted(B, C, w, counters', seen')
<1> SUFFICES ASSUME NEW i \in C
             PROVE  \E l \in seen'[B[i].metric] :
                       \/ l = Unlimited
                       \/ counters'[<<B[i].metric, w[i]>>]
                             + Put(B, UpToItem(C, i), w, <<B[i].metric, w[i]>>) <= l
  BY DEF Admitted
<1>1. B[i].metric \in Metrics /\ <<B[i].metric, w[i]>> \in Buckets
  BY Batch DEF Buckets
<1>2. counters'[<<B[i].metric, w[i]>>] = counters[<<B[i].metric, w[i]>>]
  BY <1>1 DEF Weighed
<1> QED
  BY <1>1, <1>2 DEF Admitted

LEMMA TallyStays ==
    ASSUME TypeInv, NEW r \in Requests, TallyOK(r),
           pc'[r] = pc[r] /\ op'[r] = op[r] /\ batch'[r] = batch[r] /\ pos'[r] = pos[r],
           evs'[r] = evs[r] /\ rowv'[r] = rowv[r] /\ keyrows'[r] = keyrows[r],
           \A b \in Buckets : Holds(r, b) => counters'[b] = counters[b],
           Once \subseteq Once', \A m \in Metrics : seen[m] \subseteq seen'[m]
    PROVE  TallyOK(r)'
<1>1. ASSUME Open(r) PROVE Tallied(r)'
  <2>1. batch[r] \in Batches /\ Tallied(r)
    BY <1>1 DEF TallyOK
  <2>2. PICK C, w : Tally(r, C, w)
    BY <2>1 DEF Tallied
  <2>3. Excused(batch[r], C, pos[r], Once')
    BY <2>2 DEF Tally, Excused
  <2>4. InHand(r)' = InHand(r)
    BY DEF InHand, Current
  <2>5. op[r] = "consume" => Admitted(batch[r], C, w, counters', seen')
    BY <2>1, <2>2, AdmittedStays DEF Tally, Holds
  <2>6. Tally(r, C, w)'
    BY <2>2, <2>3, <2>4, <2>5 DEF Tally
  <2> QED
    BY <2>6 DEF Tallied
<1>2. Open(r)' <=> Open(r)
  BY DEF Open
<1> QED
  BY <1>1, <1>2 DEF TallyOK

\* A step that commits nothing leaves the tables, and so the other transactions.
LEMMA TallyOthers ==
    ASSUME MeterInv, NEW r \in Requests, Frame(r), UNCHANGED <<counters, ledger, seen, purged>>
    PROVE  \A s \in Requests \ {r} : TallyOK(s)'
<1> SUFFICES ASSUME NEW s \in Requests, s # r PROVE TallyOK(s)'
  OBVIOUS
<1>1. TypeInv /\ TallyOK(s)
  BY DEF MeterInv, LimitInv, DriftInv
<1>2. Once' = Once
  BY DEF Once
<1> QED
  BY <1>1, <1>2, TallyStays DEF Frame

LEMMA TallyRollBack ==
    ASSUME MeterInv, NEW r \in Requests, RollBack(r)
    PROVE  \A s \in Requests : TallyOK(s)'
<1>1. TypeInv /\ CallOK
  BY DEF MeterInv, LimitInv, DriftInv, TypeInv, TypeOK
<1>2. pc'[r] = "done"
  BY <1>1 DEF RollBack, CallOK
<1>3. TallyOK(r)'
  BY <1>2 DEF TallyOK, Open
<1>4. UNCHANGED <<counters, ledger, seen, purged>>
  BY DEF RollBack, committed, world
<1> QED
  BY <1>1, <1>3, <1>4, RollBackFrame, TallyOthers

----------------------------------------------------------------------------
(* A step of the transaction itself *)

\* What the invariants say of an open transaction.
OpenFacts(r, B, C, w) ==
    /\ B = batch[r] /\ B \in Batches /\ C \in SUBSET DOMAIN B /\ w \in [DOMAIN B -> Months]
    /\ Tally(r, C, w)

LEMMA Opened ==
    ASSUME MeterInv, NEW r \in Requests, Open(r)
    PROVE  \E B, C, w : OpenFacts(r, B, C, w)
<1>1. batch[r] \in Batches /\ Tallied(r)
  BY DEF MeterInv, TallyOK
<1>2. PICK C, w : Tally(r, C, w)
  BY <1>1 DEF Tallied
<1> QED
  BY <1>1, <1>2 DEF OpenFacts, Tally

LEMMA MeterTypes ==
    ASSUME MeterInv
    PROVE  /\ TablesOK /\ CallOK /\ WorkOK /\ TypeInv /\ LocksOK /\ RowsOK
BY DEF MeterInv, LimitInv, DriftInv, TypeInv, TypeOK

\* The first statement.
LEMMA TallyStart ==
    ASSUME MeterInv, NEW r \in Requests, Start(r)
    PROVE  TallyOK(r)'
<1>1. PICK B \in Batches : batch' = [batch EXCEPT ![r] = B]
  BY DEF Start
<1>2. /\ pc[r] = "idle" /\ pc'[r] = "begin" /\ batch'[r] = B /\ pos'[r] = 1
      /\ evs' = evs /\ keyrows' = keyrows /\ rowv' = rowv
  BY <1>1, MeterTypes DEF Start, CallOK, TypeInv, PosInv, PosOK, work
<1>3. /\ \A b \in Buckets : evs[r][b] = 0
      /\ \A k \in Keys : keyrows[r][k] = NoRow
  BY <1>2 DEF MeterInv, TallyOK, LimitInv, LimitParts, FreshOK
<1>4. PICK w : w = [i \in DOMAIN B |-> 1]
  OBVIOUS
<1>5. w \in [DOMAIN B -> Months]
  BY <1>4, MonthAssumption DEF Months
<1>6. Weighed(B, {}, w, evs[r], rowv[r])
  BY <1>3, PutNone DEF Weighed
<1>7. Kept(B, {}, keyrows[r], {})
  BY <1>3 DEF Kept, KeysOf
<1>8. Distinct(B, {}) /\ Reached({}, 1, "begin") /\ \A o : Excused(B, {}, 1, o)
  BY Batch DEF Distinct, Reached, Excused
<1>9. \A used, inForce : Admitted(B, {}, w, used, inForce)
  BY DEF Admitted
<1>10. InHand(r)' = {}
  BY <1>2 DEF InHand
<1>11. Tally(r, {}, w)'
  BY <1>2, <1>5, <1>6, <1>7, <1>8, <1>9, <1>10 DEF Tally
<1> QED
  BY <1>2, <1>11 DEF TallyOK, Tallied, Open

LEMMA TallyBegin ==
    ASSUME MeterInv, NEW r \in Requests, Begin(r)
    PROVE  TallyOK(r)'
<1>1. PICK B, C, w : OpenFacts(r, B, C, w)
  BY Opened DEF Begin, Open
<1>2. /\ pc[r] = "begin" /\ pc'[r] = IF Current(r).key = NoKey THEN "count" ELSE "reserve"
      /\ UNCHANGED <<batch, pos, op, evs, rowv, keyrows, counters, ledger, seen, purged>>
  BY MeterTypes DEF Begin, CallOK, call, work, committed, world
<1>3. InHand(r) = {} /\ InHand(r)' \subseteq {NoKey} /\ Once' = Once
  BY <1>2 DEF InHand, Current, Once
<1>4. Reached(C, pos[r], pc'[r])
  BY <1>1, <1>2 DEF OpenFacts, Tally, Reached
<1>5. Kept(B, C, keyrows[r], InHand(r)')
  <2>1. Kept(B, C, keyrows[r], {})
    BY <1>1, <1>3 DEF OpenFacts, Tally
  <2> QED
    BY <1>3, <2>1, KeyAssumption DEF Kept, KeysOf
<1>6. Tally(r, C, w)'
  BY <1>1, <1>2, <1>3, <1>4, <1>5 DEF OpenFacts, Tally
<1> QED
  BY <1>1, <1>2, <1>6 DEF TallyOK, Tallied, Open, OpenFacts

LEMMA TallyReserve ==
    ASSUME MeterInv, NEW r \in Requests, Reserve(r)
    PROVE  TallyOK(r)'
<1> DEFINE k == Current(r).key
<1>1. PICK B, C, w : OpenFacts(r, B, C, w)
  BY Opened DEF Reserve, Open
<1>2. /\ pc[r] = "reserve" /\ TypeInv /\ CallOK /\ WorkOK
      /\ UNCHANGED <<batch, pos, op, evs, rowv, counters, ledger, seen, purged>>
  BY MeterTypes DEF Reserve, call, committed, world
<1>3. /\ k \in Keys /\ Current(r).metric \in Metrics /\ Current(r).quantity \in Nat \ {0}
      /\ Current(r)' = Current(r) /\ month \in Months
  BY <1>2, CurrentType, MeterTypes DEF InItem, TypeInv, PosInv, PosOK, Current, TablesOK
<1>4. Kept(B, C, keyrows[r], {})
  BY <1>1, <1>2 DEF OpenFacts, Tally, InHand
<1> HIDE DEF k
<1>5. /\ pc'[r] \in {"count", "replay"}
      /\ Kept(B, C, keyrows'[r], InHand(r)')
  <2>1. CASE KeyView(r, k) = NoRow
    <3> DEFINE row == [metric |-> Current(r).metric, quantity |-> Current(r).quantity,
                       total |-> 0, born |-> month]
    <3>1. keyrows' = [keyrows EXCEPT ![r][k] = row] /\ pc' = [pc EXCEPT ![r] = "count"]
      BY <2>1 DEF Reserve, k
    <3>2. row \in KeyRow
      BY <1>3 DEF KeyRow
    <3>3. row # NoRow
      BY <3>2, KeyAssumption
    <3> HIDE DEF row
    <3>4. pc'[r] = "count" /\ InHand(r)' = {k}
      BY <1>2, <1>3, <3>1 DEF CallOK, InHand, k
    <3>5. keyrows'[r][k] = row /\ \A j \in Keys \ {k} : keyrows'[r][j] = keyrows[r][j]
      BY <1>2, <1>3, <3>1 DEF WorkOK
    <3>6. keyrows[r][k] = NoRow
      BY <2>1 DEF KeyView
    <3>7. k \notin KeysOf(B, C)
      BY <1>3, <1>4, <3>6 DEF Kept
    <3>8. Kept(B, C, keyrows'[r], {k})
      BY <1>4, <3>3, <3>5, <3>7 DEF Kept
    <3> QED
      BY <3>4, <3>8
  <2>2. CASE KeyView(r, k) # NoRow
    <3>1. keyrows' = keyrows /\ pc' = [pc EXCEPT ![r] = "replay"]
      BY <2>2 DEF Reserve, k
    <3>2. pc'[r] = "replay" /\ InHand(r)' = {}
      BY <1>2, <3>1 DEF CallOK, InHand
    <3> QED
      BY <1>4, <3>1, <3>2
  <2> QED
    BY <2>1, <2>2
<1>6. Reached(C, pos[r], pc'[r]) /\ Once' = Once
  BY <1>1, <1>2, <1>5 DEF OpenFacts, Tally, Reached, Once
<1>7. Tally(r, C, w)'
  BY <1>1, <1>2, <1>5, <1>6 DEF OpenFacts, Tally
<1> QED
  BY <1>1, <1>2, <1>5, <1>7 DEF TallyOK, Tallied, Open, OpenFacts

\* The answer comes from a row of the ledger, or from an earlier event of the batch.
LEMMA TallyReplay ==
    ASSUME MeterInv, NEW r \in Requests, Replay(r)
    PROVE  TallyOK(r)'
<1>1. PICK B, C, w : OpenFacts(r, B, C, w)
  BY Opened DEF Replay, Open
<1>2. /\ pc[r] = "replay" /\ TypeInv /\ CallOK /\ WorkOK /\ KeyView(r, Current(r).key) # NoRow
      /\ pc'[r] = (IF pos[r] = Len(batch[r]) THEN "commit" ELSE "begin") /\ pos'[r] = pos[r] + 1
      /\ UNCHANGED <<batch, op, evs, rowv, keyrows, counters, ledger, seen, purged>>
  BY MeterTypes DEF Replay, call, work, committed, world, CallOK, AfterItem
<1>3. Current(r).key \in Keys /\ pos[r] \in 1..Len(B) /\ Current(r) = B[pos[r]]
  BY <1>1, <1>2, CurrentType DEF InItem, TypeInv, PosInv, PosOK, Current, OpenFacts
<1>4. /\ Kept(B, C, keyrows[r], {}) /\ Reached(C, pos[r], "replay") /\ InHand(r)' = {}
  BY <1>1, <1>2 DEF OpenFacts, Tally, InHand
<1>5. /\ DOMAIN B = 1..Len(B) /\ Len(B) \in Nat /\ C \in SUBSET (1..Len(B))
      /\ \A i \in C : i < pos[r]
  BY <1>1, <1>4, Batch DEF OpenFacts, Reached
<1>6. Reached(C, pos'[r], pc'[r])
  BY <1>2, <1>3, <1>5 DEF Reached
<1>7. Once' = Once
  BY <1>2 DEF Once
<1>8. Excused(B, C, pos'[r], Once)
  <2> SUFFICES ASSUME NEW i \in DOMAIN B \ C, i < pos[r] + 1
               PROVE  B[i].key \in KeysOf(B, BeforeItem(C, i)) \cup Once
    BY <1>2 DEF Excused
  <2>1. CASE i < pos[r]
    BY <1>1, <2>1 DEF OpenFacts, Tally, Excused
  <2>2. CASE i = pos[r]
    <3>1. BeforeItem(C, i) = C
      BY <1>5, <2>2 DEF BeforeItem
    <3>2. CASE keyrows[r][B[i].key] # NoRow
      BY <1>3, <1>4, <2>2, <3>1, <3>2 DEF Kept
    <3>3. CASE keyrows[r][B[i].key] = NoRow
      BY <1>2, <1>3, <2>2, <3>3 DEF KeyView, Once
    <3> QED
      BY <3>2, <3>3
  <2> QED
    BY <1>3, <1>5, <2>1, <2>2
<1>9. Tally(r, C, w)'
  BY <1>1, <1>2, <1>4, <1>6, <1>7, <1>8 DEF OpenFacts, Tally
<1> QED
  BY <1>1, <1>2, <1>9 DEF TallyOK, Tallied, Open, OpenFacts

LEMMA TallyCount ==
    ASSUME MeterInv, NEW r \in Requests, Count(r)
    PROVE  TallyOK(r)'
<1>1. PICK B, C, w : OpenFacts(r, B, C, w)
  BY Opened DEF Count, Open
<1>2. /\ pc[r] = "count" /\ TypeInv /\ CallOK /\ WorkOK /\ TablesOK /\ RowsOK
      /\ pc'[r] = "notify" /\ UNCHANGED <<batch, pos, op, keyrows, counters, ledger, seen, purged>>
  BY MeterTypes DEF Count, call, committed, world, CallOK
<1>3. PICK p : p = pos[r]
  OBVIOUS
<1>4. /\ p \in DOMAIN B /\ Current(r) = B[p] /\ B[p].metric \in Metrics /\ B[p].quantity \in Nat \ {0}
      /\ InItem(r)
  <2>1. InItem(r) /\ pos[r] \in 1..Len(batch[r])
    BY <1>2 DEF InItem, TypeInv, PosInv, PosOK
  <2> QED
    BY <1>1, <1>3, <2>1, Batch DEF OpenFacts, Current
<1>5. PICK m \in Months : BucketOf(r) = <<B[p].metric, m>>
  BY <1>2, <1>4 DEF BucketOf, CallOK, TablesOK
<1>6. PICK b \in Buckets : b = <<B[p].metric, m>>
  BY <1>4, <1>5 DEF Buckets
<1>7. PICK q \in Nat : q = B[p].quantity
  BY <1>4
<1>8. PICK v : v = [w EXCEPT ![p] = m]
  OBVIOUS
<1>9. \A i \in C : i < p
  BY <1>1, <1>2, <1>3 DEF OpenFacts, Tally, Reached
<1>10. Adds(B, C, w, p, m, v)
  BY <1>1, <1>4, <1>8, <1>9 DEF OpenFacts, Adds
<1>11. PICK t \in Int : t = RowTotal(r, b) + q /\ t = counters[b] + evs[r][b] + q
  <2>1. RowTotal(r, b) = counters[b] + evs[r][b] /\ counters[b] \in Nat /\ evs[r][b] \in Nat
    BY <1>2 DEF RowsOK, RowOK, RowTotal, Holds, WorkOK, TablesOK
  <2> QED
    BY <2>1
<1>12. /\ rowv' = [rowv EXCEPT ![r][b] = t] /\ evs' = [evs EXCEPT ![r][b] = @ + q] /\ ~Breaches(r, t)
  BY <1>4, <1>5, <1>6, <1>7, <1>11 DEF Count
<1>13. /\ evs[r] \in [Buckets -> Nat] /\ evs'[r] = [evs[r] EXCEPT ![b] = @ + q]
       /\ rowv'[r][b] = t /\ \A c \in Buckets \ {b} : rowv'[r][c] = rowv[r][c]
  <2>1. evs \in [Requests -> [Buckets -> Nat]] /\ rowv \in [Requests -> [Buckets -> Nat \cup {Free}]]
    BY <1>2 DEF WorkOK
  <2>2. evs[r] \in [Buckets -> Nat] /\ evs'[r] = [evs[r] EXCEPT ![b] = @ + q]
    BY <1>12, <2>1
  <2>3. rowv'[r][b] = t /\ \A c \in Buckets \ {b} : rowv'[r][c] = rowv[r][c]
    BY <1>12, <2>1
  <2> QED
    BY <2>2, <2>3
<1>14. t # Free
  BY <1>2, <1>11 DEF Free, WorkOK, TablesOK
<1>15. Weighed(B, C \cup {p}, v, evs'[r], rowv'[r])
  <2>1. Weighed(B, C, w, evs[r], rowv[r])
    BY <1>1 DEF OpenFacts, Tally
  <2>2. rowv'[r][b] # Free /\ \A c \in Buckets : rowv[r][c] # Free => rowv'[r][c] # Free
    BY <1>13, <1>14
  <2>3. Writes(B, p, m, evs[r], evs'[r], rowv[r], rowv'[r])
    BY <1>6, <1>7, <1>13, <2>2 DEF Writes
  <2>4. evs[r] \in [Buckets -> Nat]
    BY <1>13
  <2> QED
    BY <1>10, <2>1, <2>3, <2>4, WeighedOne
<1>16. Distinct(B, C \cup {p}) /\ Excused(B, C \cup {p}, p, Once) /\ Kept(B, C \cup {p}, keyrows[r], {})
  <2>1. InHand(r) = {B[p].key}
    BY <1>2, <1>4 DEF InHand
  <2>2. Distinct(B, C) /\ Excused(B, C, p, Once) /\ Kept(B, C, keyrows[r], {B[p].key})
    BY <1>1, <1>3, <2>1 DEF OpenFacts, Tally
  <2> QED
    BY <1>10, <2>2, KeysAfterOne
<1>17. op[r] = "consume" => Admitted(B, C \cup {p}, v, counters, seen)
  <2> SUFFICES ASSUME op[r] = "consume" PROVE Admitted(B, C \cup {p}, v, counters, seen)
    OBVIOUS
  <2>1. Admitted(B, C, w, counters, seen)
    BY <1>1 DEF OpenFacts, Tally
  <2>2. cap[r] \in seen[B[p].metric]
    BY <1>2, <1>4 DEF MeterInv, LimitInv, LimitParts, CapOK
  <2>3. cap[r] \in Int /\ (cap[r] = Unlimited \/ t <= cap[r])
    BY <1>2, <1>11, <1>12, LimitAssumption DEF Breaches, CallOK, Unlimited
  <2>4. evs'[r][b] = Put(B, C \cup {p}, v, b) /\ evs'[r][b] = evs[r][b] + q
    BY <1>13, <1>15 DEF Weighed
  <2>5. evs[r][b] \in Int /\ counters[b] \in Int
    BY <1>2 DEF WorkOK, TablesOK
  <2>6. counters[b] + Put(B, C \cup {p}, v, b) = t
    BY <1>11, <2>4, <2>5
  <2>7. cap[r] = Unlimited \/ counters[<<B[p].metric, m>>] + Put(B, C \cup {p}, v, <<B[p].metric, m>>) <= cap[r]
    BY <1>6, <2>3, <2>6
  <2> QED
    BY <1>10, <2>1, <2>2, <2>7, AdmittedOne
<1>18. Added(B, C, w, p, m, v)
  BY <1>10, AddedOne
<1>19. C \cup {p} \in SUBSET DOMAIN B /\ v \in [DOMAIN B -> Months]
  BY <1>18 DEF Added
<1>20. Reached(C \cup {p}, p, "notify")
  BY <1>9 DEF Reached
<1>21. Once' = Once /\ InHand(r)' = {}
  BY <1>2 DEF Once, InHand
<1>22. Tally(r, C \cup {p}, v)'
  <2>1. batch'[r] = B /\ pos'[r] = p /\ op'[r] = op[r] /\ counters' = counters /\ seen' = seen /\ keyrows' = keyrows
    BY <1>1, <1>2, <1>3 DEF OpenFacts
  <2> QED
    BY <1>2, <1>15, <1>16, <1>17, <1>19, <1>20, <1>21, <2>1 DEF Tally
<1> QED
  BY <1>1, <1>2, <1>22 DEF TallyOK, Tallied, Open, OpenFacts

\* The rest of the event changes neither what was counted nor which keys are reserved.
LEMMA TallyNotify ==
    ASSUME MeterInv, NEW r \in Requests, Notify(r)
    PROVE  TallyOK(r)'
<1>1. PICK B, C, w : OpenFacts(r, B, C, w)
  BY Opened DEF Notify, Open
<1>2. /\ pc[r] = "notify" /\ TypeInv /\ CallOK /\ WorkOK /\ TablesOK /\ RowsOK
      /\ pc'[r] = (IF pos[r] = Len(batch[r]) THEN "commit" ELSE "begin") /\ pos'[r] = pos[r] + 1
      /\ UNCHANGED <<batch, op, evs, counters, ledger, seen, purged>>
  BY MeterTypes DEF Notify, call, committed, world, CallOK, AfterItem
<1>3. PICK p : p = pos[r]
  OBVIOUS
<1>4. InItem(r) /\ p \in 1..Len(B)
  BY <1>1, <1>2, <1>3 DEF InItem, TypeInv, PosInv, PosOK, OpenFacts
<1>5. /\ DOMAIN B = 1..Len(B) /\ Len(B) \in Nat /\ p \in Nat /\ C \in SUBSET (1..Len(B))
      /\ p \in C /\ \A i \in C : i < p \/ i = p
  BY <1>1, <1>2, <1>3, <1>4, Batch DEF OpenFacts, Tally, Reached
<1>6. Reached(C, pos'[r], pc'[r])
  BY <1>2, <1>3, <1>5 DEF Reached
<1>7. Excused(B, C, p + 1, Once)
  <2> SUFFICES ASSUME NEW i \in DOMAIN B \ C, i < p + 1
               PROVE  B[i].key \in KeysOf(B, BeforeItem(C, i)) \cup Once
    BY DEF Excused
  <2>1. i < p
    BY <1>5
  <2> QED
    BY <1>1, <1>3, <2>1 DEF OpenFacts, Tally, Excused
<1>8. \A b \in Buckets : rowv[r][b] # Free => rowv'[r][b] # Free
  <2>1. CASE rowv' = rowv
    BY <2>1
  <2>2. CASE rowv' # rowv
    <3>1. PICK n \in Buckets : n = NoticeBucket(r)
      BY <1>2, <1>4, CurrentType
    <3>2. PICK t : t = RowTotal(r, n)
      OBVIOUS
    <3>3. rowv' = [rowv EXCEPT ![r][n] = t]
      BY <2>2, <3>1, <3>2 DEF Notify
    <3>4. t \in Nat
      BY <1>2, <3>2 DEF RowTotal, Holds, TablesOK, WorkOK
    <3>5. rowv'[r][n] = t /\ \A c \in Buckets \ {n} : rowv'[r][c] = rowv[r][c]
      BY <1>2, <3>3 DEF WorkOK
    <3> QED
      BY <3>4, <3>5 DEF Free
  <2> QED
    BY <2>1, <2>2
<1>9. \A k \in Keys : keyrows'[r][k] # NoRow <=> keyrows[r][k] # NoRow
  <2>1. PICK c : c = Current(r).key
    OBVIOUS
  <2>2. c \in Keys \cup {NoKey}
    BY <1>2, <1>4, <2>1, CurrentType
  <2>3. CASE c = NoKey
    <3>1. keyrows' = keyrows
      BY <2>1, <2>3 DEF Notify, Settled
    <3> QED
      BY <3>1
  <2>4. CASE c # NoKey
    <3>1. PICK x : x = WithTotal(keyrows[r][c], total[r])
      OBVIOUS
    <3>2. keyrows' = [keyrows EXCEPT ![r][c] = x]
      BY <2>1, <2>4, <3>1 DEF Notify, Settled
    <3>3. keyrows[r][c] # NoRow
      BY <1>2, <2>1, <2>4 DEF TypeInv, PosInv, PosOK
    <3>4. x \in KeyRow
      <4>1. keyrows[r][c] \in KeyRow /\ total[r] \in Nat
        BY <1>2, <2>2, <2>4, <3>3 DEF WorkOK, CallOK
      <4> QED
        BY <3>1, <4>1 DEF KeyRow, WithTotal
    <3>5. x # NoRow
      BY <3>4, KeyAssumption
    <3>6. keyrows'[r][c] = x /\ \A k \in Keys \ {c} : keyrows'[r][k] = keyrows[r][k]
      BY <1>2, <2>2, <2>4, <3>2 DEF WorkOK
    <3> QED
      BY <3>3, <3>5, <3>6
  <2> QED
    BY <2>3, <2>4
<1>10. InHand(r)' = {} /\ InHand(r) = {} /\ Once' = Once
  BY <1>2 DEF InHand, Once
<1>11. Kept(B, C, keyrows'[r], {})
  <2>1. Kept(B, C, keyrows[r], {})
    BY <1>1, <1>10 DEF OpenFacts, Tally
  <2> QED
    BY <1>9, <2>1 DEF Kept
<1>12. Weighed(B, C, w, evs[r], rowv'[r])
  <2>1. Weighed(B, C, w, evs[r], rowv[r])
    BY <1>1 DEF OpenFacts, Tally
  <2>2. \A i \in C : <<B[i].metric, w[i]>> \in Buckets
    BY <1>1, Batch DEF OpenFacts, Buckets
  <2> QED
    BY <1>8, <2>1, <2>2 DEF Weighed
<1>13. Tally(r, C, w)'
  BY <1>1, <1>2, <1>3, <1>6, <1>7, <1>10, <1>11, <1>12 DEF OpenFacts, Tally
<1>14. pc'[r] = "commit" => pos'[r] = Len(batch'[r]) + 1
  BY <1>2
<1> QED
  BY <1>1, <1>2, <1>13, <1>14 DEF TallyOK, Tallied, Open, OpenFacts

----------------------------------------------------------------------------
(* The tables change: a commit, a purge, a limit *)

LEMMA TallyCommit ==
    ASSUME MeterInv, NEW r \in Requests, Commit(r)
    PROVE  \A s \in Requests : TallyOK(s)'
<1>1. TypeInv /\ CallOK /\ LocksOK
  BY MeterTypes
<1>2. pc'[r] = "done"
  BY <1>1 DEF Commit, CallOK
<1>3. TallyOK(r)'
  BY <1>2 DEF TallyOK, Open
<1>4. counters' = [b \in Buckets |-> RowTotal(r, b)] /\ seen' = seen
  BY DEF Commit, world
<1>5. Once \subseteq Once'
  <2>1. purged' = purged /\ ledger' = [k \in Keys |-> KeyView(r, k)]
    BY DEF Commit, world
  <2>2. \A k \in Keys : ledger[k] # NoRow => ledger'[k] # NoRow
    BY <2>1 DEF KeyView
  <2> QED
    BY <2>1, <2>2 DEF Once
<1>6. ASSUME NEW s \in Requests, s # r PROVE TallyOK(s)'
  <2>1. ASSUME NEW b \in Buckets, Holds(s, b) PROVE counters'[b] = counters[b]
    <3>1. ~Holds(r, b)
      BY <1>1, <1>6, <2>1 DEF LocksOK
    <3> QED
      BY <1>4, <3>1 DEF RowTotal
  <2>2. TallyOK(s)
    BY DEF MeterInv
  <2>3. Frame(r)
    BY <1>1, StepFrame DEF Step
  <2>4. /\ pc'[s] = pc[s] /\ op'[s] = op[s] /\ batch'[s] = batch[s] /\ pos'[s] = pos[s]
        /\ evs'[s] = evs[s] /\ rowv'[s] = rowv[s] /\ keyrows'[s] = keyrows[s]
    BY <1>6, <2>3 DEF Frame
  <2> QED
    BY <1>1, <1>4, <1>5, <2>1, <2>2, <2>4, TallyStays
<1> QED
  BY <1>3, <1>6

LEMMA TallyEnvironment ==
    ASSUME MeterInv, Environment \/ UNCHANGED vars
    PROVE  \A s \in Requests : TallyOK(s)'
<1>1. /\ UNCHANGED <<pc, op, batch, pos, evs, rowv, keyrows, counters>>
  BY DEF Environment, ChangeLimit, NextMonth, PurgeKey, vars, committed, work, call
<1>2. TypeInv /\ TablesOK
  BY MeterTypes
<1>3. \A m \in Metrics : seen[m] \subseteq seen'[m]
  <2>1. CASE \E m \in Metrics, l \in LimitValues : ChangeLimit(m, l)
    <3>1. PICK m \in Metrics, l \in LimitValues : seen' = [seen EXCEPT ![m] = @ \cup {l}]
      BY <2>1 DEF ChangeLimit
    <3> QED
      BY <1>2, <3>1 DEF TablesOK
  <2>2. CASE seen' = seen
    BY <2>2
  <2> QED
    BY <2>1, <2>2 DEF Environment, NextMonth, PurgeKey, vars, world
<1>4. Once \subseteq Once'
  <2>1. CASE \E k \in Keys : PurgeKey(k)
    <3>1. PICK k \in Keys : ledger' = [ledger EXCEPT ![k] = NoRow] /\ purged' = [purged EXCEPT ![k] = @ + 1]
      BY <2>1 DEF PurgeKey
    <3>2. \A j \in Keys : purged[j] \in Nat
      BY <1>2 DEF TablesOK
    <3>3. purged'[k] = purged[k] + 1 /\ \A j \in Keys \ {k} : purged'[j] = purged[j] /\ ledger'[j] = ledger[j]
      BY <1>2, <3>1 DEF TablesOK
    <3>4. purged'[k] > 0
      BY <3>2, <3>3
    <3> QED
      BY <3>3, <3>4 DEF Once
  <2>2. CASE UNCHANGED <<ledger, purged>>
    BY <2>2 DEF Once
  <2> QED
    BY <2>1, <2>2 DEF Environment, ChangeLimit, NextMonth, vars, committed, world
<1> SUFFICES ASSUME NEW s \in Requests PROVE TallyOK(s)'
  OBVIOUS
<1>5. TallyOK(s)
  BY DEF MeterInv
<1> QED
  BY <1>1, <1>2, <1>3, <1>4, <1>5, TallyStays

LEMMA InitMeterInv == Init => MeterInv
<1> SUFFICES ASSUME Init, NEW r \in Requests PROVE TallyOK(r)
  BY InitLimit, InitKey DEF MeterInv, KeyInv
<1>1. pc[r] = "idle" /\ \A k \in Keys : keyrows[r][k] = NoRow
  BY DEF Init, NoKeys
<1> QED
  BY <1>1 DEF TallyOK, Open

LEMMA NextMeterInv == MeterInv /\ [Next]_vars => MeterInv'
<1> SUFFICES ASSUME MeterInv, [Next]_vars PROVE \A s \in Requests : TallyOK(s)'
  BY NextLimit, NextKey DEF MeterInv, LimitInv, DriftInv, KeyInv
<1>1. CASE \E r \in Requests : Step(r)
  <2>1. PICK r \in Requests : Step(r)
    BY <1>1
  <2>2. Frame(r)
    BY <2>1, StepFrame, MeterTypes
  <2>3. CASE Start(r)
    <3>1. UNCHANGED <<counters, ledger, seen, purged>>
      BY <2>3 DEF Start, committed, world
    <3> QED
      BY <2>2, <2>3, <3>1, TallyStart, TallyOthers
  <2>4. CASE Begin(r)
    <3>1. UNCHANGED <<counters, ledger, seen, purged>>
      BY <2>4 DEF Begin, committed, world
    <3> QED
      BY <2>2, <2>4, <3>1, TallyBegin, TallyOthers
  <2>5. CASE Reserve(r)
    <3>1. UNCHANGED <<counters, ledger, seen, purged>>
      BY <2>5 DEF Reserve, committed, world
    <3> QED
      BY <2>2, <2>5, <3>1, TallyReserve, TallyOthers
  <2>6. CASE Replay(r)
    <3>1. UNCHANGED <<counters, ledger, seen, purged>>
      BY <2>6 DEF Replay, committed, world
    <3> QED
      BY <2>2, <2>6, <3>1, TallyReplay, TallyOthers
  <2>7. CASE Count(r)
    <3>1. UNCHANGED <<counters, ledger, seen, purged>>
      BY <2>7 DEF Count, committed, world
    <3> QED
      BY <2>2, <2>7, <3>1, TallyCount, TallyOthers
  <2>8. CASE Notify(r)
    <3>1. UNCHANGED <<counters, ledger, seen, purged>>
      BY <2>8 DEF Notify, committed, world
    <3> QED
      BY <2>2, <2>8, <3>1, TallyNotify, TallyOthers
  <2>9. CASE ReplayGone(r) \/ Breach(r)
    BY <2>9, TallyRollBack DEF ReplayGone, Breach
  <2>10. CASE Commit(r)
    BY <2>10, TallyCommit
  <2> QED
    BY <2>1, <2>3, <2>4, <2>5, <2>6, <2>7, <2>8, <2>9, <2>10 DEF Step
<1>2. CASE \E r \in Requests : Fail(r) \/ DeadlockAbort(r)
  BY <1>2, TallyRollBack DEF Fail, DeadlockAbort
<1>3. CASE Environment \/ UNCHANGED vars
  BY <1>3, TallyEnvironment
<1> QED
  BY <1>1, <1>2, <1>3 DEF Next

----------------------------------------------------------------------------
(* Every step is a step of AtomicMeter, or changes nothing of it *)

LEMMA InitMeter == Init => Meter!MeterInit
<1> SUFFICES ASSUME Init PROVE Meter!MeterInit
  OBVIOUS
<1>1. counters = [b \in Metrics \X Months |-> 0] /\ consumed = counters
  BY DEF Init, NoCounts, Buckets
<1>2. {k \in Keys : ledger[k] # NoRow} = {} /\ {k \in Keys : ledger[k] # NoRow \/ purged[k] > 0} = {}
  BY DEF Init, NoKeys
<1>3. seen \in [Metrics -> {{l} : l \in LimitValues}]
  BY DEF Init
<1> QED
  BY <1>1, <1>2, <1>3 DEF Meter!MeterInit

LEMMA MeterKeys ==
    ASSUME NEW B, NEW C
    PROVE  Meter!KeysOf(B, C) = KeysOf(B, C)
BY DEF Meter!KeysOf, KeysOf

LEMMA MeterTotal ==
    ASSUME NEW B, NEW C, NEW w, NEW b, NEW n
    PROVE  Meter!Total(B, C, w, b, n) = counters[b] + Put(B, UpToItem(C, n), w, b)
BY PutOfMeter DEF Meter!Total, UpToItem

\* A commit serves the batch, whatever happened since its first statement.
LEMMA CommitServes ==
    ASSUME MeterInv, NEW r \in Requests, Commit(r)
    PROVE  \E B \in Batches, e \in BOOLEAN : Meter!Serve(B, e)
<1>1. PICK B, C, w : OpenFacts(r, B, C, w)
  BY Opened DEF Commit, Open
<1>2. /\ pc[r] = "commit" /\ pos[r] = Len(B) + 1 /\ InHand(r) = {}
      /\ TypeInv /\ CallOK /\ WorkOK /\ TablesOK /\ RowsOK
  BY <1>1, MeterTypes DEF Commit, MeterInv, TallyOK, OpenFacts, InHand
<1>3. /\ counters' = [b \in Buckets |-> RowTotal(r, b)] /\ seen' = seen /\ purged' = purged
      /\ ledger' = [k \in Keys |-> KeyView(r, k)]
  BY DEF Commit, world
<1>4. /\ B \in Batches /\ C \in SUBSET DOMAIN B /\ w \in [DOMAIN B -> Months]
      /\ Weighed(B, C, w, evs[r], rowv[r]) /\ Distinct(B, C) /\ Excused(B, C, Len(B) + 1, Once)
      /\ Kept(B, C, keyrows[r], {})
      /\ op[r] = "consume" => Admitted(B, C, w, counters, seen)
  BY <1>1, <1>2 DEF OpenFacts, Tally
<1>5. DOMAIN B = 1..Len(B) /\ Len(B) \in Nat /\ \A i \in DOMAIN B : B[i].key \in Keys \cup {NoKey}
  BY <1>4, Batch
<1>6. \A k \in Keys : k \in KeysOf(B, C) <=> keyrows[r][k] # NoRow
  BY <1>4 DEF Kept
<1>7. \A k \in Keys : keyrows[r][k] # NoRow => ledger[k] = NoRow
  BY DEF MeterInv, KeyParts, KeyOK
<1>8. Meter!OncePerKey(B, C)
  <2>1. ASSUME NEW i \in DOMAIN B, i \in C
        PROVE  B[i].key \notin {k \in Keys : ledger[k] # NoRow} \cup KeysOf(B, BeforeItem(C, i))
    <3>1. B[i].key \in Keys => B[i].key \in KeysOf(B, C)
      BY <2>1, KeyAssumption DEF KeysOf
    <3>2. B[i].key \in Keys => ledger[B[i].key] = NoRow
      BY <1>6, <1>7, <3>1
    <3> QED
      BY <1>4, <2>1, <3>2 DEF Distinct
  <2>2. ASSUME NEW i \in DOMAIN B, i \notin C
        PROVE  B[i].key \in Once \cup KeysOf(B, BeforeItem(C, i))
    <3>1. i < Len(B) + 1
      BY <1>5
    <3> QED
      BY <1>4, <2>2, <3>1 DEF Excused
  <2>3. \A i : Meter!KeysOf(B, BeforeItem(C, i)) = KeysOf(B, BeforeItem(C, i))
    BY MeterKeys
  <2> QED
    BY <2>1, <2>2, <2>3 DEF Meter!OncePerKey, BeforeItem, Once
<1>9. UpToItem(C, Len(B)) = C
  BY <1>4, <1>5 DEF UpToItem
<1>10. counters' = [b \in DOMAIN counters |-> Meter!Total(B, C, w, b, Len(B))]
  <2>1. DOMAIN counters = Buckets
    BY <1>2 DEF TablesOK
  <2>2. ASSUME NEW b \in Buckets PROVE RowTotal(r, b) = Meter!Total(B, C, w, b, Len(B))
    <3>1. RowTotal(r, b) = counters[b] + evs[r][b]
      BY <1>2 DEF RowsOK, RowOK, RowTotal, Holds, WorkOK, TablesOK
    <3>2. evs[r][b] = Put(B, UpToItem(C, Len(B)), w, b)
      BY <1>4, <1>9 DEF Weighed
    <3> QED
      BY <3>1, <3>2, MeterTotal
  <2> QED
    BY <1>3, <2>1, <2>2
<1>11. /\ {k \in Keys : ledger[k] # NoRow}' = {k \in Keys : ledger[k] # NoRow} \cup Meter!KeysOf(B, C)
       /\ Once' = Once \cup Meter!KeysOf(B, C)
  <2>1. Meter!KeysOf(B, C) = KeysOf(B, C) /\ KeysOf(B, C) \subseteq Keys
    BY <1>4, <1>5, MeterKeys DEF KeysOf
  <2>2. \A k \in Keys : ledger'[k] # NoRow <=> ledger[k] # NoRow \/ k \in KeysOf(B, C)
    BY <1>3, <1>6 DEF KeyView
  <2> QED
    BY <1>3, <2>1, <2>2 DEF Once
<1>12. (op[r] = "consume") => \A i \in C : \E l \in seen[B[i].metric] :
          l = Unlimited \/ Meter!Total(B, C, w, <<B[i].metric, w[i]>>, i) <= l
  <2> SUFFICES ASSUME op[r] = "consume", NEW i \in C
               PROVE  \E l \in seen[B[i].metric] :
                         l = Unlimited \/ Meter!Total(B, C, w, <<B[i].metric, w[i]>>, i) <= l
    OBVIOUS
  <2>1. PICK b : b = <<B[i].metric, w[i]>>
    OBVIOUS
  <2>2. PICK l \in seen[B[i].metric] :
            l = Unlimited \/ counters[b] + Put(B, UpToItem(C, i), w, b) <= l
    BY <1>4, <2>1 DEF Admitted
  <2>3. Meter!Total(B, C, w, b, i) = counters[b] + Put(B, UpToItem(C, i), w, b)
    BY MeterTotal
  <2> QED
    BY <2>1, <2>2, <2>3
<1>13. CASE op[r] = "consume"
  <2>1. consumed' = [b \in DOMAIN consumed |-> consumed[b] + Meter!Put(B, C, w, b)]
    <3>1. DOMAIN consumed = Buckets /\ consumed' = [b \in DOMAIN consumed |-> consumed[b] + evs[r][b]]
      BY <1>2, <1>13 DEF Commit, Sum, TablesOK
    <3>2. \A b \in Buckets : evs[r][b] = Meter!Put(B, C, w, b)
      BY <1>4, PutOfMeter DEF Weighed
    <3> QED
      BY <3>1, <3>2
  <2>2. Meter!Serve(B, TRUE)
    BY <1>3, <1>4, <1>8, <1>10, <1>11, <1>12, <1>13, <2>1 DEF Meter!Serve, Once
  <2> QED
    BY <1>4, <2>2
<1>14. CASE op[r] # "consume"
  <2>1. consumed' = consumed
    BY <1>14 DEF Commit
  <2>2. Meter!Serve(B, FALSE)
    BY <1>3, <1>4, <1>8, <1>10, <1>11, <2>1 DEF Meter!Serve, Once
  <2> QED
    BY <1>4, <2>2
<1> QED
  BY <1>13, <1>14

LEMMA MeterStep == MeterInv /\ [Next]_vars => [Meter!MeterNext]_(Meter!meterVars)
<1> SUFFICES ASSUME MeterInv, [Next]_vars PROVE [Meter!MeterNext]_(Meter!meterVars)
  OBVIOUS
<1>1. CASE UNCHANGED <<counters, consumed, ledger, seen, purged>>
  BY <1>1 DEF Meter!meterVars
<1>2. CASE \E r \in Requests : Commit(r)
  BY <1>2, CommitServes DEF Meter!MeterNext
<1>3. CASE \E m \in Metrics, l \in LimitValues : ChangeLimit(m, l)
  <2>1. PICK m \in Metrics, l \in LimitValues : ChangeLimit(m, l)
    BY <1>3
  <2>2. Meter!LimitMoves(m, l)
    BY <2>1 DEF ChangeLimit, Meter!LimitMoves, committed
  <2> QED
    BY <2>2 DEF Meter!MeterNext
<1>4. CASE \E k \in Keys : PurgeKey(k)
  <2>1. PICK k \in Keys : PurgeKey(k)
    BY <1>4
  <2>2. /\ ledger[k] # NoRow /\ counters' = counters /\ consumed' = consumed /\ seen' = seen
        /\ ledger' = [ledger EXCEPT ![k] = NoRow] /\ purged' = [purged EXCEPT ![k] = @ + 1]
    BY <2>1 DEF PurgeKey
  <2>3. TablesOK /\ purged[k] \in Nat
    BY MeterTypes DEF TablesOK
  <2>4. /\ ledger'[k] = NoRow /\ purged'[k] = purged[k] + 1
        /\ \A j \in Keys \ {k} : ledger'[j] = ledger[j] /\ purged'[j] = purged[j]
    BY <2>2, <2>3 DEF TablesOK
  <2>5. purged'[k] > 0
    BY <2>3, <2>4
  <2>6. {j \in Keys : ledger[j] # NoRow}' = {j \in Keys : ledger[j] # NoRow} \ {k}
    BY <2>4
  <2>7. {j \in Keys : ledger[j] # NoRow \/ purged[j] > 0}' = {j \in Keys : ledger[j] # NoRow \/ purged[j] > 0}
    BY <2>2, <2>4, <2>5
  <2>8. Meter!Forget(k)
    BY <2>2, <2>6, <2>7 DEF Meter!Forget
  <2> QED
    BY <2>8 DEF Meter!MeterNext
<1> QED
  BY <1>1, <1>2, <1>3, <1>4
     DEF Next, Step, Start, Begin, Reserve, Replay, ReplayGone, Count, Breach, Notify, Fail, DeadlockAbort,
         RollBack, Environment, NextMonth, vars, committed, world

\* However the statements, locks, reservations and rollbacks of the requests interleave,
\* each takes effect in one step or not at all, counts each key once, and is enforced
\* against the counter that very step finds.
THEOREM MeteringIsAtomic == Spec => MetersAtomically
<1> QED
  BY InitMeterInv, NextMeterInv, InitMeter, MeterStep, PTL DEF Spec, MetersAtomically, Meter!MeterSpec
====
