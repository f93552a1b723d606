---------------------------- MODULE Subscriptions ----------------------------
(***************************************************************************)
(* The subscription of one organization that is billed here: trial, plan   *)
(* change, cancellation and resumption by requests that may overlap, and   *)
(* the catalog sync, which edits, archives and revives plans under them.   *)
(*                                                                         *)
(* A request is one READ COMMITTED transaction of two steps: it loads the  *)
(* plan and the occupying row, and commits the columns it changed; nothing *)
(* is locked.                                                              *)
(***************************************************************************)
EXTENDS Integers, Sequences, FiniteSets

CONSTANTS
    Tenants,        \* requests that may run at the same time
    Plans,
    FreePlan,       \* the default plan, which has no trial
    MaxEdits,       \* bound: edits of the catalog
    MaxRowsOfSubs,  \* bound: rows of the subscriptions table
    MaxAsked        \* bound: requests

ASSUME SubscriptionAssumption == FreePlan \in Plans /\ MaxEdits \in Nat

VARIABLES
    catalog,        \* [plan -> version of its price and limits, archived]
    subRows,        \* subscriptions, by created_at
    req,            \* requests: what they do, the plan and the row they loaded
    edits, asked,
    torn            \* rows a change that kept plan_id wrote over a newer plan
subsVars == <<catalog, subRows, req, edits, asked, torn>>

Resting == [op |-> "none"]
Occupies(status) == status \in {"trialing", "active", "past_due"}

\* current_for_org
OccupyingRow ==
    LET O == {i \in 1..Len(subRows) : Occupies(subRows[i].status)} IN
    IF O = {} THEN 0 ELSE CHOOSE i \in O : \A j \in O : j <= i

\* _snapshot: the plan as it is when it is loaded
Snapshot(plan) == [key |-> plan, version |-> catalog[plan].version]

SubsInit ==
    /\ catalog = [p \in Plans |-> [version |-> 1, archived |-> FALSE]]
    /\ subRows = <<[plan |-> FreePlan, snap |-> [key |-> FreePlan, version |-> 1],
                    status |-> "active", ending |-> FALSE]>>
    /\ req = [t \in Tenants |-> Resting]
    /\ edits = 0 /\ asked = 0 /\ torn = {}

-----------------------------------------------------------------------------
(* sync_plans *)

\* Prices, features and limits of a plan follow the catalog.
EditPlan(p) ==
    /\ edits < MaxEdits /\ edits' = edits + 1
    /\ catalog' = [catalog EXCEPT ![p].version = @ + 1]
    /\ UNCHANGED <<subRows, req, asked, torn>>

\* A plan that is gone from the catalog is archived, one that is back revived.
ToggleArchived(p) ==
    /\ edits < MaxEdits /\ edits' = edits + 1
    /\ p # FreePlan
    /\ catalog' = [catalog EXCEPT ![p].archived = ~@]
    /\ UNCHANGED <<subRows, req, asked, torn>>

-----------------------------------------------------------------------------
(* Requests load ... *)

\* Who may go on: an archived plan is not found; a trial needs days and no other
\* trial; cancel and resume need a subscription, resume one that is ending.
MayStart(op, p) ==
    LET i == OccupyingRow IN
    CASE op = "trial"  -> ~catalog[p].archived /\ p # FreePlan
                            /\ (i # 0 => subRows[i].status # "trialing")
      [] op = "change" -> ~catalog[p].archived
      [] op \in {"cancel", "cancelNow"} -> i # 0
      [] op = "resume" -> i # 0 /\ subRows[i].ending

Begin(t, op, p) ==
    /\ req[t] = Resting /\ asked < MaxAsked
    /\ MayStart(op, p)
    /\ asked' = asked + 1
    /\ req' = [req EXCEPT ![t] =
         [op |-> op, plan |-> p, snap |-> Snapshot(p), row |-> OccupyingRow,
          loaded |-> IF OccupyingRow = 0 THEN <<>> ELSE subRows[OccupyingRow]]]
    /\ UNCHANGED <<catalog, subRows, edits, torn>>

-----------------------------------------------------------------------------
(* ... and commit. *)

\* Mutant: the UPDATE writes every column.
ColumnAlways(loaded, new, there) == new
\* An UPDATE writes the columns that differ from what was loaded.
Column(loaded, new, there) == IF new = loaded THEN there ELSE new

Saved(q, new) ==
    LET there == subRows[q.row] IN
    [c \in DOMAIN there |-> Column(q.loaded[c], new[c], there[c])]

NewRow(q, status) == [plan |-> q.plan, snap |-> q.snap, status |-> status, ending |-> FALSE]

\* change_plan on the row it found
Changed(q) == [plan |-> q.plan, snap |-> q.snap, status |-> "active", ending |-> FALSE]

\* The table after request q.
Result(q) ==
    CASE q.op = "change" /\ q.row = 0 -> Append(subRows, NewRow(q, "active"))
      [] q.op = "change" /\ q.row # 0 -> [subRows EXCEPT ![q.row] = Saved(q, Changed(q))]
      [] q.op = "trial" /\ q.row = 0 -> Append(subRows, NewRow(q, "trialing"))
      [] q.op = "trial" /\ q.row # 0 ->
           Append([subRows EXCEPT ![q.row] = Saved(q, [q.loaded EXCEPT !.status = "canceled"])],
                  NewRow(q, "trialing"))
      [] q.op = "cancel"    -> [subRows EXCEPT ![q.row] = Saved(q, [q.loaded EXCEPT !.ending = TRUE])]
      [] q.op = "cancelNow" -> [subRows EXCEPT ![q.row] = Saved(q, [q.loaded EXCEPT !.status = "canceled"])]
      [] q.op = "resume"    -> [subRows EXCEPT ![q.row] = Saved(q, [q.loaded EXCEPT !.ending = FALSE])]

\* uq_subscriptions_one_per_org
OneRow(S) == \A i, j \in 1..Len(S) : Occupies(S[i].status) /\ Occupies(S[j].status) => i = j

Commit(t) ==
    LET q == req[t] IN
    /\ q.op # "none"
    /\ Len(Result(q)) <= MaxRowsOfSubs
    /\ OneRow(Result(q))
    /\ subRows' = Result(q)
    /\ torn' = IF q.op = "change" /\ q.row # 0 /\ q.plan = q.loaded.plan /\ subRows[q.row].plan # q.plan
               THEN torn \cup {q.row} ELSE torn
    /\ req' = [req EXCEPT ![t] = Resting]
    /\ UNCHANGED <<catalog, edits, asked>>

\* The index refuses the commit, or the request fails: nothing is left of it.
Abandon(t) ==
    /\ req[t].op # "none"
    /\ req' = [req EXCEPT ![t] = Resting]
    /\ UNCHANGED <<catalog, subRows, edits, asked, torn>>

SubsNext ==
    \/ \E p \in Plans : EditPlan(p) \/ ToggleArchived(p)
    \/ \E t \in Tenants :
         \/ \E p \in Plans, op \in {"trial", "change"} : Begin(t, op, p)
         \/ \E op \in {"cancel", "cancelNow", "resume"} : Begin(t, op, FreePlan)
         \/ Commit(t) \/ Abandon(t)

-----------------------------------------------------------------------------
\* Rows are well typed, and one at most occupies the organization.
SubscriptionsOK ==
    /\ \A i \in 1..Len(subRows) :
         subRows[i] \in [plan : Plans, snap : [key : Plans, version : 1..(MaxEdits + 1)],
                         status : {"trialing", "active", "canceled"}, ending : BOOLEAN]
    /\ Cardinality({i \in 1..Len(subRows) : Occupies(subRows[i].status)}) <= 1

\* The organization is billed for the plan it is entitled to: entitlements follow
\* plan_id, invoices plan_snapshot.  Requests that overlap keep the two together,
\* but for a change to the plan the organization already has: it does not write
\* plan_id, and a change that commits in between does.
BilledAsEntitled == \A i \in 1..Len(subRows) \ torn : subRows[i].snap.key = subRows[i].plan

\* "YAML price changes must not rewrite history": what a subscription was bought
\* at changes with a plan change that commits, never with the catalog.
HistoryKept == [][
    \A i \in 1..Len(subRows) : subRows'[i].snap # subRows[i].snap =>
        \E t \in Tenants : req[t].op = "change" /\ req[t].row = i /\ req'[t] = Resting
    ]_subsVars

\* A cancellation that was answered stays, whatever commits after it without
\* having seen it: a row that ends goes on only by a resumption or a plan change
\* that loaded it as ending.
CancelNotLost == [][
    \A i \in 1..Len(subRows) : subRows[i].ending /\ ~subRows'[i].ending =>
        \E t \in Tenants : req[t].op \in {"change", "resume"} /\ req[t].row = i /\ req[t].loaded.ending
    ]_subsVars
====
