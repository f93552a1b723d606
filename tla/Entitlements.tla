---------------------------- MODULE Entitlements ----------------------------
(***************************************************************************)
(* What an organization may use: resolve_effective over its subscription's *)
(* plan and its grants, for one feature and one metric; the operator       *)
(* grants and revokes, time passes, and the job expire_entitlements marks  *)
(* lapsed grants.  _compute selects the grants without ORDER BY: they come *)
(* in any order.  (VersionedCache is about the cache in front of it.)      *)
(***************************************************************************)
EXTENDS Integers, Sequences, FiniteSets, FiniteSetsExt, SequencesExt

CONSTANTS
    GrantSources,   \* sources the operator uses
    CapValues,      \* values of limit grants
    PlanCap,        \* the plan's limit on the metric
    MaxGrants,      \* bound: rows of the entitlements table
    MaxDays         \* bound: days that pass

ASSUME EntitlementAssumption ==
    CapValues \subseteq Nat /\ PlanCap \in Nat /\ MaxGrants \in Nat /\ MaxDays \in Nat

VARIABLES
    subStatus,      \* status of the occupying subscription, or "none"
    grants,         \* rows of the entitlements table
    lapsed,         \* rows the running job selected
    said,           \* [row -> notices in the outbox that it expired]
    day
entVars == <<subStatus, grants, lapsed, said, day>>

Unlimited == -1     \* Limit(value=None)
NoValue   == -2     \* limit_value NULL

Rows == 1..Len(grants)

EntInit ==
    /\ subStatus \in {"none", "trialing", "active", "past_due"}
    /\ grants = <<>> /\ lapsed = {}
    /\ said = [r \in 1..MaxGrants |-> 0]
    /\ day = 0

-----------------------------------------------------------------------------
(* resolve_effective *)

\* SOURCE_PRIORITY.get(source, 0): a trial is not in the table.
Priority(source) ==
    CASE source = "addon" -> 10 [] source = "beta" -> 20 [] source = "promo" -> 30
      [] source = "grandfather" -> 40 [] source = "override" -> 50 [] source = "enterprise" -> 60
      [] OTHER -> 0

\* _grant_is_active; grants start when they are made.
GrantIsActive(g) == ~g.revoked /\ (g.ends = 0 \/ day < g.ends)

\* With grace_on_past_due, which is the default.
PlanActive == subStatus \in {"trialing", "active", "past_due"}

ActiveRows(key) == {r \in Rows : grants[r].key = key /\ GrantIsActive(grants[r])}
Orders(key) == SetToSeqs(ActiveRows(key))

\* Mutant: the last of several grants of one priority wins.
OverlayLast(cur, r) ==
    IF Priority(grants[r].source) >= cur[1] THEN <<Priority(grants[r].source), grants[r].enabled>> ELSE cur
\* decisions[feature], <<priority, enabled>>, after one more grant
Overlay(cur, r) ==
    IF Priority(grants[r].source) > cur[1] THEN <<Priority(grants[r].source), grants[r].enabled>> ELSE cur

\* The plan has the feature.
FeatureOn(order) ==
    FoldLeft(Overlay, IF PlanActive THEN <<0, TRUE>> ELSE <<-1, FALSE>>, order)[2]

\* The cap of the metric after one more grant of limit:<metric>.
Recap(cap, r) == IF ~grants[r].enabled \/ grants[r].value = NoValue THEN cap ELSE grants[r].value

\* Without an active plan nothing limits the metric.
BaseCap == IF PlanActive THEN PlanCap ELSE Unlimited

Cap(order) == FoldLeft(Recap, BaseCap, order)

-----------------------------------------------------------------------------
(* Operations *)

\* grant: a feature that is switched on or off, or a cap, until a day or for good
Grant(key, source, enabled, ends, value) ==
    /\ Len(grants) < MaxGrants
    /\ grants' = Append(grants, [key |-> key, source |-> source, enabled |-> enabled,
                                 ends |-> ends, value |-> value, revoked |-> FALSE])
    /\ UNCHANGED <<subStatus, lapsed, said, day>>

Revoke(r) ==
    /\ ~grants[r].revoked
    /\ grants' = [grants EXCEPT ![r].revoked = TRUE]
    /\ UNCHANGED <<subStatus, lapsed, said, day>>

\* expire_entitlements selects the rows that lapsed, loads each again, marks it
\* and announces it; a row that was revoked meanwhile is announced too.
SelectLapsed ==
    /\ lapsed = {}
    /\ lapsed' = {r \in Rows : ~grants[r].revoked /\ grants[r].ends # 0 /\ grants[r].ends <= day}
    /\ lapsed' # {}
    /\ UNCHANGED <<subStatus, grants, said, day>>

MarkLapsed ==
    /\ lapsed # {}
    /\ grants' = [r \in Rows |-> IF r \in lapsed THEN [grants[r] EXCEPT !.revoked = TRUE] ELSE grants[r]]
    /\ said' = [r \in 1..MaxGrants |-> IF r \in lapsed THEN said[r] + 1 ELSE said[r]]
    /\ lapsed' = {}
    /\ UNCHANGED <<subStatus, day>>

\* The subscription changes (Subscriptions), a day passes.
SubscriptionMoves(s) == s # subStatus /\ subStatus' = s /\ UNCHANGED <<grants, lapsed, said, day>>
DayPasses == day < MaxDays /\ day' = day + 1 /\ UNCHANGED <<subStatus, grants, lapsed, said>>

EntNext ==
    \/ \E source \in GrantSources, ends \in {0, day + 1} :
         \E enabled \in BOOLEAN :
            \/ Grant("feature", source, enabled, ends, NoValue)
            \/ \E v \in CapValues \cup {NoValue} : Grant("limit", source, enabled, ends, v)
    \/ \E r \in Rows : Revoke(r)
    \/ SelectLapsed \/ MarkLapsed
    \/ \E s \in {"none", "active"} : SubscriptionMoves(s)
    \/ DayPasses

-----------------------------------------------------------------------------
\* Rows are well typed, and a row expires once.
EntitlementsOK ==
    /\ subStatus \in {"none", "trialing", "active", "past_due"}
    /\ \A r \in Rows : grants[r] \in [key : {"feature", "limit"}, source : GrantSources,
                                      enabled : BOOLEAN, ends : 0..(MaxDays + 1),
                                      value : CapValues \cup {NoValue}, revoked : BOOLEAN]
    /\ lapsed \subseteq Rows /\ day \in 0..MaxDays
    /\ \A r \in Rows : said[r] <= 1

Live(key) == {r \in Rows : grants[r].key = key /\ ~grants[r].revoked
                            /\ (grants[r].ends = 0 \/ grants[r].ends > day)}
Strongest(S) == {r \in S : \A q \in S : Priority(grants[q].source) <= Priority(grants[r].source)}

\* "Conflicts resolve by source priority" and "a winning grant with enabled=False
\* removes the feature": whatever order the rows come in, the strongest live
\* grant decides, the plan wins over a trial, and only grants of one priority
\* that contradict each other leave it to the order.
StrongestDecides ==
    LET S == Strongest(Live("feature")) IN
    (\A q, r \in S : grants[q].enabled = grants[r].enabled) =>
        \A order \in Orders("feature") :
            FeatureOn(order) =
                IF S = {} \/ (PlanActive /\ \A r \in S : Priority(grants[r].source) = 0)
                THEN PlanActive
                ELSE \E r \in S : grants[r].enabled

\* The caps live grants ask for.
Asked == {grants[r].value : r \in {q \in Live("limit") : grants[q].enabled}} \ {NoValue}

\* One live cap is the cap, none leaves the plan's; with several, priority does
\* not count: the row that comes last is the cap.
CapIsGranted ==
    LET base == IF PlanActive THEN PlanCap ELSE Unlimited IN
    \A order \in Orders("limit") :
        /\ Asked = {} => Cap(order) = base
        /\ Asked # {} => Cap(order) \in Asked
====
