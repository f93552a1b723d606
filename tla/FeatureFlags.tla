---------------------------- MODULE FeatureFlags ----------------------------
(***************************************************************************)
(* One feature flag: its default, its rollout, and the overrides of an     *)
(* organization and of its users.  set_override selects the row of its     *)
(* scope and updates or inserts it; requests may overlap, and no           *)
(* constraint keeps a scope to one row.  (VersionedCache is about the      *)
(* cache in front of it.)                                                  *)
(***************************************************************************)
EXTENDS Integers, FiniteSets

CONSTANTS
    FlagUsers,      \* users of the organization
    BucketOf,       \* [FlagUsers -> 0..9999], the hash of flag and user
    Percentages,    \* rollouts the operator sets
    Admins,         \* requests that may run at the same time
    MaxFlagEdits    \* bound: edits of the flag and of overrides

ASSUME FlagAssumption == BucketOf \in [FlagUsers -> 0..9999] /\ Percentages \subseteq 0..100

VARIABLES
    flag,           \* the row: exists, enabled, rollout (NoRollout: NULL)
    overrides,      \* rows: a number, the scope, enabled
    admin,          \* [Admins -> what set_override loaded]
    flagEdits
flagVars == <<flag, overrides, admin, flagEdits>>

NoRollout == -1
BUCKETS == 10000
OrgScope == "org"
Scopes == FlagUsers \cup {OrgScope}
Waiting == [at |-> "idle"]

FlagInit ==
    /\ flag = [exists |-> FALSE, enabled |-> FALSE, rollout |-> NoRollout]
    /\ overrides = {} /\ flagEdits = 0
    /\ admin = [a \in Admins |-> Waiting]

\* in_rollout
InRollout(u, percentage) == BucketOf[u] < (BUCKETS * percentage) \div 100

RowsOf(scope) == {o \in overrides : o.scope = scope}

\* "Most specific override wins"
DecidingScope(u) == IF RowsOf(u) # {} THEN u ELSE OrgScope

\* _evaluate for user u; scalar_one_or_none raises on two rows.
Evaluate(u) ==
    LET R == RowsOf(DecidingScope(u)) IN
    IF ~flag.exists THEN "off"
    ELSE IF Cardinality(R) > 1 THEN "error"
    ELSE IF R # {} THEN (IF \E o \in R : o.enabled THEN "on" ELSE "off")
    ELSE IF flag.rollout # NoRollout THEN (IF InRollout(u, flag.rollout) THEN "on" ELSE "off")
    ELSE IF flag.enabled THEN "on" ELSE "off"

-----------------------------------------------------------------------------
FlagEdit == flagEdits < MaxFlagEdits /\ flagEdits' = flagEdits + 1

CreateFlag(enabled, rollout) ==
    /\ FlagEdit /\ ~flag.exists
    /\ flag' = [exists |-> TRUE, enabled |-> enabled, rollout |-> rollout]
    /\ UNCHANGED <<overrides, admin>>

\* A rollout can be changed, never taken back to NULL.
UpdateFlag(enabled, rollout) ==
    /\ FlagEdit /\ flag.exists
    /\ flag' = [flag EXCEPT !.enabled = enabled,
                            !.rollout = IF rollout = NoRollout THEN @ ELSE rollout]
    /\ UNCHANGED <<overrides, admin>>

\* set_override looks for the row of its scope; two rows are an error.
FindOverride(a, scope, enabled) ==
    /\ FlagEdit /\ flag.exists /\ admin[a] = Waiting
    /\ Cardinality(RowsOf(scope)) <= 1
    /\ admin' = [admin EXCEPT ![a] = [at |-> "save", scope |-> scope, enabled |-> enabled,
                                      found |-> RowsOf(scope), number |-> flagEdits]]
    /\ UNCHANGED <<flag, overrides>>

\* UPDATE of the row it found, which is lost on one that was deleted meanwhile,
\* or INSERT.
SaveOverride(a) ==
    LET q == admin[a]
        numbers == {o.number : o \in q.found}
    IN
    /\ q.at = "save"
    /\ overrides' =
         IF q.found = {} THEN overrides \cup {[number |-> q.number, scope |-> q.scope, enabled |-> q.enabled]}
         ELSE {IF o.number \in numbers THEN [o EXCEPT !.enabled = q.enabled] ELSE o : o \in overrides}
    /\ admin' = [admin EXCEPT ![a] = Waiting]
    /\ UNCHANGED <<flag, flagEdits>>

DeleteOverride(o) ==
    /\ FlagEdit
    /\ overrides' = overrides \ {o}
    /\ UNCHANGED <<flag, admin>>

FlagNext ==
    \/ \E enabled \in BOOLEAN, r \in Percentages \cup {NoRollout} :
         CreateFlag(enabled, r) \/ UpdateFlag(enabled, r)
    \/ \E a \in Admins :
         \/ \E scope \in Scopes, enabled \in BOOLEAN : FindOverride(a, scope, enabled)
         \/ SaveOverride(a)
    \/ \E o \in overrides : DeleteOverride(o)

-----------------------------------------------------------------------------
\* Raising the rollout never takes a feature away from somebody who has it, and
\* lowering it never gives one: the buckets are stable from edit to edit.
RolloutGrows == [][
    ( /\ flag.exists /\ flag.rollout # NoRollout /\ flag'.rollout # NoRollout
      /\ UNCHANGED overrides ) =>
      \A u \in FlagUsers :
        /\ flag.rollout <= flag'.rollout /\ Evaluate(u) = "on" => Evaluate(u)' = "on"
        /\ flag.rollout >= flag'.rollout /\ Evaluate(u) = "off" => Evaluate(u)' = "off"
    ]_flagVars

\* A rollout of 0 % reaches nobody and one of 100 % everybody, whatever the
\* default says; only an override makes an exception.
RolloutBounds ==
    \A u \in FlagUsers :
        flag.exists /\ RowsOf(u) = {} /\ RowsOf(OrgScope) = {} =>
            /\ flag.rollout = 0 => Evaluate(u) = "off"
            /\ flag.rollout = 100 => Evaluate(u) = "on"

\* Two overrides of the organization that were set at the same time break the
\* flag, but only for those it decides for: a user with an override of their own
\* keeps their answer.
OthersKeepAnswer ==
    \A u \in FlagUsers : flag.exists /\ Cardinality(RowsOf(u)) = 1 => Evaluate(u) # "error"
====
