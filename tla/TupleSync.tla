----------------------------- MODULE TupleSync ------------------------------
(***************************************************************************)
(* One member's relationship tuples in OpenFGA, kept equal to the roles in *)
(* the database.  Every change of the membership starts two syncs: one at  *)
(* once after the commit, and one when the worker consumes the outbox      *)
(* event.  A sync reads the membership, reads the tuples, and sends the    *)
(* difference tuple by tuple; OpenFGA may not answer.  Requests ask        *)
(* OpenFGA and cache the decision.                                         *)
(***************************************************************************)
EXTENDS Permissions

CONSTANTS Asked,      \* the permission whose decision is cached
          MaxChanges  \* bound: changes of the membership

ASSUME AskedAssumption == Asked \in Perms /\ MaxChanges \in Nat

SyncIds == 1..(2 * MaxChanges)

VARIABLES
    rbac,         \* the membership: active, roles and permission_keys
    tuples,       \* the member's tuples in the store
    changes,      \* number of changes so far
    sync,         \* every sync: its step, the tuples it wants and has to send, and
                  \* the permissions the member has before and after it
    last,         \* how the sync that ended last ended, and whether it was late
    decision      \* the cached decision: "none", "allowed", "denied", or "early", either
                  \* of the two, when a sync was due as it was taken

tupleVars == <<rbac, tuples, changes, sync, last, decision>>

NotStarted == [step |-> "none", want |-> {}, keep |-> {}, adds |-> {}, dels |-> {}, late |-> FALSE]

\* Memberships the database can hold; of one that is not active the rest does not
\* matter.
NotActive == [active |-> FALSE, roles |-> {}, keys |-> {}]
Rbac == {NotActive} \cup {[active |-> TRUE, roles |-> roles, keys |-> Recompute(roles, c)] :
                             roles \in SUBSET RoleKeys \ {{}}, c \in Grants}

\* What OpenFGA must hold: nothing for somebody who is not an active member.
Desired(m) == IF m.active THEN DesiredTuples(m.roles, m.keys) ELSE {}
Exact == \A p \in Perms : Allowed(tuples, p) <=> rbac.active /\ p \in rbac.keys

TuplesInit ==
    /\ rbac = NotActive
    /\ tuples = {}
    /\ changes = 0
    /\ sync = [i \in SyncIds |-> NotStarted]
    /\ last = [how |-> "none", late |-> FALSE]
    /\ decision = "none"

Running(i) == sync[i].step \in {"current", "send"}
Late(s) == [i \in SyncIds |-> IF s[i].step \in {"current", "send"} THEN [s[i] EXCEPT !.late = TRUE] ELSE s[i]]

\* invalidate_user_perms bumps the decision cache, before the syncs begin.
Forgotten == "none"

\* A commit with queue_tuple_sync: the bump, the deferred action and the outbox event.
Change ==
    /\ changes < MaxChanges
    /\ rbac' \in Rbac \ {rbac}
    /\ changes' = changes + 1
    /\ sync' = [Late(sync) EXCEPT ![2 * changes + 1].step = "queued", ![2 * changes + 2].step = "queued"]
    /\ decision' = Forgotten
    /\ UNCHANGED <<tuples, last>>

\* The two syncs of a change are alike: the one that starts first has the odd number.
Due(i) == sync[i].step = "queued" /\ (i % 2 = 0 => sync[i - 1].step # "queued")

\* apply_tuple_sync reads the membership ...
ReadDesired(i) ==
    /\ Due(i)
    /\ sync' = [sync EXCEPT ![i].step = "current", ![i].want = Desired(rbac)]
    /\ UNCHANGED <<rbac, tuples, changes, last, decision>>

\* ... then the tuples (read_tuples).
ReadCurrent(i) ==
    /\ sync[i].step = "current"
    /\ sync' = [sync EXCEPT ![i].step = "send", ![i].keep = {p \in Perms : Allowed(tuples, p) /\ Allowed(sync[i].want, p)},
                            ![i].adds = sync[i].want \ tuples, ![i].dels = tuples \ sync[i].want]
    /\ UNCHANGED <<rbac, tuples, changes, last, decision>>

\* Mutant: the deletes go out first.
MaySendEager(s, t) == t \in s.adds \cup s.dels /\ (s.dels # {} => t \in s.dels)
\* write: all additions, then the deletions.
MaySend(s, t) == t \in s.adds \cup s.dels /\ (s.adds # {} => t \in s.adds)

\* One request of write.  A tuple that is there already, or gone already, is fine.
Send(i) ==
    \E t \in Relations :
        /\ sync[i].step = "send" /\ MaySend(sync[i], t)
        /\ tuples' = IF t \in sync[i].adds THEN tuples \cup {t} ELSE tuples \ {t}
        /\ sync' = [j \in SyncIds |->
              IF j = i THEN [sync[i] EXCEPT !.adds = @ \ {t}, !.dels = @ \ {t}]
              ELSE IF sync[j].step = "send" THEN [sync[j] EXCEPT !.late = TRUE] ELSE sync[j]]
        /\ UNCHANGED <<rbac, changes, last, decision>>

Ended(i, how) ==
    /\ sync' = [sync EXCEPT ![i] = [NotStarted EXCEPT !.step = "ended"]]
    /\ last' = [how |-> how, late |-> sync[i].late]
    /\ UNCHANGED <<rbac, tuples, changes, decision>>

SyncDone(i) == sync[i].step = "send" /\ sync[i].adds \cup sync[i].dels = {} /\ Ended(i, "done")

\* An FgaError or a dead process.  run_after_commit and the dispatcher log it.
SyncFails(i) == (Due(i) \/ Running(i)) /\ Ended(i, "failed")

Settled == \A i \in SyncIds : sync[i].step \in {"none", "ended"}
\* Nothing is under way, and the sync that ended last got through without
\* overlapping a change or another sync's writes.
InStep == Settled /\ last.how = "done" /\ ~last.late

\* _fga_allowed on a miss: the answer of OpenFGA is cached (an error caches nothing).
FgaAllowed ==
    /\ decision = "none"
    /\ decision' = IF ~InStep THEN "early" ELSE IF Allowed(tuples, Asked) THEN "allowed" ELSE "denied"
    /\ UNCHANGED <<rbac, tuples, changes, sync, last>>
DecisionExpires ==
    /\ decision # "none" /\ decision' = "none"
    /\ UNCHANGED <<rbac, tuples, changes, sync, last>>

TuplesNext ==
    \/ Change \/ FgaAllowed \/ DecisionExpires
    \/ \E i \in SyncIds : ReadDesired(i) \/ ReadCurrent(i) \/ Send(i) \/ SyncDone(i) \/ SyncFails(i)

----------------------------------------------------------------------------
\* The store and the syncs hold relations of the model.
TuplesOK ==
    /\ rbac \in Rbac /\ tuples \subseteq Relations
    /\ \A i \in SyncIds : sync[i].want \subseteq Relations

\* "converge OpenFGA to the member's current RBAC state": once nothing is under way and
\* the last sync got through alone, OpenFGA allows exactly what the roles grant.
TuplesConverge == InStep => Exact

\* "Role/membership changes must be visible to the very next request": a cached
\* decision is what the roles say, unless it was taken while a sync was due; that
\* one lives on until it expires, although the sync has ended.
DecisionCurrent ==
    decision \in {"allowed", "denied"} =>
        (decision = "allowed" <=> rbac.active /\ Asked \in rbac.keys)

\* A member whose roles are exchanged never loses in between a permission held before
\* and after.
NoGap ==
    \A i \in SyncIds : sync[i].step = "send" /\ ~sync[i].late =>
        \A p \in sync[i].keep : Allowed(tuples, p)

\* OpenFGA follows the roles: during a sync, after it, and in the cached decision.
TuplesFollowRoles == TuplesOK /\ TuplesConverge /\ NoGap /\ DecisionCurrent
====
