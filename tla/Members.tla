------------------------------ MODULE Members -------------------------------
(***************************************************************************)
(* The members of one organization: creation, invitations, acceptance,     *)
(* suspension and removal as concurrent request transactions, with the     *)
(* `users` gauge that every change sets again.                             *)
(*                                                                         *)
(* A request checks what it loaded, then flushes its change (which locks   *)
(* the row and fails when the row is gone) and counts the seats, its own   *)
(* change included, and then commits.  Setting the gauge waits for         *)
(* whoever set it before, so gauge writes follow the order of the commits; *)
(* the count does not.                                                     *)
(***************************************************************************)
EXTENDS Gauges

CONSTANTS
    People,       \* accounts; each has one mailbox
    Owner,        \* the account that creates the organization
    Nobody,       \* user_id or invited_email IS NULL
    Slots,        \* requests the server works on at the same time
    SeatLimit,    \* effective_for_org(org).limit_value("users")
    MaxRows       \* bound: membership rows ever created

ASSUME MembersAssumption ==
    /\ Owner \in People /\ Nobody \notin People
    /\ SeatLimit \in Nat /\ MaxRows \in Nat \ {0}
    /\ IsFiniteSet(Slots) /\ Slots # {}

Status == {"invited", "active", "suspended", "gone"}   \* gone: the row was deleted
MembershipRow == [user : People \cup {Nobody}, invited_email : People \cup {Nobody}, status : Status]

VARIABLES
    org,          \* organizations.status, "none" before the creation
    rows,         \* memberships, in the order of creation
    users,        \* the level of the users gauge
    task,         \* what each slot is working on
    drift,        \* history: the last gauge write missed a commit
    readmitted    \* history: rows that got their seat back without a check

memberVars == <<org, rows, users, task, drift, readmitted>>

NoTask == [op |-> "none"]
Present(i) == i \in DOMAIN rows /\ rows[i].status # "gone"

MembersInit ==
    /\ org = "none"
    /\ rows = << >>
    /\ users = 0
    /\ task = [s \in Slots |-> NoTask]
    /\ drift = FALSE
    /\ readmitted = {}

\* count_active_members + _count_pending_invites over table R.
Seats(R) == Cardinality({i \in DOMAIN R : R[i].status \in {"active", "invited"}})

\* create_organization: the owner's active membership and the first gauge level.
CreateOrganization ==
    /\ org = "none"
    /\ org' = "active"
    /\ rows' = <<[user |-> Owner, invited_email |-> Nobody, status |-> "active"]>>
    /\ users' = SetGauge(1)
    /\ UNCHANGED <<task, drift, readmitted>>

\* resolve_tenant and require_permission let somebody in: a member of the active
\* organization with the permission (see Roles), or a platform administrator.
Admitted == org # "none"

BeginChange(s, t) ==
    /\ task[s] = NoTask
    /\ task' = [task EXCEPT ![s] = t]
    /\ UNCHANGED <<org, rows, users, drift, readmitted>>

\* get_session rolls the request back.
AbortChange(s) ==
    /\ task[s] # NoTask
    /\ task' = [task EXCEPT ![s] = NoTask]
    /\ UNCHANGED <<org, rows, users, drift, readmitted>>

----------------------------------------------------------------------------
(* Checks on what was loaded.                                              *)

\* invite_member: the address is not known yet and there is a seat.
InviteCheck(s) ==
    \E e \in People :
        /\ Admitted
        /\ Len(rows) + Cardinality({x \in Slots : task[x].op = "invite"}) < MaxRows
        /\ ~\E i \in DOMAIN rows : Present(i) /\ rows[i].invited_email = e
        /\ HasCapacity(Seats(rows), 1, SeatLimit)
        /\ BeginChange(s, [op |-> "invite", row |-> 0, email |-> e])

\* _invited_membership_for_token and _same_mailbox: the invitee holds the link of a
\* pending row.  No tenant is resolved: an invitation is accepted in a suspended
\* organization as well.
AcceptCheck(s) ==
    \E i \in DOMAIN rows :
        /\ rows[i].status = "invited"
        /\ BeginChange(s, [op |-> "accept", row |-> i, email |-> rows[i].invited_email])

\* update_membership: a status other than the loaded one.
UpdateCheck(s) ==
    \E i \in DOMAIN rows, new \in {"active", "suspended"} :
        /\ Admitted /\ Present(i) /\ rows[i].status # new
        /\ BeginChange(s, [op |-> new, row |-> i, email |-> rows[i].invited_email])

\* remove_member: anybody but the owner.
RemoveCheck(s) ==
    \E i \in DOMAIN rows :
        /\ Admitted /\ Present(i) /\ rows[i].user # Owner
        /\ BeginChange(s, [op |-> "remove", row |-> i, email |-> rows[i].invited_email])

----------------------------------------------------------------------------
(* The flush, the count and the commit.                                    *)

Flushed(s) == "level" \in DOMAIN task[s]
\* Another transaction holds the row, or a row with the same unique address.
Blocked(s) ==
    \E x \in Slots \ {s} :
        /\ Flushed(x)
        /\ task[x].row = task[s].row
        /\ task[s].op = "invite" => task[x].email = task[s].email

\* uq_memberships_org_invited_email and uq_memberships_org_user.
Collides(t) ==
    \/ t.op = "invite" /\ \E i \in DOMAIN rows : Present(i) /\ rows[i].invited_email = t.email
    \/ t.op = "accept" /\ \E i \in DOMAIN rows \ {t.row} : Present(i) /\ rows[i].user = t.email

\* Mutant: a row that was deleted meanwhile is written again.
VanishedNever(t) == FALSE
\* UPDATE ... WHERE id matched no row: StaleDataError (a DELETE that matches none
\* goes on).
Vanished(t) == t.op \notin {"invite", "remove"} /\ ~Present(t.row)

\* The table after the flush of t, as the transaction itself sees it.
Applied(t, R) ==
    CASE t.op = "invite" ->
            Append(R, [user |-> Nobody, invited_email |-> t.email, status |-> "invited"])
      [] t.op = "accept" -> [R EXCEPT ![t.row].user = t.email, ![t.row].status = "active"]
      [] t.op = "remove" -> [R EXCEPT ![t.row].status = "gone"]
      [] OTHER           -> [R EXCEPT ![t.row].status = t.op]

\* The change is flushed and _sync_seat_gauge counts; a collision or a vanished
\* row ends the request.
Flush(s) ==
    LET t == task[s] IN
    /\ t # NoTask /\ ~Flushed(s) /\ ~Blocked(s)
    /\ task' = [task EXCEPT ![s] =
          IF Collides(t) \/ Vanished(t) THEN NoTask
          ELSE [op |-> t.op, row |-> t.row, email |-> t.email,
                level |-> Seats(Applied(t, rows)), late |-> FALSE]]
    /\ UNCHANGED <<org, rows, users, drift, readmitted>>

\* Mutant: a removal does not set the gauge.
SyncedExceptRemoval(t) == IF t.op = "remove" THEN users ELSE SetGauge(t.level)
\* _sync_seat_gauge: the count that was taken at the flush.
Synced(t) == SetGauge(t.level)

\* Everybody else who has counted already has counted without this commit.
OthersLate(s) ==
    [x \in Slots |-> IF x = s THEN NoTask
                     ELSE IF Flushed(x) THEN [task[x] EXCEPT !.late = TRUE] ELSE task[x]]

MemberCommit(s) ==
    LET t == task[s] IN
    /\ Flushed(s)
    /\ rows' = Applied(t, rows)
    /\ users' = Synced(t)
    /\ drift' = t.late
    /\ readmitted' = IF t.op \in {"active", "accept"} /\ rows[t.row].status = "suspended"
                     THEN readmitted \cup {t.row} ELSE readmitted
    /\ task' = OthersLate(s)
    /\ UNCHANGED org

MembersNext ==
    \/ CreateOrganization
    \/ \E s \in Slots :
          \/ InviteCheck(s) \/ AcceptCheck(s) \/ UpdateCheck(s) \/ RemoveCheck(s)
          \/ Flush(s) \/ MemberCommit(s) \/ AbortChange(s)

----------------------------------------------------------------------------
\* The rows are memberships, and an address has one.
MembersOK ==
    /\ org \in {"none", "active"}
    /\ rows \in Seq(MembershipRow) /\ Len(rows) <= MaxRows
    /\ users \in Nat
    /\ \A i, j \in DOMAIN rows :
          Present(i) /\ Present(j) /\ rows[i].invited_email # Nobody
            /\ rows[i].invited_email = rows[j].invited_email => i = j

\* The seat gauge is exact unless the request that set it last overlapped another
\* change, and then the next change that runs alone repairs it.
SeatGaugeExact == users = Seats(rows) \/ drift

\* Only what the code lets through without a check exceeds the plan's seats: one
\* seat for every further invitation that was checked at the same time, and the
\* members that came back from a suspension.  The owner's own seat is not checked.
SeatsExplained ==
    Seats(rows) <= Greatest(SeatLimit, 1) + Cardinality(Slots) - 1
                   + Cardinality({i \in readmitted : rows[i].status \in {"active", "invited"}})

\* A person holds one membership at most, whichever mailbox, link or moment it was
\* accepted with.
OneMembershipEach ==
    \A i, j \in DOMAIN rows :
        Present(i) /\ Present(j) /\ rows[i].user # Nobody /\ rows[i].user = rows[j].user => i = j

\* A removed membership stays removed: an acceptance or an update that was under
\* way when the row went does not bring it back.
RemovedStaysOut ==
    [][\A i \in DOMAIN rows : rows[i].status = "gone" => rows'[i].status = "gone"]_memberVars

\* Seats are counted and granted as the plan says, apart from the overlaps and the
\* reactivations named above.
SeatsRight == MembersOK /\ SeatGaugeExact /\ SeatsExplained /\ OneMembershipEach
====
