---------------------------- MODULE TenantScope ----------------------------
(***************************************************************************)
(* How a request is held to one organization: the tenant context of the    *)
(* request (core/context.py), the repository filter (core/repository.py),  *)
(* and row-level security (core/db.py, migration 0013), whose policies     *)
(* read settings of the database connection.  Connections are pooled and   *)
(* requests overlap, so a setting must end with the transaction that made  *)
(* it.  A response leaves only after the transaction has committed         *)
(* (core/commit_before_send.py).                                           *)
(***************************************************************************)
EXTENDS Naturals, FiniteSets

CONSTANTS Orgs, Folk, Operator,  \* Operator \in Folk is the platform admin
          KeyOrg,                \* the organization of the API key
          Conns, Asks,           \* pooled connections; overlapping requests
          NoOne, MaxAsks         \* bound: requests in a behaviour

VARIABLES rls, subject,          \* SYNAPSE_TENANT_ISOLATION; the database role obeys policies
          up,                    \* the API has started
          guc,                   \* connection -> the settings of its transaction
          ask,                   \* request -> its progress
          belongs, suspended,    \* active memberships; suspended organizations
          stored, promised,      \* committed rows; rows a success response reported
          opened                 \* requests so far

scopeVars == <<rls, subject, up, guc, ask, belongs, suspended, stored, promised, opened>>

ApiKey == "sk"

\* Accounts, organizations, connections and the key are told apart; the operator is an
\* account and the key belongs to an organization.
ASSUME TenantScopeAssumption ==
    /\ Operator \in Folk /\ KeyOrg \in Orgs /\ MaxAsks \in Nat
    /\ NoOne \notin Orgs \cup Folk \cup Conns /\ ApiKey \notin Folk \cup {NoOne}

Unset == [tenant |-> NoOne, user |-> NoOne, platform |-> FALSE]
Quiet == [stage |-> "idle", who |-> NoOne, conn |-> NoOne, ctx |-> NoOne, entitled |-> {},
          rows |-> {}, whole |-> TRUE, scoped |-> FALSE, writes |-> {}, step |-> 1]

\* The policed tables differ in two ways: rows without an organization, and rows
\* that a user may see because they are the user's own.
TENANT_POLICIES == [agents |-> [nullable |-> FALSE, user_scoped |-> FALSE],
                    roles |-> [nullable |-> TRUE, user_scoped |-> FALSE],
                    memberships |-> [nullable |-> FALSE, user_scoped |-> TRUE]]

Row(t, o, u) == [table |-> t, org |-> o, user |-> u]
Seeded == {Row("agents", o, NoOne) : o \in Orgs} \cup {Row("roles", o, NoOne) : o \in Orgs \cup {NoOne}}
    \cup {Row("memberships", o, u) : o \in Orgs, u \in Folk \ {Operator}}

TenantScopeInit ==
    /\ rls \in BOOLEAN /\ subject \in BOOLEAN /\ up = FALSE
    /\ guc = [c \in Conns |-> Unset]
    /\ ask = [r \in Asks |-> Quiet]
    /\ belongs \in SUBSET ((Folk \ {Operator}) \X Orgs)
    /\ suspended = {} /\ stored = Seeded /\ promised = {} /\ opened = 0

\* With policies on, the role must be subject to them; with policies off it must not.
RoleMatches == rls = subject
Boot == /\ ~up /\ RoleMatches /\ up' = TRUE
        /\ UNCHANGED <<rls, subject, guc, ask, belongs, suspended, stored, promised, opened>>

\* Mutant: settings outlive their transaction, as with set_config(..., false).
EndTransactionKeeps(c) == guc
\* Settings are made with set_config(..., true): commit and rollback undo them.
EndTransaction(c) == [guc EXCEPT ![c] = Unset]

\* The setters do nothing unless policies are on.
Set(c, name, value) == IF rls THEN [guc EXCEPT ![c][name] = value] ELSE guc

Held == {ask[r].conn : r \in Asks}
Goes(r, stage) == ask' = [ask EXCEPT ![r].stage = stage]

FreeConn == Conns \ Held

\* bind_api_key_context: the key is its organization's credential.
KeyAsk(c) == [Quiet EXCEPT !.stage = "tenant", !.who = ApiKey, !.conn = c,
                           !.ctx = KeyOrg, !.entitled = {KeyOrg}]

\* get_current_user: a user is bound to the connection, an API key pins its
\* organization, and a webhook or a public page comes without a principal.
Authenticate(r, who, c) ==
    /\ up /\ ask[r].stage = "idle" /\ opened < MaxAsks /\ c \in FreeConn
    /\ opened' = opened + 1
    /\ IF who = ApiKey
       THEN /\ KeyOrg \notin suspended
            /\ guc' = Set(c, "tenant", KeyOrg)
            /\ ask' = [ask EXCEPT ![r] = KeyAsk(c)]
       ELSE /\ guc' = IF who = NoOne THEN guc ELSE Set(c, "user", who)
            /\ ask' = [ask EXCEPT ![r] = [Quiet EXCEPT !.stage = "known", !.who = who, !.conn = c]]
    /\ UNCHANGED <<rls, subject, up, belongs, suspended, stored, promised>>

\* The policy of a table: rows of the bound tenant, everything in platform scope,
\* rows without an organization where the table has them, the user's own rows.
Admits(g, x) ==
    \/ x.org # NoOne /\ x.org = g.tenant
    \/ g.platform
    \/ TENANT_POLICIES[x.table].nullable /\ x.org = NoOne
    \/ TENANT_POLICIES[x.table].user_scoped /\ x.user # NoOne /\ x.user = g.user
Policed(r, x) == subject => Admits(guc[ask[r].conn], x)

\* resolve_tenant binds the organization the headers name before it asks for the
\* membership, because the policies would hide it otherwise.
BindTenant(r, o) ==
    /\ ask[r].stage = "known" /\ ask[r].who \in Folk
    /\ guc' = Set(ask[r].conn, "tenant", o)
    /\ ask' = [ask EXCEPT ![r].stage = "checking", ![r].ctx = o]
    /\ UNCHANGED <<rls, subject, up, belongs, suspended, stored, promised, opened>>

IsMember(r, o) == /\ <<ask[r].who, o>> \in belongs
                  /\ Policed(r, Row("memberships", o, ask[r].who))

\* A member of an organization that is not suspended, or a platform admin.
MayEnter(r, o) == ask[r].who = Operator \/ (IsMember(r, o) /\ o \notin suspended)

CheckMembership(r) ==
    LET o == ask[r].ctx IN
    /\ ask[r].stage = "checking"
    /\ ask' = [ask EXCEPT ![r].stage = IF MayEnter(r, o) THEN "tenant" ELSE "failing",
                          ![r].entitled = {p \in {o} : <<ask[r].who, p>> \in belongs}]
    /\ UNCHANGED <<rls, subject, up, guc, belongs, suspended, stored, promised, opened>>

\* require_platform_admin
RequirePlatform(r) ==
    /\ ask[r].stage = "known" /\ ask[r].who \in Folk
    /\ IF ask[r].who = Operator
       THEN guc' = Set(ask[r].conn, "platform", TRUE) /\ Goes(r, "platform")
       ELSE UNCHANGED guc /\ Goes(r, "failing")
    /\ UNCHANGED <<rls, subject, up, belongs, suspended, stored, promised, opened>>

\* An invite token or a provider reference names an organization before any
\* tenant is known: the lookup runs with the owner's rights and returns only it.
LookUpOrg(r, o) ==
    /\ ask[r].stage = "known"
    /\ guc' = Set(ask[r].conn, "tenant", o)
    /\ ask' = [ask EXCEPT ![r].stage = "named", ![r].entitled = {o}]
    /\ UNCHANGED <<rls, subject, up, belongs, suspended, stored, promised, opened>>

\* The repository filters by the tenant of the request's context.
Scoped(r, x) == x.org = ask[r].ctx

Working(r) == ask[r].stage \in {"known", "named", "tenant", "platform"}

\* What Repository, which does not filter, finds in a table.
Readable(r, t) == {x \in stored : x.table = t /\ Policed(r, x)}

\* A query through TenantRepository, which raises without a tenant context, or one
\* that does not filter.
Query(r, t, scoped) ==
    LET found == {x \in Readable(r, t) : scoped => Scoped(r, x)}
        mine == {x \in stored : x.table = t /\ x.org = ask[r].ctx}
    IN
    /\ Working(r) /\ (scoped => ask[r].stage = "tenant")
    /\ ask' = [ask EXCEPT ![r].rows = found, ![r].scoped = scoped, ![r].whole = scoped => mine \subseteq found]
    /\ UNCHANGED <<rls, subject, up, guc, belongs, suspended, stored, promised, opened>>

\* add: a row is stamped with the tenant; one that carries another organization,
\* or that the policy does not admit, ends the request.
Add(r, o) ==
    LET x == Row("agents", o, ask[r].who) IN
    /\ ask[r].stage = "tenant"
    /\ IF o = ask[r].ctx /\ Policed(r, x)
       THEN ask' = [ask EXCEPT ![r].writes = @ \cup {x}]
       ELSE Goes(r, "failing")
    /\ UNCHANGED <<rls, subject, up, guc, belongs, suspended, stored, promised, opened>>

\* get_session rolls back when the handler raised, wherever it was.
Rollback(r) ==
    /\ ask[r].stage = "failing" \/ Working(r)
    /\ guc' = EndTransaction(ask[r].conn)
    /\ ask' = [ask EXCEPT ![r] = Quiet]
    /\ UNCHANGED <<rls, subject, up, belongs, suspended, stored, promised, opened>>

\* The handler has returned a success response.
Return(r) ==
    /\ Working(r) /\ Goes(r, "closing")
    /\ UNCHANGED <<rls, subject, up, guc, belongs, suspended, stored, promised, opened>>

\* The middleware closes the session before the first byte leaves.
Closing == <<"commit", "send">>

\* The commit may fail, and then the client gets an error instead of the response.
CommitAsk(r) ==
    /\ ask[r].stage = "closing" /\ Closing[ask[r].step] = "commit"
    /\ guc' = EndTransaction(ask[r].conn)
    /\ \/ /\ stored' = stored \cup ask[r].writes
          /\ ask' = [ask EXCEPT ![r] = IF ask[r].step = 2 THEN Quiet
                                       ELSE [Quiet EXCEPT !.stage = "closing", !.step = 2, !.writes = ask[r].writes]]
       \/ UNCHANGED stored /\ ask' = [ask EXCEPT ![r] = Quiet]
    /\ UNCHANGED <<rls, subject, up, belongs, suspended, promised, opened>>

Send(r) ==
    /\ ask[r].stage = "closing" /\ Closing[ask[r].step] = "send"
    /\ promised' = promised \cup ask[r].writes
    /\ ask' = [ask EXCEPT ![r] = IF ask[r].step = 2 THEN Quiet ELSE [ask[r] EXCEPT !.step = 2]]
    /\ UNCHANGED <<rls, subject, up, guc, belongs, suspended, stored, opened>>

\* Meanwhile members are removed and organizations suspended.
MeanwhileRemoved(u, o) ==
    /\ <<u, o>> \in belongs /\ belongs' = belongs \ {<<u, o>>}
    /\ UNCHANGED <<rls, subject, up, guc, ask, suspended, stored, promised, opened>>
\* suspend_organization and unsuspend_organization
MeanwhileSuspended(o) ==
    /\ suspended' = IF o \in suspended THEN suspended \ {o} ELSE suspended \cup {o}
    /\ UNCHANGED <<rls, subject, up, guc, ask, belongs, stored, promised, opened>>

TenantScopeNext ==
    \/ Boot
    \/ \E r \in Asks :
          \/ \E who \in Folk \cup {ApiKey, NoOne}, c \in Conns : Authenticate(r, who, c)
          \/ \E o \in Orgs : BindTenant(r, o) \/ LookUpOrg(r, o) \/ Add(r, o)
          \/ CheckMembership(r) \/ RequirePlatform(r) \/ Rollback(r) \/ Return(r)
          \/ CommitAsk(r) \/ Send(r)
          \/ \E t \in DOMAIN TENANT_POLICIES, scoped \in BOOLEAN : Query(r, t, scoped)
    \/ \E u \in Folk, o \in Orgs : MeanwhileRemoved(u, o)
    \/ \E o \in Orgs : MeanwhileSuspended(o)

----------------------------------------------------------------------------
\* Requests, connections and memberships have their types, and no connection
\* serves two requests.
TenantScopeOK ==
    /\ ask \in [Asks -> [stage : {"idle", "known", "checking", "named", "tenant", "platform", "failing", "closing"},
                          who : Folk \cup {ApiKey, NoOne}, conn : Conns \cup {NoOne}, ctx : Orgs \cup {NoOne},
                          entitled : SUBSET Orgs, rows : SUBSET stored, whole : BOOLEAN, scoped : BOOLEAN,
                          writes : SUBSET [table : {"agents"}, org : Orgs, user : Folk \cup {ApiKey}], step : 1..2]]
    /\ \A r, q \in Asks : (r # q /\ ask[r].conn = ask[q].conn) => ask[r].conn = NoOne

\* What a principal may see: the rows of an organization it was entitled to when
\* the organization was resolved, rows without an organization, and its own.
MayBeSeen(r, x) ==
    \/ ask[r].who = Operator
    \/ x.org \in ask[r].entitled \cup {NoOne}
    \/ x.table = "memberships" /\ x.user = ask[r].who

\* No request sees another organization's rows: with policies on, whatever the
\* query; with policies off, through the repository.  A connection that served
\* another tenant before, or a refused resolution, changes nothing.
TenantsIsolated ==
    \A r \in Asks : (rls \/ ask[r].scoped) => \A x \in ask[r].rows : MayBeSeen(r, x)

\* Isolation is not a lockout: a repository query finds every row of its tenant.
TenantSeesItself == \A r \in Asks : ask[r].whole

\* A success response is sent only for rows that are committed.
PromisesKept == promised \subseteq stored

\* A request sees all of its tenant and nothing of another, and is answered with
\* success only for what is stored.
TenantScopeSound == TenantScopeOK /\ TenantsIsolated /\ TenantSeesItself /\ PromisesKept
====
