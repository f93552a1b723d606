--------------------------- MODULE VersionedCache ---------------------------
(***************************************************************************)
(* The version-counter cache of core/cache.py with its readers and its     *)
(* writers.  A reader looks up the version of every scope, then the body   *)
(* stored under those versions; on a miss it computes the body from the    *)
(* database, one query per kind of row, and stores it under the versions   *)
(* it looked up first.  A writer bumps its scope inside its transaction    *)
(* and once more after the commit.                                         *)
(*                                                                         *)
(* Entitlements use one scope and two kinds of rows, feature flags several *)
(* of each (get_scoped); the constants choose.  What a row holds is the    *)
(* set of changes, one per writer, that were committed to it, and a body   *)
(* is the set of changes its computation saw.                              *)
(***************************************************************************)
EXTENDS Integers, Sequences, FiniteSets

CONSTANTS
    Scopes,       \* sequence: the version counters, in the order they are read
    RowKinds,     \* sequence: the kinds of rows, in the order they are queried
    ScopeOf,      \* [row kind -> scope its writers bump]
    Readers,      \* reading requests
    Writers,      \* requests and jobs that change a row
    Kinds,        \* kinds of writers: "request", "job", "sync"
    BodyTtl,      \* life of a body, in ticks
    VersionTtl,   \* life of a version counter of the in-process backend
    MaxRequest,   \* bound: ticks a reading request lasts
    MaxLost       \* bound: bumps that fail, and processes that die before theirs

Indices == 1..Len(Scopes)
ScopeSet == {Scopes[i] : i \in Indices}
RowSet == {RowKinds[i] : i \in 1..Len(RowKinds)}

ASSUME ScopeAssumption ==
    Scopes # <<>> /\ Scopes \in Seq(ScopeSet) /\ ScopeOf \in [RowSet -> ScopeSet]
\* No body is computed with more than three queries.
ASSUME QueryAssumption == RowKinds \in Seq(RowSet) /\ Len(RowKinds) \in 1..3
ASSUME TimeAssumption ==
    BodyTtl \in Nat \ {0} /\ VersionTtl \in Nat /\ MaxRequest \in Nat /\ MaxLost \in Nat

VARIABLES
    \* the cache
    version,      \* [scope -> value of its counter, 0 when the key is absent]
    vlife,        \* [scope -> ticks until the counter expires]
    ttl,          \* life of a new counter: VersionTtl, or 0 on Redis, whose counters have none
    bodies,       \* records of a token, the body stored under it and its life
    \* the database
    committed,    \* changes that are durable
    rowOf,        \* [writer -> kind of row it changes]
    \* writers
    wpc, wkind,
    announced,    \* changes whose bump after the commit took effect
    since,        \* [writer -> ticks since its commit, at most Overdue]
    lost,
    \* readers
    rpc, token, body, spent,
    owed          \* changes announced, or overdue, when the read began

cache   == <<version, vlife, bodies, ttl>>
writers == <<wpc, wkind, rowOf, committed, announced, since, lost>>
readers == <<rpc, token, body, spent, owed>>
cacheVars    == <<cache, writers, readers>>

\* A body older than this was computed by a request that began before the change.
Overdue == BodyTtl + MaxRequest + 1

Nothing == [announced |-> {}, overdue |-> {}]

CacheInit ==
    /\ version = [s \in ScopeSet |-> 0]
    /\ vlife = [s \in ScopeSet |-> 0]
    /\ ttl \in {0, VersionTtl}
    /\ bodies = {}
    /\ committed = {} /\ announced = {}
    /\ rowOf \in [Writers -> RowSet]
    /\ wpc = [w \in Writers |-> "idle"]
    /\ wkind \in [Writers -> Kinds]
    /\ since = [w \in Writers |-> 0]
    /\ lost = 0
    /\ rpc = [r \in Readers |-> "idle"]
    /\ token = [r \in Readers |-> <<>>]
    /\ body = [r \in Readers |-> {}]
    /\ spent = [r \in Readers |-> 0]
    /\ owed = [r \in Readers |-> Nothing]

----------------------------------------------------------------------------
(* Readers *)

Overdues == {w \in committed : since[w] = Overdue}

\* current_version of the first scope.
Begin(r) ==
    /\ rpc[r] = "idle"
    /\ rpc' = [rpc EXCEPT ![r] = "versions"]
    /\ token' = [token EXCEPT ![r] = <<version[Scopes[1]]>>]
    /\ owed' = [owed EXCEPT ![r] = [announced |-> announced, overdue |-> Overdues]]
    /\ UNCHANGED <<cache, writers, body, spent>>

\* get_scoped: the other counters, one after the other.
ReadVersion(r) ==
    /\ rpc[r] = "versions" /\ Len(token[r]) < Len(Scopes)
    /\ token' = [token EXCEPT ![r] = Append(@, version[Scopes[Len(@) + 1]])]
    /\ UNCHANGED <<cache, writers, rpc, body, spent, owed>>

Under(t) == {b \in bodies : b.token = t}

\* The lookup of the body: a hit answers the request, a miss computes.
Lookup(r) ==
    /\ rpc[r] = "versions" /\ Len(token[r]) = Len(Scopes)
    /\ IF Under(token[r]) = {}
       THEN /\ rpc' = [rpc EXCEPT ![r] = "compute1"]
            /\ UNCHANGED body
       ELSE /\ rpc' = [rpc EXCEPT ![r] = "answered"]
            /\ body' = [body EXCEPT ![r] = UNION {b.body : b \in Under(token[r])}]
    /\ UNCHANGED <<cache, writers, token, spent, owed>>

Query == [i \in 1..Len(RowKinds) |-> <<"compute1", "compute2", "compute3">>[i]]
AfterQuery(i) == IF i = Len(RowKinds) THEN "store" ELSE Query[i + 1]

\* One query of _compute (or _evaluate): each statement has its own snapshot.
Compute(r) == \E i \in 1..Len(RowKinds) :
    /\ rpc[r] = Query[i]
    /\ body' = [body EXCEPT ![r] = @ \cup {w \in committed : rowOf[w] = RowKinds[i]}]
    /\ rpc' = [rpc EXCEPT ![r] = AfterQuery(i)]
    /\ UNCHANGED <<cache, writers, token, spent, owed>>

\* Mutant: set re-reads the versions.
StoreTokenReread(r) == [i \in Indices |-> version[Scopes[i]]]
\* set stores under the versions seen at the read, over what is there.
StoreToken(r) == token[r]
Others(t) == {b \in bodies : b.token # t}

Store(r) ==
    LET t == StoreToken(r) IN
    /\ rpc[r] = "store"
    /\ bodies' = Others(t) \cup {[token |-> t, body |-> body[r], life |-> BodyTtl]}
    /\ rpc' = [rpc EXCEPT ![r] = "answered"]
    /\ UNCHANGED <<version, vlife, ttl, writers, token, body, spent, owed>>

----------------------------------------------------------------------------
(* Writers *)

ScopeBy(w) == ScopeOf[rowOf[w]]

\* incr: a counter that expired starts over at 1.
Bump(s) ==
    /\ version' = [version EXCEPT ![s] = @ + 1]
    /\ vlife' = [vlife EXCEPT ![s] = ttl]
    /\ UNCHANGED <<bodies, ttl>>

\* grant, revoke, change_plan, set_override...: the change is flushed to the open
\* transaction and _invalidate bumps; the second bump is deferred.
Write(w) ==
    /\ wpc[w] = "idle" /\ wkind[w] = "request"
    /\ wpc' = [wpc EXCEPT ![w] = "commit"]
    /\ \/ Bump(ScopeBy(w)) /\ UNCHANGED lost
       \/ lost < MaxLost /\ lost' = lost + 1 /\ UNCHANGED cache
    /\ UNCHANGED <<readers, wkind, rowOf, committed, announced, since>>

\* expire_entitlements, and the plan catalog sync, which bumps nothing at all.
WriteQuietly(w) ==
    /\ wpc[w] = "idle" /\ wkind[w] \in {"job", "sync"}
    /\ wpc' = [wpc EXCEPT ![w] = "commit"]
    /\ UNCHANGED <<cache, readers, wkind, rowOf, committed, announced, since, lost>>

Commit(w) ==
    /\ wpc[w] = "commit"
    /\ committed' = committed \cup {w}
    /\ wpc' = [wpc EXCEPT ![w] = IF wkind[w] = "sync" THEN "done" ELSE "flush"]
    /\ UNCHANGED <<cache, readers, wkind, rowOf, announced, since, lost>>

\* The request fails: get_session rolls back and discards the deferred bumps.
RollBackWrite(w) ==
    /\ wpc[w] = "commit"
    /\ wpc' = [wpc EXCEPT ![w] = "done"]
    /\ UNCHANGED <<cache, readers, wkind, rowOf, committed, announced, since, lost>>

\* flush_deferred_bumps, or invalidate_entitlements in a job.  bump swallows its
\* errors, and the process may die between the commit and this.
Flush(w) ==
    /\ wpc[w] = "flush"
    /\ wpc' = [wpc EXCEPT ![w] = "done"]
    /\ \/ /\ Bump(ScopeBy(w))
          /\ announced' = announced \cup {w}
          /\ UNCHANGED lost
       \/ /\ lost < MaxLost /\ lost' = lost + 1
          /\ UNCHANGED <<cache, announced>>
    /\ UNCHANGED <<readers, wkind, rowOf, committed, since>>

----------------------------------------------------------------------------
(* Time *)

\* Mutant: bodies never expire.
AgedForever(S) == S
\* The bodies of S one tick later.
Aged(S) == {[b EXCEPT !.life = @ - 1] : b \in {c \in S : c.life > 1}}

Expires(s) == vlife[s] = 1

Reading(r) == rpc[r] \notin {"idle", "answered"}

Tick ==
    /\ \A r \in Readers : Reading(r) => spent[r] < MaxRequest
    /\ bodies' = Aged(bodies)
    /\ version' = [s \in ScopeSet |-> IF Expires(s) THEN 0 ELSE version[s]]
    /\ vlife' = [s \in ScopeSet |-> IF vlife[s] > 0 THEN vlife[s] - 1 ELSE 0]
    /\ since' = [w \in Writers |->
                   IF w \in committed /\ since[w] < Overdue THEN since[w] + 1 ELSE since[w]]
    /\ spent' = [r \in Readers |-> IF Reading(r) THEN spent[r] + 1 ELSE spent[r]]
    /\ UNCHANGED <<ttl, wpc, wkind, rowOf, committed, announced, lost, rpc, token, body, owed>>

CacheNext ==
    \/ \E r \in Readers : Begin(r) \/ ReadVersion(r) \/ Lookup(r) \/ Compute(r) \/ Store(r)
    \/ \E w \in Writers : Write(w) \/ WriteQuietly(w) \/ Commit(w) \/ RollBackWrite(w) \/ Flush(w)
    \/ Tick

CacheSpec == CacheInit /\ [][CacheNext]_cacheVars

----------------------------------------------------------------------------
\* Tables, processes and cache are well typed; a token has at most one body.
CacheOK ==
    /\ version \in [ScopeSet -> Nat] /\ ttl \in {0, VersionTtl} /\ vlife \in [ScopeSet -> 0..ttl]
    /\ \A b \in bodies : /\ b.body \subseteq Writers /\ b.life \in 1..BodyTtl
                         /\ b.token \in [Indices -> Nat]
                         /\ \A c \in bodies : c.token = b.token => c = b
    /\ announced \subseteq committed /\ committed \subseteq Writers
    /\ \A w \in Writers : /\ wpc[w] \in {"idle", "commit", "flush", "done"}
                          /\ since[w] \in 0..Overdue
    /\ \A r \in Readers : /\ body[r] \subseteq Writers /\ spent[r] \in 0..MaxRequest
                          /\ Len(token[r]) <= Len(Scopes)
    /\ lost \in 0..MaxLost

\* Once a change has been committed and its scope bumped ("Next read misses"), a
\* request that begins afterwards never answers with rows from before the change.
\* On Redis: the counters of the in-process backend expire and start over, and may
\* reach again a version under which a body is still alive.
AnnouncedIsSeen ==
    ttl = 0 => \A r \in Readers : rpc[r] = "answered" => owed[r].announced \subseteq body[r]

\* On either backend, whatever bumps are lost, and for changes that bump nothing, a
\* request that begins a body's life (plus one request) after the commit sees the
\* change.
StaleIsBounded ==
    \A r \in Readers : rpc[r] = "answered" => owed[r].overdue \subseteq body[r]

\* The cache holds one body for a combination of versions, and whatever goes wrong
\* with the bumps is over when that body's life is.
CacheSound == CacheOK /\ StaleIsBounded
====
