------------------------------- MODULE Roles --------------------------------
(***************************************************************************)
(* Who may do what in one organization: roles, the permission_keys column  *)
(* that repeats them on every membership, the permission cache in front of *)
(* it, and API keys that are bounded by their creator.                     *)
(*                                                                         *)
(* A request loads rows, computes the column from what it saw, and         *)
(* commits; two requests may overlap.  The cache is announced to (bumped)  *)
(* after the commit.                                                       *)
(***************************************************************************)
EXTENDS Permissions

CONSTANTS
    Accounts,     \* users that are or become members
    Requests      \* requests the server works on at the same time

VARIABLES
    custom,       \* permissions of the custom role, or Nothing
    member,       \* membership of each account: status, roles, permission_keys
    tx,           \* what each request has loaded and will write
    cached,       \* _perm_cache: the served permission set of each account
    apiKey,       \* an API key: creator and scopes
    unannounced,  \* history: accounts whose last change was not announced
    skew          \* history: accounts that overlapping requests may have left wrong

roleVars == <<custom, member, tx, cached, apiKey, unannounced, skew>>

NoTx == [op |-> "none"]
Membership == [status : {"none", "invited", "active", "suspended"},
               roles : SUBSET RoleKeys, keys : SUBSET Perms]
NotAMember == [status |-> "none", roles |-> {}, keys |-> {}]

RolesInit ==
    /\ custom = Nothing
    /\ member = [u \in Accounts |-> [status |-> "active", roles |-> {SystemRole}, keys |-> SystemPerms]]
    /\ tx = [r \in Requests |-> NoTx]
    /\ cached = [u \in Accounts |-> Nothing]
    /\ apiKey = Nothing
    /\ unannounced = {} /\ skew = {}

\* Mutant: members that hold another role as well are left out.
HoldersOnly == {u \in Accounts : member[u].roles = {CustomRole}}
\* The memberships that hold the custom role.
Holders == {u \in Accounts : CustomRole \in member[u].roles}

\* The permission set in force: only active members have one.
EffectiveKeys(u) == IF member[u].status = "active" THEN member[u].keys ELSE {}

\* invalidate_user_perms for the accounts in U: what is cached is not served any more
\* (nor what is being looked up meanwhile, see VersionedCache).
Bumped(U) == [u \in Accounts |-> IF u \in U THEN Nothing ELSE cached[u]]

\* What request r will write: the accounts' new keys where they differ from the loaded
\* ones, one account's roles or status, the custom role.  It announces once now and
\* once after the commit.
Begin(r, t) ==
    /\ tx[r] = NoTx
    /\ tx' = [tx EXCEPT ![r] = t]
    /\ cached' = Bumped(t.bumps)
    /\ UNCHANGED <<custom, member, apiKey, unannounced, skew>>

Blank == [op |-> "none", user |-> Nothing, roles |-> {}, seen |-> {}, status |-> "none",
          custom |-> Nothing, keys |-> << >>, bumps |-> {}, late |-> FALSE]

Changed(new) == [u \in {x \in DOMAIN new : new[x] # member[x].keys} |-> new[u]]

\* invalidate_org_perms: the memberships that name a user.
Joined == {u \in Accounts : member[u].status \in {"active", "suspended"}}

----------------------------------------------------------------------------
(* What a request loads and computes.                                      *)

\* create_custom_role.
CreateRole(r) ==
    /\ custom = Nothing
    /\ \E c \in Grants : Begin(r, [Blank EXCEPT !.op = "create", !.custom = c])

\* update_custom_role, _set_role_permissions, _refresh_memberships_for_role.
UpdateRole(r) ==
    /\ custom # Nothing
    /\ \E c \in Grants \ {custom} :
          Begin(r, [Blank EXCEPT !.op = "edit", !.custom = c, !.seen = custom, !.bumps = Joined,
                                 !.keys = Changed([u \in Holders |-> Recompute(member[u].roles, c)])])

\* delete_custom_role.
DeleteRole(r) ==
    /\ custom # Nothing
    /\ Begin(r, [Blank EXCEPT !.op = "delete", !.bumps = Joined,
                   !.keys = Changed([u \in Holders |-> Recompute(member[u].roles \ {CustomRole}, custom)])])

\* update_membership with role_keys: _replace_roles and _attach_role.
ReplaceRoles(r) ==
    \E u \in Accounts, roles \in SUBSET RoleKeys \ {{}} :
        /\ member[u].status # "none"
        /\ CustomRole \in roles => custom # Nothing
        /\ Begin(r, [Blank EXCEPT !.op = "roles", !.user = u, !.roles = roles, !.seen = member[u].roles,
                                  !.keys = Changed([x \in {u} |-> Recompute(roles, custom)]),
                                  !.bumps = {u} \cap Joined])

\* invite_member: _attach_role on a new row.
Invite(r) ==
    \E u \in Accounts, role \in RoleKeys :
        /\ member[u].status = "none"
        /\ role = CustomRole => custom # Nothing
        /\ Begin(r, [Blank EXCEPT !.op = "invite", !.user = u, !.roles = {role},
                                  !.keys = [x \in {u} |-> PermsOf(role, custom)]])

\* accept_invite_by_token, and update_membership with a status.
ChangeStatus(r) ==
    \E u \in Accounts, new \in {"active", "suspended"} :
        /\ member[u].status \notin {"none", new}
        /\ Begin(r, [Blank EXCEPT !.op = "status", !.user = u, !.status = new, !.bumps = {u}])

\* remove_member; the permission cache is not told.
RemoveMember(r) ==
    \E u \in Accounts :
        /\ member[u].status # "none"
        /\ Begin(r, [Blank EXCEPT !.op = "remove", !.user = u])

----------------------------------------------------------------------------
(* The commit.                                                             *)

\* DELETE FROM membership_roles (role_permissions) took the rows the request saw;
\* what another one has committed since stays beside the new rows.
Others(now, t) == now \ t.seen

RolesAfter(t, m, mine) ==
    IF mine /\ t.op = "roles" THEN Others(m.roles, t) \cup t.roles
    ELSE IF t.op = "delete" THEN m.roles \ {CustomRole} ELSE m.roles

\* Membership u after t.
After(t, u) ==
    LET m == member[u]
        mine == t.user = u
    IN  CASE mine /\ t.op = "remove" -> NotAMember
          [] mine /\ t.op = "invite" -> [status |-> "invited", roles |-> t.roles, keys |-> t.keys[u]]
          [] OTHER ->
                [status |-> IF mine /\ t.op = "status" THEN t.status ELSE m.status,
                 roles  |-> RolesAfter(t, m, mine),
                 keys   |-> IF u \in DOMAIN t.keys THEN t.keys[u] ELSE m.keys]

CustomAfter(t) ==
    CASE t.op \in {"create", "delete"} -> t.custom
      [] t.op = "edit"                 -> Others(custom, t) \cup t.custom
      [] OTHER                         -> custom

\* An UPDATE or INSERT finds its row gone, or the same row already there.
Refused(t) ==
    \/ t.op # "invite" /\ \E u \in DOMAIN t.keys : member[u].status = "none"
    \/ t.op \in {"status", "roles"} /\ member[t.user].status = "none"
    \/ t.op = "invite" /\ member[t.user].status # "none"
    \/ t.op = "roles" /\ Others(member[t.user].roles, t) \cap t.roles # {}
    \/ t.op \in {"roles", "invite"} /\ CustomRole \in t.roles /\ custom = Nothing
    \/ t.op = "create" /\ custom # Nothing
    \/ t.op \in {"edit", "delete"} /\ custom = Nothing
    \/ t.op = "edit" /\ Others(custom, t) \cap t.custom # {}

\* Accounts whose keys t computed from the roles.
Rewritten(t) == IF t.op \in {"edit", "delete"} THEN Holders
                ELSE IF t.op \in {"roles", "invite", "remove"} THEN {t.user} ELSE {}

\* The rows are durable, then the announcement goes out again, unless the process
\* dies or the cache is away (told = FALSE).
Commit(r) ==
    LET t == tx[r] IN
    \E told \in BOOLEAN :
        /\ t # NoTx /\ ~Refused(t)
        /\ custom' = CustomAfter(t)
        /\ member' = [u \in Accounts |-> After(t, u)]
        /\ tx' = [x \in Requests |-> IF x = r \/ tx[x] = NoTx THEN NoTx ELSE [tx[x] EXCEPT !.late = TRUE]]
        /\ cached' = IF told THEN Bumped(t.bumps) ELSE cached
        /\ unannounced' =
              IF t.op = "remove" \/ ~told \/ t.late
              THEN unannounced \cup {u \in Accounts : cached'[u] # Nothing}
              ELSE unannounced \ t.bumps
        /\ skew' = IF t.late THEN Accounts ELSE skew \ Rewritten(t)
        /\ UNCHANGED apiKey

Rollback(r) ==
    /\ tx[r] # NoTx
    /\ tx' = [tx EXCEPT ![r] = NoTx]
    /\ UNCHANGED <<custom, member, cached, apiKey, unannounced, skew>>

----------------------------------------------------------------------------
(* permission_keys_for, and what asks it.                                  *)

\* A miss reads the row and stores it; the empty set is stored as the empty string,
\* which reads as a miss.
Fill(u) ==
    /\ cached[u] = Nothing /\ EffectiveKeys(u) # {}
    /\ cached' = [cached EXCEPT ![u] = EffectiveKeys(u)]
    /\ UNCHANGED <<custom, member, tx, apiKey, unannounced, skew>>

\* The 30 seconds are over.
Expire(u) ==
    /\ cached[u] # Nothing
    /\ cached' = [cached EXCEPT ![u] = Nothing]
    /\ unannounced' = unannounced \ {u}
    /\ UNCHANGED <<custom, member, tx, apiKey, skew>>

\* permission_keys_for.
Served(u) == IF cached[u] # Nothing THEN cached[u] ELSE EffectiveKeys(u)

\* create_key: a subset of what the creator is served; an empty request is all of it.
MintKey(u) ==
    /\ apiKey = Nothing /\ member[u].status = "active" /\ Served(u) # {}
    /\ \E scopes \in SUBSET Served(u) \ {{}} : apiKey' = [creator |-> u, scopes |-> scopes]
    /\ UNCHANGED <<custom, member, tx, cached, unannounced, skew>>

\* require_permission for a key: its scopes, as far as the creator holds them now.
Exercised(k) == k.scopes \cap Served(k.creator)

\* A key makes a key: the creator stays, the scopes are some of the parent's.
KeyMintsKey ==
    /\ apiKey # Nothing /\ Exercised(apiKey) # {}
    /\ \E scopes \in SUBSET apiKey.scopes \ {{}} : apiKey' = [apiKey EXCEPT !.scopes = scopes]
    /\ UNCHANGED <<custom, member, tx, cached, unannounced, skew>>

RevokeKey ==
    /\ apiKey # Nothing /\ apiKey' = Nothing
    /\ UNCHANGED <<custom, member, tx, cached, unannounced, skew>>

RolesNext ==
    \/ \E r \in Requests :
          \/ CreateRole(r) \/ UpdateRole(r) \/ DeleteRole(r) \/ ReplaceRoles(r) \/ Invite(r)
          \/ ChangeStatus(r) \/ RemoveMember(r) \/ Commit(r) \/ Rollback(r)
    \/ \E u \in Accounts : Fill(u) \/ Expire(u) \/ MintKey(u)
    \/ KeyMintsKey \/ RevokeKey

----------------------------------------------------------------------------
\* Memberships, the custom role and the cache hold sets of permissions; nobody holds a
\* role that is gone.
RolesOK ==
    /\ custom \in Grants \cup (SUBSET Perms) \cup {Nothing}
    /\ member \in [Accounts -> Membership]
    /\ \A u \in Accounts : cached[u] \in (SUBSET Perms) \cup {Nothing}
    /\ custom = Nothing => Holders = {}

\* The denormalised column says what the roles say, unless two requests overlapped;
\* the next request that computes it alone repairs it.
KeysMatchRoles ==
    \A u \in Accounts \ skew : member[u].status # "none" => member[u].keys = Recompute(member[u].roles, custom)

\* "Role/membership changes must be visible to the very next request": the cache
\* serves a member's current set, or the change was a removal, was made by a request
\* that overlapped another, or lost its announcement; then until the entry expires.
CacheExplained ==
    \A u \in Accounts \ unannounced : cached[u] # Nothing => cached[u] = EffectiveKeys(u)

\* "A key can never exceed its creator": whatever chain of keys it came from, a key
\* exercises only what its creator holds now (with the same exceptions).
KeyBoundedByCreator ==
    apiKey # Nothing /\ apiKey.creator \notin unannounced =>
        Exercised(apiKey) \subseteq EffectiveKeys(apiKey.creator)

\* What a member or a key may do is what the roles say now: in the column, in the
\* cache and for a key, apart from the overlaps and removals named above.
PermissionsCurrent == RolesOK /\ KeysMatchRoles /\ CacheExplained /\ KeyBoundedByCreator
====
