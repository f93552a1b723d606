---------------------------- MODULE Permissions -----------------------------
(***************************************************************************)
(* The permission catalog, and what a set of roles grants: the union of    *)
(* the roles' permissions for RBAC, and the same union as the OpenFGA      *)
(* model derives it from a member's relationship tuples.                   *)
(***************************************************************************)
EXTENDS Integers, FiniteSets

CONSTANTS
    Perms,        \* PERMISSION_KEYS
    SystemRole,   \* a role shared by all organizations (is_system) ...
    SystemPerms,  \* ... and its permissions
    CustomRole,   \* a role of this organization
    Grants,       \* permission sets the custom role may be given
    Nothing       \* no role, no cache entry, no API key

ASSUME PermissionsAssumption ==
    /\ SystemRole # CustomRole /\ SystemRole \notin Perms
    /\ SystemPerms \subseteq Perms /\ Grants \subseteq SUBSET Perms
    /\ \A P \in SUBSET Perms : P # Nothing

RoleKeys == {SystemRole, CustomRole}

\* The permissions of a role when the custom role has the set c.
PermsOf(role, c) == IF role = SystemRole THEN SystemPerms ELSE IF c = Nothing THEN {} ELSE c

\* recompute_membership_permissions.
Recompute(roles, c) == UNION {PermsOf(role, c) : role \in roles}

\* The relations of a member to the organization: the system role, or can_p for the
\* permission p, written as p.
Relations == Perms \cup {SystemRole}

\* desired_tuples: the system role, and a direct tuple for what it does not cover.
DesiredTuples(roles, keys) ==
    (roles \cap {SystemRole}) \cup (IF SystemRole \in roles THEN keys \ SystemPerms ELSE keys)

\* build_model: can_p is [user] or one of the roles holding p.
RolesHolding(p) == IF p \in SystemPerms THEN {SystemRole} ELSE {}
Allowed(tuples, p) == p \in tuples \/ RolesHolding(p) \cap tuples # {}
====
