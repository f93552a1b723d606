---------------------------- MODULE Organization ----------------------------
(***************************************************************************)
(* One organization: its seats (Members), its permissions (Roles) and a    *)
(* member's tuples in OpenFGA (TupleSync).  The three share the            *)
(* memberships table but no column: seats count rows and statuses,         *)
(* permissions follow roles, tuples follow the committed permissions.  A   *)
(* behaviour looks at one of them while the others rest.                   *)
(***************************************************************************)
EXTENDS Members, Roles, TupleSync

VARIABLE aspect       \* the part this behaviour looks at

orgVars == <<aspect, memberVars, roleVars, tupleVars>>

Init ==
    /\ aspect \in {"seats", "roles", "tuples"}
    /\ MembersInit /\ RolesInit /\ TuplesInit

Next ==
    /\ UNCHANGED aspect
    /\ \/ aspect = "seats" /\ MembersNext /\ UNCHANGED <<roleVars, tupleVars>>
       \/ aspect = "roles" /\ RolesNext /\ UNCHANGED <<memberVars, tupleVars>>
       \/ aspect = "tuples" /\ TuplesNext /\ UNCHANGED <<memberVars, roleVars>>

Spec == Init /\ [][Next]_orgVars
====
