--------------------------- MODULE MCOrganization ---------------------------
(* An owner and one other person with one seat (free while the owner is     *)
(* suspended, so that two invitations can race for it within three rows);   *)
(* one member, a system role and a custom role over two permissions.        *)
EXTENDS Organization, TLC
CONSTANTS o, p, s1, s2, u1, r1, r2, a, b, system, special
MCPeople == {o, p}
MCSlots == {s1, s2}
MCAccounts == {u1}
MCRequests == {r1, r2}
MCPerms == {a, b}
MCSystemPerms == {a}
MCGrants == {{a}, {b}}
Perms2 == Permutations(MCSlots) \cup Permutations(MCRequests)
====
