----------------------------- MODULE MCServices -----------------------------
(* Small instances of the services: two overlapping requests each, the edges *)
(* of the rollout hash and of the price list, and a pool of one connection,  *)
(* so that every later request reuses it.                                    *)
EXTENDS Services
CONSTANTS b1, b2, pro, team, q1, q2, t1, t2, c1, c2, u, root, orgA, orgB, k1, slug, nobody

MCProviders == {"manual", "stripe", "paddle", "xendit", "paymongo"}
MCBuyers == {b1, b2}
MCPaidPlans == {pro, team}
MCTenants == {q1, q2}
MCPlans == {"free", "pro"}
MCGrantSources == {"trial", "addon", "override"}
MCCapValues == {5, 7}
MCPriceList == {0, 99, 250}
MCFlagUsers == {"u1", "u2"}
MCBucketOf == [v \in MCFlagUsers |-> IF v = "u1" THEN 0 ELSE 9999]
MCPercentages == {0, 1, 50, 100}
MCAdmins == {"ad1", "ad2"}
MCEmails == {"e", "f"}
MCSubjects == {"sub"}
MCAttempts == {"at1", "at2"}
MCTabs == {t1, t2}
MCSettings == {"x", "y"}
MCOrgs == {orgA, orgB}
MCFolk == {u, root}
MCConns == {k1}
MCAsks == {q1, q2}
MCCallers == {c1, c2}
MCSlugs == {slug}
MCMailers == {c1, c2}
MCEditors == {t1, t2}
====
