-------------------------- MODULE MCVersionedCache --------------------------
EXTENDS VersionedCache, TLC

CONSTANTS r1, r2, c1, c2

Perms == Permutations(Readers) \cup Permutations(Writers)

\* FeatureFlagService: is_enabled and _evaluate for an organization and no user.
\* The third scope, of the user None, is never bumped and is left out.
FlagScopes == <<"all", "org">>
FlagRows == <<"flag", "org_override">>
FlagScopeOf == [flag |-> "all", org_override |-> "org"]
=============================================================================
