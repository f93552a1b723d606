------------------------------ MODULE Sessions ------------------------------
(***************************************************************************)
(* Refresh-token sessions: login, refresh with rotation and reuse          *)
(* detection, logout, switch-org and the password reset, as concurrent     *)
(* request transactions.                                                   *)
(*                                                                         *)
(* No request locks what it reads: a handler loads rows, decides, and its  *)
(* writes become visible together when get_session commits.  A request is  *)
(* therefore a step that loads, for a revocation one more that lists the   *)
(* live tokens, and a step that commits.  Every account is active (no code *)
(* deactivates one) and access tokens are verified by signature and expiry *)
(* alone.                                                                  *)
(***************************************************************************)
EXTENDS Integers, Sequences, FiniteSets

CONSTANTS
    Users,
    Orgs,
    NoOrg,        \* organization_id IS NULL
    Slots,        \* requests the server works on at the same time
    TokenLife,    \* refresh_token_ttl_seconds
    AccessLife,   \* access_token_ttl_seconds
    ResetLife,    \* RESET_TOKEN_TTL_MINUTES
    Grace,        \* refresh_reuse_grace_seconds
    MaxTokens,    \* bound: refresh tokens ever issued
    MaxResets,    \* bound: reset tokens ever mailed
    MaxClock      \* bound: the clock runs from 0 to MaxClock

Never == -1       \* revoked_at / used_at IS NULL
NoToken == 0      \* replaced_by_token_id IS NULL

ASSUME SessionAssumption ==
    /\ {TokenLife, AccessLife, ResetLife, Grace, MaxTokens, MaxResets, MaxClock} \subseteq Nat
    /\ NoOrg \notin Orgs

Times == 0..MaxClock
Ids   == 0..MaxTokens

\* A row of refresh_tokens with the access token issued beside it.  source, loaded
\* and born are history: the token that was rotated into this one, when the
\* minting request loaded its rows and when it committed.
RefreshToken == [user : Users, org : Orgs \cup {NoOrg}, expires_at : Nat, access : Nat,
                 revoked_at : Times \cup {Never}, replaced_by : Ids,
                 source : Ids, loaded : Times, born : Times]

\* A row of password_reset_tokens; uses is history: the requests that used it,
\* with the times they loaded it and committed.
PasswordResetToken == [user : Users, expires_at : Nat, used_at : Times \cup {Never},
                       uses : SUBSET (Times \X Times)]

VARIABLES
    clock,        \* datetime.now(UTC)
    tokens,       \* refresh_tokens, in the order of issue
    resets,       \* password_reset_tokens
    job,          \* what each slot is working on
    doomed        \* history: tokens in the table when a revocation that was answered listed it

rows == <<tokens, resets>>
vars == <<clock, rows, job, doomed>>

Idle == [op |-> "idle"]
Issued == DOMAIN tokens
Room == Len(tokens) < MaxTokens

Init ==
    /\ clock = 0
    /\ tokens = << >>
    /\ resets = << >>
    /\ job = [s \in Slots |-> Idle]
    /\ doomed = {}

Becomes(s, j) == job' = [job EXCEPT ![s] = j]
OnlyJob == UNCHANGED <<clock, rows, doomed>>

----------------------------------------------------------------------------
(* issue_tokens                                                            *)

\* create_access_token: exp of the JWT issued beside a refresh token.
AccessUntil == clock + AccessLife

\* The table with one more token for user u.
Mint(u, o, from, at) ==
    Append(tokens, [user |-> u, org |-> o, expires_at |-> clock + TokenLife,
                    access |-> AccessUntil, revoked_at |-> Never,
                    replaced_by |-> NoToken, source |-> from, loaded |-> at, born |-> clock])

\* decode_access_token: the JWT issued beside token t has not expired.
Decodes(t) == clock <= tokens[t].access
\* get_current_user: a JWT names its user until it expires, whatever became of the
\* session it was issued with.
Authenticated(t) == t \in Issued /\ Decodes(t)

----------------------------------------------------------------------------
(* Login                                                                   *)

\* POST /auth/login with the password of the loaded row (which password that is, no
\* property tells apart).
\* A wrong password changes nothing: its audit row is rolled back with the rest.
LoginLoad(s) ==
    /\ job[s] = Idle /\ Room
    /\ \E u \in Users :
          Becomes(s, [op |-> "mint", user |-> u, org |-> NoOrg])
    /\ OnlyJob

\* POST /auth/switch-org: an access token buys a new refresh token.
SwitchLoad(s) ==
    /\ job[s] = Idle /\ Room
    /\ \E t \in Issued, o \in Orgs :
          /\ Authenticated(t)
          /\ Becomes(s, [op |-> "mint", user |-> tokens[t].user, org |-> o])
    /\ OnlyJob

\* Both end with issue_tokens and the commit.
MintCommit(s) ==
    /\ job[s].op = "mint" /\ Room
    /\ tokens' = Mint(job[s].user, job[s].org, NoToken, clock)
    /\ Becomes(s, Idle)
    /\ UNCHANGED <<clock, resets, doomed>>

----------------------------------------------------------------------------
(* Refresh                                                                 *)

WithinGrace(row) == row.replaced_by # NoToken /\ clock - row.revoked_at <= Grace

\* Mutant: revoked_at is not looked at.
UsableAnyway(row) == row.expires_at >= clock
Usable(row) == row.expires_at >= clock /\ row.revoked_at = Never

Reused(row) == row.expires_at >= clock /\ row.revoked_at # Never /\ ~WithinGrace(row)

\* The presented row is loaded and judged; a stale token that is not reuse
\* (unknown, expired, within the grace) is refused and nothing changes.
RefreshLoad(s) ==
    /\ job[s] = Idle
    /\ \E t \in Issued :
          \/ /\ Usable(tokens[t]) /\ Room
             /\ Becomes(s, [op |-> "rotate", token |-> t, at |-> clock])
          \/ /\ Reused(tokens[t])
             /\ Becomes(s, [op |-> "reuse", user |-> tokens[t].user])
    /\ OnlyJob

\* issue_tokens for the row's user and organization; the row is marked with the
\* time it was loaded at, and linked to its successor.
Rotated(t, at) ==
    [Mint(tokens[t].user, tokens[t].org, t, at) EXCEPT
        ![t].revoked_at = at, ![t].replaced_by = Len(tokens) + 1]

RefreshCommit(s) ==
    /\ job[s].op = "rotate" /\ Room
    /\ tokens' = Rotated(job[s].token, job[s].at)
    /\ Becomes(s, Idle)
    /\ UNCHANGED <<clock, resets, doomed>>

----------------------------------------------------------------------------
(* Revocation of all sessions of a user                                    *)

LiveOf(u) == {t \in Issued : tokens[t].user = u /\ tokens[t].revoked_at = Never}

\* _revoke_chain lists the user's live tokens.
RevokeList(s) ==
    /\ job[s].op \in {"reuse", "reset"}
    /\ LET u == job[s].user
           known == {t \in Issued : tokens[t].user = u} IN
       \/ /\ job[s].op = "reuse"
          /\ Becomes(s, [op |-> "reuseCommit", live |-> LiveOf(u), known |-> known])
       \/ /\ job[s].op = "reset"
          /\ Becomes(s, [op |-> "resetCommit", user |-> u, live |-> LiveOf(u), known |-> known,
                         at |-> job[s].at, reset |-> job[s].reset])
    /\ OnlyJob

\* Mutant: a revocation starts the row afresh and drops its link.
RevokedUnlinks(table, live) ==
    [t \in DOMAIN table |-> IF t \in live
        THEN [table[t] EXCEPT !.revoked_at = clock, !.replaced_by = NoToken] ELSE table[t]]
\* Its updates, which reach the table with the commit.
Revoked(table, live) ==
    [t \in DOMAIN table |-> IF t \in live THEN [table[t] EXCEPT !.revoked_at = clock] ELSE table[t]]

\* Mutant: the error rolls the revocation back.
ReuseCommitRolledBack(s) ==
    /\ job[s].op = "reuseCommit"
    /\ doomed' = doomed \cup job[s].known
    /\ Becomes(s, Idle)
    /\ UNCHANGED <<clock, rows>>
\* The revocation and its audit row are committed before the error is raised.
ReuseCommit(s) ==
    /\ job[s].op = "reuseCommit"
    /\ tokens' = Revoked(tokens, job[s].live)
    /\ doomed' = doomed \cup job[s].known
    /\ Becomes(s, Idle)
    /\ UNCHANGED <<clock, resets>>

----------------------------------------------------------------------------
(* Logout                                                                  *)

\* POST /auth/logout: the cookie's token, if it is still live.
LogoutLoad(s) ==
    /\ job[s] = Idle
    /\ \E t \in Issued :
          /\ tokens[t].revoked_at = Never
          /\ Becomes(s, [op |-> "logout", token |-> t])
    /\ OnlyJob

\* Only revoked_at is written.
LogoutCommit(s) ==
    /\ job[s].op = "logout"
    /\ tokens' = Revoked(tokens, {job[s].token})
    /\ Becomes(s, Idle)
    /\ UNCHANGED <<clock, resets, doomed>>

----------------------------------------------------------------------------
(* Password reset                                                          *)

\* request_password_reset: a row for the hash of a fresh token.
ResetRow(u) == [user |-> u, expires_at |-> clock + ResetLife, used_at |-> Never, uses |-> {}]

\* POST /auth/forgot-password: a row, and the link through the outbox.
ForgotPassword ==
    /\ Len(resets) < MaxResets
    /\ \E u \in Users : resets' = Append(resets, ResetRow(u))
    /\ UNCHANGED <<clock, tokens, job, doomed>>

ResetValid(row) == row.used_at = Never /\ row.expires_at >= clock

\* POST /auth/reset-password: the reset row is looked up by its hash.
ResetLoad(s) ==
    /\ job[s] = Idle /\ Room
    /\ \E i \in DOMAIN resets :
          /\ ResetValid(resets[i])
          /\ Becomes(s, [op |-> "reset", user |-> resets[i].user, at |-> clock, reset |-> i])
    /\ OnlyJob

\* The password, used_at, the revocations and a new session are committed together.
ResetCommit(s) ==
    LET j == job[s] IN
    /\ j.op = "resetCommit" /\ Room
    /\ resets' = [resets EXCEPT ![j.reset].used_at = clock,
                                ![j.reset].uses = @ \cup {<<j.at, clock>>}]
    /\ tokens' = Revoked(Mint(j.user, NoOrg, NoToken, clock), j.live)
    /\ doomed' = doomed \cup j.known
    /\ Becomes(s, Idle)
    /\ UNCHANGED clock

----------------------------------------------------------------------------
\* get_session rolls back: what the handler decided is forgotten.
Fail(s) ==
    /\ job[s] # Idle
    /\ Becomes(s, Idle)
    /\ UNCHANGED <<clock, rows, doomed>>

Tick ==
    /\ clock < MaxClock
    /\ clock' = clock + 1
    /\ UNCHANGED <<rows, job, doomed>>

Handle(s) ==
    \/ LoginLoad(s) \/ SwitchLoad(s) \/ MintCommit(s)
    \/ RefreshLoad(s) \/ RefreshCommit(s)
    \/ RevokeList(s) \/ ReuseCommit(s)
    \/ LogoutLoad(s) \/ LogoutCommit(s)
    \/ ResetLoad(s) \/ ResetCommit(s)
    \/ Fail(s)

Next == (\E s \in Slots : Handle(s)) \/ ForgotPassword \/ Tick

Spec == Init /\ [][Next]_vars

----------------------------------------------------------------------------
\* The tables hold rows of their models, one token per issue.
TypeOK ==
    /\ clock \in Times
    /\ tokens \in Seq(RefreshToken) /\ Len(tokens) <= MaxTokens
    /\ resets \in Seq(PasswordResetToken) /\ Len(resets) <= MaxResets
    /\ doomed \subseteq Issued
    /\ \A s \in Slots : job[s].op \in {"idle", "mint", "rotate", "reuse", "reuseCommit",
                                       "logout", "reset", "resetCommit"}

\* A session that existed when a reuse detection or a password reset listed the
\* user's tokens is dead for good once that revocation has committed, whatever
\* refreshes, logouts and other revocations were under way.
ListedSessionsDie == \A t \in doomed : tokens[t].revoked_at # Never

\* Rotation moves a session along: the successor a token is linked to belongs to
\* the same user and organization, and was minted from that very token.
RotationKeepsSession ==
    \A t \in Issued : tokens[t].replaced_by # NoToken =>
        LET n == tokens[tokens[t].replaced_by] IN
        n.user = tokens[t].user /\ n.org = tokens[t].org /\ n.source = t

\* A token buys a second session only for a request that overlapped the one that
\* rotated it: whoever loads the token after the rotation committed gets none.
BranchesOverlap ==
    \A a, b \in Issued :
        tokens[a].source # NoToken /\ tokens[a].source = tokens[b].source
            => tokens[b].loaded <= tokens[a].born

\* A password-reset link works once, except for requests that overlapped.
ResetOnce ==
    \A i \in DOMAIN resets : \A x, y \in resets[i].uses : x[1] <= y[2]

\* A token that a client was told is gone (rotated, logged out or revoked) never
\* becomes live again, and a link to a successor is never lost.
RevocationIsFinal ==
    [][\A t \in Issued :
          /\ tokens[t].revoked_at # Never => tokens'[t].revoked_at # Never
          /\ tokens[t].replaced_by # NoToken => tokens'[t].replaced_by # NoToken]_vars

\* Rotation hands a session on and revocation ends it, whatever requests overlap.
SessionsSound == TypeOK /\ ListedSessionsDie /\ RotationKeepsSession

\* Only requests that overlapped get a second session or a second reset out of one
\* token or link.
OverlapsOnly == BranchesOverlap /\ ResetOnce
====
