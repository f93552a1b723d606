--------------------------- MODULE ServicesProofs ---------------------------
(***************************************************************************)
(* Proofs about the services, part by part, for any number of              *)
(* organizations, accounts, plans, checkouts, grants, prices, connections, *)
(* mail workers and overlapping requests.                                  *)
(***************************************************************************)
EXTENDS Services, FoldLemmas, FiniteSetTheorems, SequenceTheorems, TLAPS

----------------------------------------------------------------------------
(* TenantScope: the inductive invariant                                    *)

Setting == [tenant : Orgs \cup {NoOne}, user : Folk \cup {NoOne}, platform : BOOLEAN]
TableRow == [table : {"agents", "roles", "memberships"}, org : Orgs \cup {NoOne},
             user : Folk \cup {ApiKey, NoOne}]
AskRec(S) == [stage : {"idle", "known", "checking", "named", "tenant", "platform", "failing", "closing"},
              who : Folk \cup {ApiKey, NoOne}, conn : Conns \cup {NoOne}, ctx : Orgs \cup {NoOne},
              entitled : SUBSET Orgs, rows : SUBSET S, whole : BOOLEAN, scoped : BOOLEAN,
              writes : SUBSET [table : {"agents"}, org : Orgs, user : Folk \cup {ApiKey}], step : 1..2]

ScopeTypes ==
    /\ ask \in [Asks -> AskRec(stored)] /\ guc \in [Conns -> Setting]
    /\ stored \subseteq TableRow /\ promised \subseteq stored
    /\ rls \in BOOLEAN /\ subject \in BOOLEAN /\ up \in BOOLEAN

\* What request a may see of row x.
InView(a, x) ==
    \/ a.who = Operator
    \/ x.org \in a.entitled \cup {NoOne}
    \/ x.table = "memberships" /\ x.user = a.who

\* A request by itself: it holds a connection while it works, it works for a tenant only
\* as one entitled to it, and waits to send only what is stored.
AskOK(a) ==
    /\ a.stage = "idle" => a = Quiet
    /\ a.stage \in {"known", "checking"} => a.entitled = {}
    /\ a.stage = "checking" => a.ctx \in Orgs
    /\ a.stage \in {"checking", "tenant"} => a.who # NoOne
    /\ a.stage = "tenant" => a.ctx \in Orgs /\ (a.ctx \in a.entitled \/ a.who = Operator)
    /\ a.stage # "idle" /\ a.step = 1 => a.conn \in Conns
    /\ a.step = 2 => a.stage = "closing" /\ a.conn = NoOne /\ a.writes \subseteq stored
    /\ a.whole
    /\ rls \/ a.scoped => \A x \in a.rows : InView(a, x)

\* The settings g of the connection of a request that can still query are its own.
SettingOK(a, g) ==
    /\ a.stage \in {"known", "checking", "named", "tenant", "platform"} =>
          (g.platform => a.who = Operator) /\ (g.user # NoOne => g.user = a.who)
    /\ a.stage = "known" => g.tenant = NoOne
    /\ a.stage \in {"named", "tenant", "platform"} =>
          (g.tenant # NoOne => g.tenant \in a.entitled \/ a.who = Operator)
    /\ a.stage \in {"checking", "tenant"} => g.tenant = a.ctx

\* A connection in the pool carries no settings, and one request holds a connection.
PoolInv ==
    /\ \A c \in Conns : (\A r \in Asks : ask[r].conn # c) => guc[c] = Unset
    /\ \A r, q \in Asks : (r # q /\ ask[r].conn = ask[q].conn) => ask[r].conn = NoOne

RequestsInv ==
    \A r \in Asks : /\ AskOK(ask[r])
                    /\ rls /\ ask[r].conn \in Conns => SettingOK(ask[r], guc[ask[r].conn])

\* The API serves only with a database role that fits SYNAPSE_TENANT_ISOLATION.
RoleInv == IF up THEN rls = subject ELSE \A r \in Asks : ask[r] = Quiet

ScopeInv == ScopeTypes /\ RoleInv /\ PoolInv /\ RequestsInv

----------------------------------------------------------------------------
(* TenantScope: steps                                                      *)

LEMMA QuietAsk ==
    ASSUME NEW S
    PROVE  /\ Quiet \in AskRec(S) /\ Unset \in Setting
           /\ Quiet.stage = "idle" /\ Quiet.conn = NoOne /\ Quiet.rows = {} /\ Quiet.whole /\ Quiet.step = 1
           /\ Quiet.entitled = {} /\ Quiet.writes = {} /\ ~Quiet.scoped /\ Quiet.ctx = NoOne
BY DEF Quiet, AskRec, Unset, Setting

LEMMA Policies == \A t \in {"agents", "roles", "memberships"} : TENANT_POLICIES[t].user_scoped => t = "memberships"
BY DEF TENANT_POLICIES

LEMMA ScopeInitially == TenantScopeInit => ScopeInv
<1>. SUFFICES ASSUME TenantScopeInit PROVE ScopeInv OBVIOUS
<1>. USE TenantScopeAssumption
<1>1. Seeded \subseteq TableRow BY DEF Seeded, Row, TableRow
<1>2. ScopeTypes BY <1>1, QuietAsk DEF TenantScopeInit, ScopeTypes
<1>3. \A r \in Asks : ask[r] = Quiet BY DEF TenantScopeInit
<1>4. RoleInv /\ PoolInv BY <1>3, QuietAsk DEF TenantScopeInit, RoleInv, PoolInv
<1>5. AskOK(Quiet) BY QuietAsk DEF AskOK
<1>6. RequestsInv BY <1>3, <1>5, QuietAsk DEF RequestsInv
<1>. QED BY <1>2, <1>4, <1>6 DEF ScopeInv

\* The requests that do not move keep what they have.
LEMMA OthersKeep ==
    ASSUME NEW a, AskOK(a), stored \subseteq stored', rls' = rls
    PROVE  AskOK(a)'
BY DEF AskOK, InView

\* One request moves from ask[r] to n, and touches only connection c: the one it holds,
\* or a free one.  It keeps the connection, or lets it go without settings.
LEMMA OneMoves ==
    ASSUME ScopeInv, up, NEW r \in Asks, NEW n, NEW c \in Conns \cup {NoOne},
           UNCHANGED <<rls, subject, up>>,
           ask' = [ask EXCEPT ![r] = n], n \in AskRec(stored'),
           stored \subseteq stored', stored' \subseteq TableRow, promised' \subseteq stored',
           guc' \in [Conns -> Setting], \A d \in Conns : d # c => guc'[d] = guc[d],
           c = ask[r].conn \/ (ask[r].conn = NoOne /\ \A q \in Asks : ask[q].conn # c),
           n.conn = c \/ (n.conn = NoOne /\ (c \in Conns => guc'[c] = Unset)),
           AskOK(n)',
           rls /\ n.conn \in Conns => SettingOK(n, guc'[n.conn])
    PROVE  ScopeInv'
<1>. USE TenantScopeAssumption DEF ScopeInv
<1>1. \A q \in Asks : q # r => ask'[q] = ask[q] BY DEF ScopeTypes
<1>2. ask'[r] = n BY DEF ScopeTypes
<1>3. AskRec(stored) \subseteq AskRec(stored') BY DEF AskRec
<1>4. ScopeTypes' BY <1>3 DEF ScopeTypes
<1>5. RoleInv' BY DEF RoleInv
<1>6. \A q \in Asks \ {r} : c # NoOne => ask[q].conn # c BY DEF PoolInv
<1>7. PoolInv'
  <2>1. ASSUME NEW d \in Conns, \A q \in Asks : ask'[q].conn # d PROVE guc'[d] = Unset
    <3>1. CASE d = c BY <1>2, <2>1, <3>1
    <3>2. CASE d # c
      <4>1. \A q \in Asks \ {r} : ask[q].conn # d BY <1>1, <2>1
      <4>2. ask[r].conn # d BY <3>2
      <4>. QED BY <3>2, <4>1, <4>2 DEF PoolInv
    <3>. QED BY <3>1, <3>2
  <2>2. ASSUME NEW p \in Asks, NEW q \in Asks, p # q, ask'[p].conn = ask'[q].conn PROVE ask'[p].conn = NoOne
    <3>1. CASE p # r /\ q # r BY <1>1, <2>2, <3>1 DEF PoolInv
    <3>2. CASE p = r BY <1>1, <1>2, <1>6, <2>2, <3>2
    <3>3. CASE q = r BY <1>1, <1>2, <1>6, <2>2, <3>3
    <3>. QED BY <3>1, <3>2, <3>3
  <2>. QED BY <2>1, <2>2 DEF PoolInv
<1>8. ASSUME NEW q \in Asks, q # r
      PROVE  AskOK(ask[q])' /\ (rls /\ ask[q].conn \in Conns => SettingOK(ask[q], guc'[ask[q].conn]))
  <2>1. PICK a : a = ask[q] OBVIOUS
  <2>2. AskOK(a) BY <2>1 DEF RequestsInv
  <2>3. AskOK(a)' BY <2>2, OthersKeep
  <2>4. AskOK(ask[q])' BY <1>1, <1>8, <2>1, <2>3 DEF AskOK, InView
  <2>5. ask[q].conn \in Conns => guc'[ask[q].conn] = guc[ask[q].conn] BY <1>6, <1>8
  <2>. QED BY <2>4, <2>5 DEF RequestsInv
<1>9. AskOK(ask[r])' BY <1>2 DEF AskOK, InView
<1>10. RequestsInv'
  <2>1. \A q \in Asks : AskOK(ask[q])' BY <1>8, <1>9
  <2>2. ASSUME NEW q \in Asks, rls, ask'[q].conn \in Conns PROVE SettingOK(ask'[q], guc'[ask'[q].conn])
    BY <1>1, <1>2, <1>8, <2>2
  <2>3. ASSUME NEW q \in Asks, rls', ask'[q].conn \in Conns PROVE SettingOK(ask[q], guc[ask[q].conn])'
    BY <2>2, <2>3 DEF SettingOK
  <2>. QED BY <2>1, <2>3 DEF RequestsInv
<1>. QED BY <1>4, <1>5, <1>7, <1>10

\* The setters.
LEMMA SetsTenant ==
    ASSUME guc \in [Conns -> Setting], NEW c \in Conns, NEW o \in Orgs, guc' = Set(c, "tenant", o)
    PROVE  /\ guc' \in [Conns -> Setting] /\ \A d \in Conns : d # c => guc'[d] = guc[d]
           /\ rls => guc'[c].tenant = o /\ guc'[c].user = guc[c].user /\ guc'[c].platform = guc[c].platform
BY DEF Set, Setting

LEMMA SetsUser ==
    ASSUME guc \in [Conns -> Setting], NEW c \in Conns, NEW u \in Folk, guc' = Set(c, "user", u)
    PROVE  /\ guc' \in [Conns -> Setting] /\ \A d \in Conns : d # c => guc'[d] = guc[d]
           /\ rls => guc'[c].tenant = guc[c].tenant /\ guc'[c].user = u /\ guc'[c].platform = guc[c].platform
BY DEF Set, Setting

LEMMA SetsPlatform ==
    ASSUME guc \in [Conns -> Setting], NEW c \in Conns, guc' = Set(c, "platform", TRUE)
    PROVE  /\ guc' \in [Conns -> Setting] /\ \A d \in Conns : d # c => guc'[d] = guc[d]
           /\ rls => guc'[c].tenant = guc[c].tenant /\ guc'[c].user = guc[c].user
BY DEF Set, Setting

\* A request as it leaves get_current_user.
KnownAsk(who, c) == [Quiet EXCEPT !.stage = "known", !.who = who, !.conn = c]

LEMMA NewAsk ==
    ASSUME NEW c \in Conns, NEW who \in Folk \cup {NoOne}, NEW S, NEW n, n = KnownAsk(who, c)
    PROVE  /\ n \in AskRec(S) /\ n.conn = c /\ n.rows = {} /\ n.whole /\ n.step = 1
           /\ n.stage = "known" /\ n.who = who /\ n.entitled = {}
<1>1. n = [stage |-> "known", who |-> who, conn |-> c, ctx |-> NoOne, entitled |-> {},
           rows |-> {}, whole |-> TRUE, scoped |-> FALSE, writes |-> {}, step |-> 1]
  BY DEF KnownAsk, Quiet
<1>. QED BY <1>1 DEF AskRec

LEMMA NewKeyAsk ==
    ASSUME NEW c \in Conns, NEW S, NEW n, n = KeyAsk(c)
    PROVE  /\ n \in AskRec(S) /\ n.conn = c /\ n.rows = {} /\ n.whole /\ n.step = 1
           /\ n.stage = "tenant" /\ n.who = ApiKey /\ n.ctx = KeyOrg /\ n.entitled = {KeyOrg}
<1>1. n = [stage |-> "tenant", who |-> ApiKey, conn |-> c, ctx |-> KeyOrg, entitled |-> {KeyOrg},
           rows |-> {}, whole |-> TRUE, scoped |-> FALSE, writes |-> {}, step |-> 1]
  BY DEF KeyAsk, Quiet
<1>. QED BY <1>1, TenantScopeAssumption DEF AskRec

LEMMA Ended ==
    ASSUME guc \in [Conns -> Setting], NEW c \in Conns
    PROVE  /\ EndTransaction(c) \in [Conns -> Setting] /\ EndTransaction(c)[c] = Unset
           /\ \A d \in Conns : d # c => EndTransaction(c)[d] = guc[d]
BY QuietAsk DEF EndTransaction

\* Nothing is asked of a request before the API has started.
LEMMA BusyMeansUp ==
    ASSUME ScopeInv, NEW r \in Asks, ask[r].stage # "idle"
    PROVE  up
BY QuietAsk DEF ScopeInv, RoleInv

LEMMA AuthenticateStep ==
    ASSUME ScopeInv, NEW r \in Asks, NEW who \in Folk \cup {ApiKey, NoOne}, NEW c \in Conns, Authenticate(r, who, c)
    PROVE  ScopeInv'
<1>. USE TenantScopeAssumption
<1>0. guc \in [Conns -> Setting] /\ ask \in [Asks -> AskRec(stored)] BY DEF ScopeInv, ScopeTypes
<1>1. /\ up /\ UNCHANGED <<rls, subject, up, stored, promised>> /\ ask[r].stage = "idle"
      /\ \A q \in Asks : ask[q].conn # c
  BY DEF Authenticate, FreeConn, Held
<1>2. ask[r].conn = NoOne BY <1>1, QuietAsk DEF ScopeInv, RequestsInv, AskOK
<1>3. stored \subseteq TableRow /\ promised \subseteq stored BY DEF ScopeInv, ScopeTypes
<1>4. guc[c] = Unset BY <1>1 DEF ScopeInv, PoolInv
<1>5. guc[c].tenant = NoOne /\ guc[c].user = NoOne /\ guc[c].platform = FALSE BY <1>4 DEF Unset
<1>6. PICK n : ask' = [ask EXCEPT ![r] = n] /\ n = (IF who = ApiKey THEN KeyAsk(c) ELSE KnownAsk(who, c))
  BY DEF Authenticate, KnownAsk
<1>7. /\ n \in AskRec(stored) /\ n.conn = c /\ n.rows = {} /\ n.whole /\ n.step = 1
      /\ \/ n.stage = "tenant" /\ n.who = ApiKey /\ n.ctx = KeyOrg /\ n.entitled = {KeyOrg} /\ who = ApiKey
         \/ n.stage = "known" /\ n.who = who /\ n.entitled = {} /\ who # ApiKey
  <2>1. CASE who = ApiKey BY <1>6, <2>1, NewKeyAsk
  <2>2. CASE who # ApiKey BY <1>6, <2>2, NewAsk
  <2>. QED BY <2>1, <2>2
<1>8. /\ guc' \in [Conns -> Setting] /\ \A d \in Conns : d # c => guc'[d] = guc[d]
      /\ rls => /\ guc'[c].tenant = IF who = ApiKey THEN KeyOrg ELSE NoOne
                /\ guc'[c].user \in {NoOne, n.who} /\ guc'[c].platform = FALSE
  <2>1. CASE who = ApiKey
    <3>1. guc' = Set(c, "tenant", KeyOrg) BY <2>1 DEF Authenticate
    <3>. QED BY <1>0, <1>5, <2>1, <3>1, SetsTenant
  <2>2. CASE who = NoOne
    <3>1. guc' = guc BY <2>2 DEF Authenticate
    <3>. QED BY <1>0, <1>5, <2>2, <3>1
  <2>3. CASE who \in Folk
    <3>1. guc' = Set(c, "user", who) BY <2>3 DEF Authenticate
    <3>2. n.who = who BY <1>7, <2>3
    <3>. QED BY <1>0, <1>5, <2>3, <3>1, <3>2, SetsUser
  <2>. QED BY <2>1, <2>2, <2>3
<1>9. AskOK(n)' BY <1>7 DEF AskOK
<1>10. rls => SettingOK(n, guc'[n.conn]) BY <1>7, <1>8 DEF SettingOK
<1>11. stored \subseteq stored' /\ stored' \subseteq TableRow /\ promised' \subseteq stored' /\ n \in AskRec(stored')
  BY <1>1, <1>3, <1>7
<1>12. UNCHANGED <<rls, subject, up>> /\ up BY <1>1
<1>13. c = ask[r].conn \/ (ask[r].conn = NoOne /\ \A q \in Asks : ask[q].conn # c) BY <1>1, <1>2
<1>14. n.conn = c \/ (n.conn = NoOne /\ (c \in Conns => guc'[c] = Unset)) BY <1>7
<1>. QED BY <1>6, <1>8, <1>9, <1>10, <1>11, <1>12, <1>13, <1>14, OneMoves

\* A request that stays on its connection, and whose step leaves the tables alone.
LEMMA StaysOn ==
    ASSUME ScopeInv, NEW r \in Asks, NEW a, a = ask[r], a.stage # "idle", a.step = 1,
           UNCHANGED <<rls, subject, up, stored, promised>>,
           NEW n, ask' = [ask EXCEPT ![r] = n], n \in AskRec(stored), n.conn = a.conn,
           guc' \in [Conns -> Setting], \A d \in Conns : d # a.conn => guc'[d] = guc[d],
           AskOK(n), rls => SettingOK(n, guc'[a.conn])
    PROVE  ScopeInv'
<1>1. AskOK(n)' BY OthersKeep
<1>2. a.conn \in Conns BY DEF ScopeInv, RequestsInv, AskOK
<1>3. stored \subseteq TableRow /\ promised \subseteq stored BY DEF ScopeInv, ScopeTypes
<1>4. stored \subseteq stored' /\ stored' \subseteq TableRow /\ promised' \subseteq stored' /\ n \in AskRec(stored')
  BY <1>3
<1>5. up /\ UNCHANGED <<rls, subject, up>> BY BusyMeansUp
<1>. QED BY <1>1, <1>2, <1>4, <1>5, OneMoves

\* The fields of a request that most steps leave alone.
Same(n, a) == n.who = a.who /\ n.conn = a.conn /\ n.writes = a.writes /\ n.step = a.step
SameRows(n, a) == n.rows = a.rows /\ n.whole = a.whole /\ n.scoped = a.scoped

\* What is known of a request that is under way.
LEMMA UnderWay ==
    ASSUME ScopeInv, NEW r \in Asks, NEW a, a = ask[r], a.stage \notin {"idle", "closing"}
    PROVE  /\ guc \in [Conns -> Setting] /\ ask \in [Asks -> AskRec(stored)]
           /\ AskOK(a) /\ a \in AskRec(stored) /\ a.step = 1 /\ a.conn \in Conns
           /\ rls => SettingOK(a, guc[a.conn])
           /\ guc[a.conn] \in Setting /\ up /\ rls = subject
<1>1. guc \in [Conns -> Setting] /\ ask \in [Asks -> AskRec(stored)] BY DEF ScopeInv, ScopeTypes
<1>2. AskOK(a) BY DEF ScopeInv, RequestsInv
<1>3. a.step = 1 /\ a \in AskRec(stored) BY <1>1, <1>2 DEF AskOK, AskRec
<1>4. a.conn \in Conns BY <1>2, <1>3 DEF AskOK
<1>5. up /\ rls = subject BY BusyMeansUp DEF ScopeInv, RoleInv
<1>. QED BY <1>1, <1>2, <1>3, <1>4, <1>5 DEF ScopeInv, RequestsInv

LEMMA BindTenantStep ==
    ASSUME ScopeInv, NEW r \in Asks, NEW o \in Orgs, BindTenant(r, o)
    PROVE  ScopeInv'
<1>1. PICK a, n : a = ask[r] /\ n = ask'[r] OBVIOUS
<1>2. a.stage = "known" /\ a.who # NoOne /\ UNCHANGED <<rls, subject, up, stored, promised>>
  BY <1>1, TenantScopeAssumption DEF BindTenant
<1>3. /\ guc \in [Conns -> Setting] /\ ask \in [Asks -> AskRec(stored)]
      /\ AskOK(a) /\ a \in AskRec(stored) /\ a.step = 1 /\ a.conn \in Conns /\ (rls => SettingOK(a, guc[a.conn]))
  BY <1>1, <1>2, UnderWay
<1>4. /\ ask' = [ask EXCEPT ![r] = n] /\ n \in AskRec(stored) /\ Same(n, a) /\ SameRows(n, a)
      /\ n.stage = "checking" /\ n.ctx = o /\ n.entitled = a.entitled
  BY <1>1, <1>3 DEF BindTenant, AskRec, Same, SameRows
<1>5. guc' = Set(a.conn, "tenant", o) BY <1>1 DEF BindTenant
<1>6. /\ guc' \in [Conns -> Setting] /\ \A d \in Conns : d # a.conn => guc'[d] = guc[d]
      /\ rls => /\ guc'[a.conn].tenant = o /\ guc'[a.conn].user = guc[a.conn].user
                /\ guc'[a.conn].platform = guc[a.conn].platform
  BY <1>3, <1>5, SetsTenant
<1>7. AskOK(n) BY <1>2, <1>3, <1>4 DEF AskOK, InView, Same, SameRows
<1>8. rls => SettingOK(n, guc'[a.conn]) BY <1>2, <1>3, <1>4, <1>6 DEF SettingOK, Same
<1>9. n.conn = a.conn /\ a.stage # "idle" BY <1>2, <1>4 DEF Same
<1>. QED BY <1>1, <1>2, <1>3, <1>4, <1>6, <1>7, <1>8, <1>9, StaysOn

LEMMA CheckMembershipStep ==
    ASSUME ScopeInv, NEW r \in Asks, CheckMembership(r)
    PROVE  ScopeInv'
<1>1. PICK a, n : a = ask[r] /\ n = ask'[r] OBVIOUS
<1>2. a.stage = "checking" /\ UNCHANGED <<rls, subject, up, stored, promised>> BY <1>1 DEF CheckMembership
<1>3. /\ guc \in [Conns -> Setting] /\ ask \in [Asks -> AskRec(stored)]
      /\ AskOK(a) /\ a \in AskRec(stored) /\ a.step = 1 /\ a.conn \in Conns /\ (rls => SettingOK(a, guc[a.conn]))
      /\ guc[a.conn] \in Setting /\ rls = subject
  BY <1>1, <1>2, UnderWay
<1>4. /\ ask' = [ask EXCEPT ![r] = n] /\ n \in AskRec(stored) /\ Same(n, a) /\ SameRows(n, a) /\ n.ctx = a.ctx
      /\ n.stage = (IF MayEnter(r, a.ctx) THEN "tenant" ELSE "failing")
      /\ n.entitled = {p \in {a.ctx} : <<a.who, p>> \in belongs}
  <2>1. a.ctx \in Orgs BY <1>2, <1>3 DEF AskOK
  <2>. QED BY <1>1, <1>3, <2>1 DEF CheckMembership, AskRec, Same, SameRows
<1>5. guc' = guc BY DEF CheckMembership
<1>6. guc' \in [Conns -> Setting] /\ \A d \in Conns : d # a.conn => guc'[d] = guc[d] BY <1>3, <1>5
<1>10. n.stage = "tenant" => n.ctx \in n.entitled \/ n.who = Operator
  BY <1>1, <1>4 DEF MayEnter, IsMember, Same
<1>11. n.stage \in {"tenant", "failing"} BY <1>4
<1>12. a.entitled = {} /\ a.ctx \in Orgs BY <1>2, <1>3 DEF AskOK
<1>7. AskOK(n) BY <1>2, <1>3, <1>4, <1>10, <1>11, <1>12 DEF AskOK, InView, Same, SameRows
<1>8. rls => SettingOK(n, guc'[a.conn]) BY <1>2, <1>3, <1>4, <1>5, <1>10, <1>11 DEF SettingOK, Same
<1>9. n.conn = a.conn /\ a.stage # "idle" BY <1>2, <1>4 DEF Same
<1>. QED BY <1>1, <1>2, <1>3, <1>4, <1>6, <1>7, <1>8, <1>9, StaysOn

LEMMA RequirePlatformStep ==
    ASSUME ScopeInv, NEW r \in Asks, RequirePlatform(r)
    PROVE  ScopeInv'
<1>1. PICK a, n : a = ask[r] /\ n = ask'[r] OBVIOUS
<1>2. a.stage = "known" /\ UNCHANGED <<rls, subject, up, stored, promised>> BY <1>1 DEF RequirePlatform
<1>3. /\ guc \in [Conns -> Setting] /\ ask \in [Asks -> AskRec(stored)]
      /\ AskOK(a) /\ a \in AskRec(stored) /\ a.step = 1 /\ a.conn \in Conns /\ (rls => SettingOK(a, guc[a.conn]))
      /\ guc[a.conn] \in Setting /\ rls = subject
  BY <1>1, <1>2, UnderWay
<1>4. /\ ask' = [ask EXCEPT ![r] = n] /\ n \in AskRec(stored) /\ Same(n, a) /\ SameRows(n, a)
      /\ n.ctx = a.ctx /\ n.entitled = a.entitled
      /\ n.stage = (IF a.who = Operator THEN "platform" ELSE "failing")
  <2>1. CASE a.who = Operator
    <3>1. Goes(r, "platform") BY <1>1, <2>1 DEF RequirePlatform
    <3>. QED BY <1>1, <1>3, <2>1, <3>1 DEF Goes, AskRec, Same, SameRows
  <2>2. CASE a.who # Operator
    <3>1. Goes(r, "failing") BY <1>1, <2>2 DEF RequirePlatform
    <3>. QED BY <1>1, <1>3, <2>2, <3>1 DEF Goes, AskRec, Same, SameRows
  <2>. QED BY <2>1, <2>2
<1>5. guc' = (IF a.who = Operator THEN Set(a.conn, "platform", TRUE) ELSE guc) BY <1>1 DEF RequirePlatform
<1>6. /\ guc' \in [Conns -> Setting] /\ \A d \in Conns : d # a.conn => guc'[d] = guc[d]
      /\ rls => guc'[a.conn].tenant = guc[a.conn].tenant /\ guc'[a.conn].user = guc[a.conn].user
  BY <1>3, <1>5, SetsPlatform
<1>7. AskOK(n) BY <1>2, <1>3, <1>4 DEF AskOK, InView, Same, SameRows
<1>8. rls => SettingOK(n, guc'[a.conn]) BY <1>2, <1>3, <1>4, <1>6 DEF SettingOK, Same
<1>9. n.conn = a.conn /\ a.stage # "idle" BY <1>2, <1>4 DEF Same
<1>. QED BY <1>1, <1>2, <1>3, <1>4, <1>6, <1>7, <1>8, <1>9, StaysOn

LEMMA LookUpOrgStep ==
    ASSUME ScopeInv, NEW r \in Asks, NEW o \in Orgs, LookUpOrg(r, o)
    PROVE  ScopeInv'
<1>1. PICK a, n : a = ask[r] /\ n = ask'[r] OBVIOUS
<1>2. a.stage = "known" /\ UNCHANGED <<rls, subject, up, stored, promised>> BY <1>1 DEF LookUpOrg
<1>3. /\ guc \in [Conns -> Setting] /\ ask \in [Asks -> AskRec(stored)]
      /\ AskOK(a) /\ a \in AskRec(stored) /\ a.step = 1 /\ a.conn \in Conns /\ (rls => SettingOK(a, guc[a.conn]))
      /\ guc[a.conn] \in Setting /\ rls = subject
  BY <1>1, <1>2, UnderWay
<1>4. /\ ask' = [ask EXCEPT ![r] = n] /\ n \in AskRec(stored) /\ Same(n, a) /\ SameRows(n, a)
      /\ n.ctx = a.ctx /\ n.entitled = {o} /\ n.stage = "named"
  BY <1>1, <1>3 DEF LookUpOrg, AskRec, Same, SameRows
<1>5. guc' = Set(a.conn, "tenant", o) BY <1>1 DEF LookUpOrg
<1>6. /\ guc' \in [Conns -> Setting] /\ \A d \in Conns : d # a.conn => guc'[d] = guc[d]
      /\ rls => /\ guc'[a.conn].tenant = o /\ guc'[a.conn].user = guc[a.conn].user
                /\ guc'[a.conn].platform = guc[a.conn].platform
  BY <1>3, <1>5, SetsTenant
<1>12. a.entitled = {} BY <1>2, <1>3 DEF AskOK
<1>7. AskOK(n) BY <1>2, <1>3, <1>4, <1>12 DEF AskOK, InView, Same, SameRows
<1>8. rls => SettingOK(n, guc'[a.conn]) BY <1>2, <1>3, <1>4, <1>6 DEF SettingOK, Same
<1>9. n.conn = a.conn /\ a.stage # "idle" BY <1>2, <1>4 DEF Same
<1>. QED BY <1>1, <1>2, <1>3, <1>4, <1>6, <1>7, <1>8, <1>9, StaysOn

\* What the policies admit on the connection of a request, the request may see.
LEMMA AdmittedInView ==
    ASSUME NEW a, NEW g \in Setting, SettingOK(a, g), a.stage \in {"known", "named", "tenant", "platform"},
           NEW x \in TableRow, Admits(g, x)
    PROVE  InView(a, x)
<1>1. CASE x.org # NoOne /\ x.org = g.tenant BY <1>1 DEF SettingOK, InView
<1>2. CASE g.platform BY <1>2 DEF SettingOK, InView
<1>3. CASE x.org = NoOne BY <1>3 DEF InView
<1>4. CASE TENANT_POLICIES[x.table].user_scoped /\ x.user # NoOne /\ x.user = g.user
  <2>1. x.table = "memberships" BY <1>4, Policies DEF TableRow
  <2>2. g.user = a.who BY <1>4 DEF SettingOK
  <2>. QED BY <1>4, <2>1, <2>2 DEF InView
<1>. QED BY <1>1, <1>2, <1>3, <1>4 DEF Admits

LEMMA QueryStep ==
    ASSUME ScopeInv, NEW r \in Asks, NEW t, NEW scoped \in BOOLEAN, Query(r, t, scoped)
    PROVE  ScopeInv'
<1>1. PICK a, n : a = ask[r] /\ n = ask'[r] OBVIOUS
<1>2. a.stage \in {"known", "named", "tenant", "platform"} /\ UNCHANGED <<rls, subject, up, stored, promised>> BY <1>1 DEF Query, Working
<1>3. /\ guc \in [Conns -> Setting] /\ ask \in [Asks -> AskRec(stored)]
      /\ AskOK(a) /\ a \in AskRec(stored) /\ a.step = 1 /\ a.conn \in Conns /\ (rls => SettingOK(a, guc[a.conn]))
      /\ guc[a.conn] \in Setting /\ rls = subject
  BY <1>1, <1>2, UnderWay
<1>. DEFINE found == {x \in Readable(r, t) : scoped => Scoped(r, x)}
            mine == {x \in stored : x.table = t /\ x.org = ask[r].ctx}
<1>4. /\ ask' = [ask EXCEPT ![r] = n] /\ n \in AskRec(stored) /\ Same(n, a)
      /\ n.ctx = a.ctx /\ n.entitled = a.entitled /\ n.stage = a.stage
      /\ n.rows = found /\ n.scoped = scoped /\ n.whole = (scoped => mine \subseteq found)
  <2>1. ask' = [ask EXCEPT ![r].rows = found, ![r].scoped = scoped, ![r].whole = scoped => mine \subseteq found]
    BY DEF Query
  <2>2. found \subseteq stored BY DEF Readable
  <2>3. PICK f, w : f = found /\ w = (scoped => mine \subseteq found) OBVIOUS
  <2>4. w \in BOOLEAN BY <2>3
  <2>. HIDE DEF found, mine
  <2>. QED BY <1>1, <1>3, <2>1, <2>2, <2>3, <2>4 DEF AskRec, Same
<1>5. guc' = guc BY DEF Query
<1>6. guc' \in [Conns -> Setting] /\ \A d \in Conns : d # a.conn => guc'[d] = guc[d] BY <1>3, <1>5
<1>10. rls \/ scoped => \A x \in found : InView(n, x)
  <2>. SUFFICES ASSUME rls \/ scoped, NEW x \in found PROVE InView(n, x) OBVIOUS
  <2>1. x \in stored /\ x \in TableRow /\ Policed(r, x) /\ (scoped => x.org = a.ctx)
    BY <1>1 DEF Readable, Scoped, ScopeInv, ScopeTypes
  <2>2. CASE rls
    <3>1. Admits(guc[a.conn], x) BY <1>1, <1>3, <2>1, <2>2 DEF Policed
    <3>2. InView(a, x) BY <1>2, <1>3, <2>1, <2>2, <3>1, AdmittedInView
    <3>. QED BY <1>4, <3>2 DEF InView, Same
  <2>3. CASE scoped
    <3>1. a.stage = "tenant" BY <1>1, <2>3 DEF Query
    <3>2. a.ctx \in a.entitled \/ a.who = Operator BY <1>3, <3>1 DEF AskOK
    <3>. QED BY <1>4, <2>1, <2>3, <3>2 DEF InView, Same
  <2>. QED BY <2>2, <2>3
<1>11. scoped => mine \subseteq found
  <2>. SUFFICES ASSUME scoped, NEW x \in mine PROVE x \in found OBVIOUS
  <2>1. a.stage = "tenant" BY <1>1 DEF Query
  <2>2. a.ctx \in Orgs BY <1>3, <2>1 DEF AskOK
  <2>3. x \in stored /\ x.table = t /\ x.org = a.ctx /\ x.org # NoOne BY <1>1, <2>2, TenantScopeAssumption
  <2>4. rls => guc[a.conn].tenant = a.ctx BY <1>3, <2>1 DEF SettingOK
  <2>5. Policed(r, x) BY <1>1, <1>3, <2>3, <2>4 DEF Policed, Admits
  <2>. QED BY <1>1, <2>3, <2>5 DEF Readable, Scoped
<1>. HIDE DEF found, mine
<1>7. AskOK(n)
  <2>1. n.whole BY <1>4, <1>11
  <2>2. rls \/ n.scoped => \A x \in n.rows : InView(n, x) BY <1>4, <1>10
  <2>. QED BY <1>2, <1>3, <1>4, <2>1, <2>2 DEF AskOK, Same
<1>8. rls => SettingOK(n, guc'[a.conn]) BY <1>2, <1>3, <1>4, <1>5 DEF SettingOK, Same
<1>9. n.conn = a.conn /\ a.stage # "idle" BY <1>2, <1>4 DEF Same
<1>12. ask' = [ask EXCEPT ![r] = n] /\ n \in AskRec(stored) BY <1>4
<1>. QED BY <1>1, <1>2, <1>3, <1>12, <1>6, <1>7, <1>8, <1>9, StaysOn

LEMMA AddStep ==
    ASSUME ScopeInv, NEW r \in Asks, NEW o \in Orgs, Add(r, o)
    PROVE  ScopeInv'
<1>1. PICK a, n : a = ask[r] /\ n = ask'[r] OBVIOUS
<1>2. a.stage = "tenant" /\ UNCHANGED <<rls, subject, up, stored, promised>> BY <1>1 DEF Add
<1>3. /\ guc \in [Conns -> Setting] /\ ask \in [Asks -> AskRec(stored)]
      /\ AskOK(a) /\ a \in AskRec(stored) /\ a.step = 1 /\ a.conn \in Conns /\ (rls => SettingOK(a, guc[a.conn]))
      /\ guc[a.conn] \in Setting /\ rls = subject
  BY <1>1, <1>2, UnderWay
<1>. DEFINE fits == o = a.ctx /\ Policed(r, Row("agents", o, a.who))
<1>4. /\ ask' = [ask EXCEPT ![r] = n] /\ n \in AskRec(stored) /\ n.who = a.who /\ n.conn = a.conn /\ n.step = a.step
      /\ SameRows(n, a) /\ n.ctx = a.ctx /\ n.entitled = a.entitled /\ n.stage \in {"tenant", "failing"}
  <2>1. CASE fits
    <3>1. ask' = [ask EXCEPT ![r].writes = @ \cup {Row("agents", o, a.who)}] BY <1>1, <2>1 DEF Add
    <3>2. a.who # NoOne BY <1>2, <1>3 DEF AskOK
    <3>3. Row("agents", o, a.who) \in [table : {"agents"}, org : Orgs, user : Folk \cup {ApiKey}]
      BY <1>3, <3>2 DEF Row, AskRec
    <3>4. PICK x : x = Row("agents", o, a.who) OBVIOUS
    <3>. QED BY <1>1, <1>2, <1>3, <3>1, <3>3, <3>4 DEF AskRec, SameRows
  <2>2. CASE ~fits
    <3>1. Goes(r, "failing") BY <1>1, <2>2 DEF Add
    <3>. QED BY <1>1, <1>2, <1>3, <3>1 DEF Goes, AskRec, SameRows
  <2>. QED BY <2>1, <2>2
<1>5. guc' = guc BY DEF Add
<1>6. guc' \in [Conns -> Setting] /\ \A d \in Conns : d # a.conn => guc'[d] = guc[d] BY <1>3, <1>5
<1>7. AskOK(n) BY <1>2, <1>3, <1>4 DEF AskOK, InView, SameRows
<1>8. rls => SettingOK(n, guc'[a.conn]) BY <1>2, <1>3, <1>4, <1>5 DEF SettingOK
<1>9. n.conn = a.conn /\ a.stage # "idle" BY <1>2, <1>4
<1>. QED BY <1>1, <1>2, <1>3, <1>4, <1>6, <1>7, <1>8, <1>9, StaysOn

LEMMA ReturnStep ==
    ASSUME ScopeInv, NEW r \in Asks, Return(r)
    PROVE  ScopeInv'
<1>1. PICK a, n : a = ask[r] /\ n = ask'[r] OBVIOUS
<1>2. a.stage \in {"known", "named", "tenant", "platform"} /\ UNCHANGED <<rls, subject, up, stored, promised>> BY <1>1 DEF Return, Working
<1>3. /\ guc \in [Conns -> Setting] /\ ask \in [Asks -> AskRec(stored)]
      /\ AskOK(a) /\ a \in AskRec(stored) /\ a.step = 1 /\ a.conn \in Conns /\ (rls => SettingOK(a, guc[a.conn]))
      /\ guc[a.conn] \in Setting /\ rls = subject
  BY <1>1, <1>2, UnderWay
<1>4. /\ ask' = [ask EXCEPT ![r] = n] /\ n \in AskRec(stored) /\ Same(n, a) /\ SameRows(n, a)
      /\ n.ctx = a.ctx /\ n.entitled = a.entitled /\ n.stage = "closing"
  BY <1>1, <1>3 DEF Return, Goes, AskRec, Same, SameRows
<1>5. guc' = guc BY DEF Return
<1>6. guc' \in [Conns -> Setting] /\ \A d \in Conns : d # a.conn => guc'[d] = guc[d] BY <1>3, <1>5
<1>7. AskOK(n) BY <1>2, <1>3, <1>4 DEF AskOK, InView, Same, SameRows
<1>8. rls => SettingOK(n, guc'[a.conn]) BY <1>4 DEF SettingOK
<1>9. n.conn = a.conn /\ a.stage # "idle" BY <1>2, <1>4 DEF Same
<1>. QED BY <1>1, <1>2, <1>3, <1>4, <1>6, <1>7, <1>8, <1>9, StaysOn

\* A request that gives its connection back, without settings.
LEMMA GivesBack ==
    ASSUME ScopeInv, NEW r \in Asks, NEW a, a = ask[r], a.stage # "idle", a.step = 1,
           UNCHANGED <<rls, subject, up, promised>>, stored \subseteq stored', stored' \subseteq TableRow,
           NEW n, ask' = [ask EXCEPT ![r] = n], n \in AskRec(stored'), n.conn = NoOne,
           guc' = EndTransaction(a.conn), AskOK(n)'
    PROVE  ScopeInv'
<1>1. a.conn \in Conns BY DEF ScopeInv, RequestsInv, AskOK
<1>2. guc \in [Conns -> Setting] /\ promised' \subseteq stored' BY DEF ScopeInv, ScopeTypes
<1>3. guc' \in [Conns -> Setting] /\ guc'[a.conn] = Unset /\ \A d \in Conns : d # a.conn => guc'[d] = guc[d]
  BY <1>1, <1>2, Ended
<1>4. up /\ UNCHANGED <<rls, subject, up>> BY BusyMeansUp
<1>5. n.conn = a.conn \/ (n.conn = NoOne /\ (a.conn \in Conns => guc'[a.conn] = Unset)) BY <1>3
<1>6. n.conn \notin Conns BY TenantScopeAssumption
<1>. QED BY <1>1, <1>2, <1>3, <1>4, <1>5, <1>6, OneMoves

LEMMA QuietOK == AskOK(Quiet)'
BY QuietAsk DEF AskOK

LEMMA RollbackStep ==
    ASSUME ScopeInv, NEW r \in Asks, Rollback(r)
    PROVE  ScopeInv'
<1>1. PICK a, n : a = ask[r] /\ n = Quiet OBVIOUS
<1>2. a.stage \in {"failing", "known", "named", "tenant", "platform"} BY <1>1 DEF Rollback, Working
<1>3. a.step = 1 /\ a.stage # "idle" BY <1>1, <1>2, UnderWay
<1>4. /\ UNCHANGED <<rls, subject, up, promised>> /\ ask' = [ask EXCEPT ![r] = n]
      /\ guc' = EndTransaction(a.conn) /\ stored' = stored
  BY <1>1 DEF Rollback
<1>5. stored \subseteq stored' /\ stored' \subseteq TableRow BY <1>4 DEF ScopeInv, ScopeTypes
<1>6. n \in AskRec(stored') /\ n.conn = NoOne /\ AskOK(n)' BY <1>1, QuietAsk, QuietOK
<1>. QED BY <1>1, <1>3, <1>4, <1>5, <1>6, GivesBack

LEMMA ClosingSteps == Closing[1] = "commit" /\ Closing[2] = "send"
BY DEF Closing

\* A request that has committed and not yet answered.
SendAsk(w) == [Quiet EXCEPT !.stage = "closing", !.step = 2, !.writes = w]

LEMMA CommitAskStep ==
    ASSUME ScopeInv, NEW r \in Asks, CommitAsk(r)
    PROVE  ScopeInv'
<1>1. PICK a, n : a = ask[r] /\ n = ask'[r] OBVIOUS
<1>2. ask \in [Asks -> AskRec(stored)] /\ stored \subseteq TableRow BY DEF ScopeInv, ScopeTypes
<1>3. a.step \in 1..2 /\ a.writes \subseteq [table : {"agents"}, org : Orgs, user : Folk \cup {ApiKey}]
  BY <1>1, <1>2 DEF AskRec
<1>4. a.step = 1 /\ a.stage # "idle" BY <1>1, <1>3, ClosingSteps DEF CommitAsk
<1>5. /\ UNCHANGED <<rls, subject, up, promised>> /\ guc' = EndTransaction(a.conn)
      /\ \/ stored' = stored \cup a.writes /\ ask' = [ask EXCEPT ![r] = SendAsk(a.writes)]
         \/ stored' = stored /\ ask' = [ask EXCEPT ![r] = Quiet]
  BY <1>1, <1>4 DEF CommitAsk, SendAsk
<1>6. a.writes \subseteq TableRow BY <1>3 DEF TableRow
<1>7. stored \subseteq stored' /\ stored' \subseteq TableRow BY <1>2, <1>5, <1>6
<1>8. CASE stored' = stored /\ ask' = [ask EXCEPT ![r] = Quiet]
  <2>1. n = Quiet /\ ask' = [ask EXCEPT ![r] = n] BY <1>1, <1>2, <1>8
  <2>2. n \in AskRec(stored') /\ n.conn = NoOne /\ AskOK(n)' BY <2>1, QuietAsk, QuietOK
  <2>. QED BY <1>1, <1>4, <1>5, <1>7, <2>1, <2>2, GivesBack
<1>9. CASE stored' = stored \cup a.writes /\ ask' = [ask EXCEPT ![r] = SendAsk(a.writes)]
  <2>1. n = SendAsk(a.writes) /\ ask' = [ask EXCEPT ![r] = n] BY <1>1, <1>2, <1>9
  <2>2. n = [stage |-> "closing", who |-> NoOne, conn |-> NoOne, ctx |-> NoOne, entitled |-> {},
             rows |-> {}, whole |-> TRUE, scoped |-> FALSE, writes |-> a.writes, step |-> 2]
    BY <2>1 DEF SendAsk, Quiet
  <2>3. n \in AskRec(stored') BY <1>3, <2>2 DEF AskRec
  <2>4. /\ n.stage = "closing" /\ n.conn = NoOne /\ n.rows = {} /\ n.whole /\ n.step = 2
        /\ n.writes = a.writes /\ n.writes \subseteq stored'
    BY <1>9, <2>2
  <2>5. AskOK(n)' BY <2>4 DEF AskOK
  <2>. QED BY <1>1, <1>4, <1>5, <1>7, <2>1, <2>3, <2>4, <2>5, GivesBack
<1>. QED BY <1>5, <1>8, <1>9

LEMMA SendStep ==
    ASSUME ScopeInv, NEW r \in Asks, Send(r)
    PROVE  ScopeInv'
<1>1. PICK a, n : a = ask[r] /\ n = Quiet OBVIOUS
<1>2. /\ ask \in [Asks -> AskRec(stored)] /\ stored \subseteq TableRow /\ promised \subseteq stored
      /\ guc \in [Conns -> Setting]
  BY DEF ScopeInv, ScopeTypes
<1>3. a.step \in 1..2 BY <1>1, <1>2 DEF AskRec
<1>4. a.step = 2 BY <1>1, <1>3, ClosingSteps DEF Send
<1>5. a.conn = NoOne /\ a.writes \subseteq stored /\ a.stage # "idle" BY <1>1, <1>4 DEF ScopeInv, RequestsInv, AskOK
<1>6. /\ UNCHANGED <<rls, subject, up>> /\ guc' = guc /\ stored' = stored /\ promised' = promised \cup a.writes
      /\ ask' = [ask EXCEPT ![r] = n]
  BY <1>1, <1>4 DEF Send
<1>7. stored \subseteq stored' /\ stored' \subseteq TableRow /\ promised' \subseteq stored' BY <1>2, <1>5, <1>6
<1>8. n \in AskRec(stored') /\ n.conn = NoOne /\ AskOK(n)' BY <1>1, QuietAsk, QuietOK
<1>9. guc' \in [Conns -> Setting] /\ \A d \in Conns : d # NoOne => guc'[d] = guc[d] BY <1>2, <1>6
<1>10. up BY <1>1, <1>5, BusyMeansUp
<1>11. NoOne \notin Conns BY TenantScopeAssumption
<1>. QED BY <1>1, <1>5, <1>6, <1>7, <1>8, <1>9, <1>10, <1>11, OneMoves

LEMMA ScopeUnchanged ==
    ASSUME ScopeInv, UNCHANGED <<rls, subject, guc, ask, stored, promised>>, up' = up \/ Boot
    PROVE  ScopeInv'
<1>1. ScopeTypes' BY DEF ScopeInv, ScopeTypes, Boot
<1>2. RoleInv' BY DEF ScopeInv, RoleInv, Boot, RoleMatches
<1>3. PoolInv' BY DEF ScopeInv, PoolInv
<1>4. RequestsInv' BY DEF ScopeInv, RequestsInv, AskOK, SettingOK, InView
<1>. QED BY <1>1, <1>2, <1>3, <1>4 DEF ScopeInv

\* The invariant of TenantScope is inductive.
LEMMA ScopeStep ==
    ASSUME ScopeInv, TenantScopeNext
    PROVE  ScopeInv'
<1>1. CASE Boot BY <1>1, ScopeUnchanged DEF Boot
<1>2. ASSUME NEW u \in Folk, NEW o \in Orgs, MeanwhileRemoved(u, o) PROVE ScopeInv'
  BY <1>2, ScopeUnchanged DEF MeanwhileRemoved
<1>3. ASSUME NEW o \in Orgs, MeanwhileSuspended(o) PROVE ScopeInv'
  BY <1>3, ScopeUnchanged DEF MeanwhileSuspended
<1>. QED BY <1>1, <1>2, <1>3, AuthenticateStep, BindTenantStep, LookUpOrgStep, AddStep, CheckMembershipStep,
            RequirePlatformStep, RollbackStep, ReturnStep, CommitAskStep, SendStep, QueryStep DEF TenantScopeNext

LEMMA ScopeInvSound == ScopeInv => TenantScopeSound
<1>. SUFFICES ASSUME ScopeInv PROVE TenantScopeSound OBVIOUS
<1>1. TenantScopeOK BY DEF ScopeInv, ScopeTypes, AskRec, PoolInv, TenantScopeOK
<1>2. TenantsIsolated BY DEF ScopeInv, RequestsInv, AskOK, InView, TenantsIsolated, MayBeSeen
<1>3. TenantSeesItself BY DEF ScopeInv, RequestsInv, AskOK, TenantSeesItself
<1>4. PromisesKept BY DEF ScopeInv, ScopeTypes, PromisesKept
<1>. QED BY <1>1, <1>2, <1>3, <1>4 DEF TenantScopeSound

----------------------------------------------------------------------------
(* Agents                                                                  *)

\* What a request that has loaded its agent may rely on.
CallOK(q) ==
    \/ q = NoCall
    \/ q.op = "create" /\ q.slug \in Slugs
    \/ /\ q.op \in {"rename", "enable", "disable", "delete"} /\ q.slug \in Slugs
       /\ q.loaded \in Agent /\ ~q.loaded.deleted /\ agents[q.slug] # NoAgent
       /\ q.op = "enable" => q.loaded.status = "disabled"
       /\ q.op = "disable" => q.loaded.status = "active"

CallsInv == DOMAIN call = Callers /\ \A c \in Callers : \A q \in {call[c]} : CallOK(q)
AgentsInv == NewsTrue /\ DOMAIN news = Slugs /\ CallsInv

LEMMA NoAgentIsNone == NoAgent \notin Agent
BY DEF NoAgent, Agent

\* The UPDATE of an agent's row, column by column.
LEMMA FlushColumns ==
    ASSUME NEW row \in Agent, NEW l \in Agent, NEW e \in Agent
    PROVE  /\ Flush(row, l, e) \in Agent
           /\ Flush(row, l, e).status = IF e.status # l.status THEN e.status ELSE row.status
           /\ Flush(row, l, e).deleted = IF e.deleted # l.deleted THEN e.deleted ELSE row.deleted
BY DEF Flush, Agent

LEMMA EditedColumns ==
    ASSUME NEW a \in Agent, ~a.deleted, NEW op \in {"rename", "enable", "disable", "delete"}
    PROVE  /\ Edited(op, a) \in Agent
           /\ Edited(op, a).deleted = (op = "delete")
           /\ op = "rename" => Edited(op, a).status = a.status
           /\ op = "enable" => Edited(op, a).status = "active"
           /\ op = "disable" => Edited(op, a).status = "disabled"
<1>1. CASE op = "rename" BY <1>1 DEF Edited, Agent
<1>2. CASE op = "enable" BY <1>2 DEF Edited, Agent
<1>3. CASE op = "disable" BY <1>3 DEF Edited, Agent
<1>4. CASE op = "delete" BY <1>4 DEF Edited, Agent
<1>. QED BY <1>1, <1>2, <1>3, <1>4

LEMMA NewsOf ==
    ASSUME AgentsInv, NEW s \in Slugs
    PROVE  /\ (news[s] = "down") => ~IsActive(s)
           /\ (news[s] = "up" /\ s \notin late) => IsActive(s)
<1>1. \A x \in Slugs : /\ (news[x] = "down") => ~IsActive(x)
                       /\ (news[x] = "up" /\ x \notin late) => IsActive(x)
  BY Zenon DEF AgentsInv, NewsTrue
<1>. QED BY <1>1, Zenon

LEMMA AgentsInitially == AgentsInit => AgentsInv
BY DEF AgentsInit, AgentsInv, NewsTrue, CallsInv, CallOK, IsActive, Visible

\* Requests that rest or have loaded stay right when no row goes.
LEMMA CallsKept ==
    ASSUME AgentsInv, NEW c \in Callers, NEW q, call' = [call EXCEPT ![c] = q], CallOK(q)',
           \A s \in Slugs : agents[s] # NoAgent => agents'[s] # NoAgent
    PROVE  CallsInv'
<1>1. DOMAIN call' = Callers /\ call'[c] = q /\ \A d \in Callers \ {c} : call'[d] = call[d] BY DEF AgentsInv, CallsInv
<1>2. ASSUME NEW d \in Callers, NEW p, p = call'[d] PROVE CallOK(p)'
  <2>1. CASE d = c BY <1>1, <1>2, <2>1
  <2>2. CASE d # c
    <3>1. CallOK(p) BY <1>1, <1>2, <2>2 DEF AgentsInv, CallsInv
    <3>. QED BY <3>1 DEF CallOK
  <2>. QED BY <2>1, <2>2
<1>. QED BY <1>1, <1>2 DEF CallsInv

LEMMA BeginCallStep ==
    ASSUME AgentsInv, NEW c \in Callers, BeginCall(c)
    PROVE  AgentsInv'
<1>1. UNCHANGED <<agents, news, late>> BY DEF BeginCall
<1>2. PICK q : call' = [call EXCEPT ![c] = q] /\ CallOK(q)
  <2>1. PICK s \in Slugs : LoadCreate(c, s) \/ \E op \in {"rename", "enable", "disable", "delete"} : LoadChange(c, s, op)
    BY DEF BeginCall
  <2>2. CASE LoadCreate(c, s)
    <3>1. PICK q : q = [op |-> "create", slug |-> s] OBVIOUS
    <3>2. CallOK(q) BY <3>1 DEF CallOK
    <3>. QED BY <2>2, <3>1, <3>2 DEF LoadCreate
  <2>3. ASSUME NEW op \in {"rename", "enable", "disable", "delete"}, LoadChange(c, s, op)
        PROVE  \E q : call' = [call EXCEPT ![c] = q] /\ CallOK(q)
    <3>1. PICK q : q = [op |-> op, slug |-> s, loaded |-> agents[s]] OBVIOUS
    <3>2. agents[s] \in Agent /\ agents[s] # NoAgent /\ ~agents[s].deleted
      BY <2>3 DEF LoadChange, Visible, AgentsInv, NewsTrue
    <3>3. q.op = op /\ q.slug = s /\ q.loaded = agents[s] BY <3>1
    <3>4. CallOK(q) BY <2>3, <3>2, <3>3 DEF CallOK, LoadChange
    <3>. QED BY <2>3, <3>1, <3>4 DEF LoadChange
  <2>. QED BY <2>1, <2>2, <2>3
<1>3. CallOK(q)' BY <1>1, <1>2 DEF CallOK
<1>4. CallsInv' BY <1>1, <1>2, <1>3, CallsKept
<1>. QED BY <1>1, <1>4 DEF AgentsInv, NewsTrue, IsActive, Visible

LEMMA CommitCreateStep ==
    ASSUME AgentsInv, NEW c \in Callers, CommitCreate(c)
    PROVE  AgentsInv'
<1>1. PICK q : q = call[c] OBVIOUS
<1>2. q.op = "create" /\ q.slug \in Slugs /\ late' = late
  BY <1>1 DEF CommitCreate, AgentsInv, CallsInv, CallOK, NoCall
<1>3. PICK s : s = q.slug OBVIOUS
<1>4. PICK n : n = [status |-> "active", deleted |-> FALSE, name |-> 0] OBVIOUS
<1>5. n \in Agent /\ n # NoAgent /\ n.status = "active" /\ ~n.deleted BY <1>4 DEF Agent, NoAgent
<1>6. \/ UNCHANGED <<agents, news>>
      \/ agents' = [agents EXCEPT ![s] = n] /\ news' = [news EXCEPT ![s] = "up"]
  BY <1>1, <1>3, <1>4 DEF CommitCreate
<1>7. agents \in [Slugs -> Agent \cup {NoAgent}] /\ DOMAIN news = Slugs BY DEF AgentsInv, NewsTrue
<1>8. \A x \in Slugs : agents[x] # NoAgent => agents'[x] # NoAgent BY <1>5, <1>6, <1>7
<1>9. call' = [call EXCEPT ![c] = NoCall] /\ CallOK(NoCall)' BY DEF CommitCreate, CallOK
<1>10. CallsInv' BY <1>8, <1>9, CallsKept
<1>11. NewsTrue' /\ DOMAIN news' = Slugs
  <2>1. CASE UNCHANGED <<agents, news>> BY <1>2, <1>7, <2>1 DEF AgentsInv, NewsTrue, IsActive, Visible
  <2>2. CASE agents' = [agents EXCEPT ![s] = n] /\ news' = [news EXCEPT ![s] = "up"]
    <3>1. agents' \in [Slugs -> Agent \cup {NoAgent}] BY <1>5, <1>7, <2>2
    <3>2. ASSUME NEW x \in Slugs
          PROVE  /\ (news'[x] = "down") => ~IsActive(x)'
                 /\ (news'[x] = "up" /\ x \notin late') => IsActive(x)'
      <4>1. CASE x = s BY <1>5, <1>7, <2>2, <4>1 DEF IsActive, Visible
      <4>2. CASE x # s
        <5>1. agents'[x] = agents[x] /\ news'[x] = news[x] BY <1>7, <2>2, <4>2
        <5>2. IsActive(x)' <=> IsActive(x) BY <5>1 DEF IsActive, Visible
        <5>. QED BY <1>2, <5>1, <5>2, NewsOf
      <4>. QED BY <4>1, <4>2
    <3>. QED BY <1>7, <2>2, <3>1, <3>2 DEF NewsTrue
  <2>. QED BY <1>6, <2>1, <2>2
<1>. QED BY <1>10, <1>11 DEF AgentsInv

\* A change of an agent: what becomes of its row.
LEMMA ChangedAgent ==
    ASSUME AgentsInv, NEW c \in Callers, CommitChange(c)
    PROVE  \E s \in Slugs, op \in {"rename", "enable", "disable", "delete"}, n \in Agent :
             /\ agents[s] \in Agent /\ n # NoAgent
             /\ agents' = [agents EXCEPT ![s] = n]
             /\ news' = [news EXCEPT ![s] = Announced(op, @)]
             /\ late' = IF agents[s].deleted THEN late \cup {s} ELSE late
             /\ n.deleted = (op = "delete" \/ agents[s].deleted)
             /\ op = "rename" => n.status = agents[s].status
             /\ op = "enable" => n.status = "active"
             /\ op = "disable" => n.status = "disabled"
<1>1. PICK q, s, op, l : q = call[c] /\ s = q.slug /\ op = q.op /\ l = q.loaded OBVIOUS
<1>2. /\ op \in {"rename", "enable", "disable", "delete"} /\ s \in Slugs
      /\ l \in Agent /\ ~l.deleted /\ agents[s] # NoAgent
      /\ op = "enable" => l.status = "disabled"
      /\ op = "disable" => l.status = "active"
  BY <1>1 DEF CommitChange, AgentsInv, CallsInv, CallOK, NoCall
<1>3. agents[s] \in Agent BY <1>2 DEF AgentsInv, NewsTrue
<1>4. PICK e, n : e = Edited(op, l) /\ n = Flush(agents[s], l, e) OBVIOUS
<1>5. /\ e \in Agent /\ e.deleted = (op = "delete")
      /\ op = "rename" => e.status = l.status
      /\ op = "enable" => e.status = "active"
      /\ op = "disable" => e.status = "disabled"
  BY <1>2, <1>4, EditedColumns
<1>6. /\ n \in Agent
      /\ n.status = IF e.status # l.status THEN e.status ELSE agents[s].status
      /\ n.deleted = IF e.deleted # l.deleted THEN e.deleted ELSE agents[s].deleted
  BY <1>2, <1>3, <1>4, <1>5, FlushColumns
<1>7. /\ agents' = [agents EXCEPT ![s] = n] /\ news' = [news EXCEPT ![s] = Announced(op, @)]
      /\ late' = IF agents[s].deleted THEN late \cup {s} ELSE late
  BY <1>1, <1>4 DEF CommitChange
<1>8. n.deleted = (op = "delete" \/ agents[s].deleted)
  <2>1. l.deleted = FALSE /\ agents[s].deleted \in BOOLEAN BY <1>2, <1>3 DEF Agent
  <2>. QED BY <1>5, <1>6, <2>1
<1>9. /\ op = "rename" => n.status = agents[s].status
      /\ op = "enable" => n.status = "active"
      /\ op = "disable" => n.status = "disabled"
  BY <1>2, <1>5, <1>6
<1>. QED BY <1>2, <1>3, <1>6, <1>7, <1>8, <1>9, NoAgentIsNone

LEMMA CommitChangeStep ==
    ASSUME AgentsInv, NEW c \in Callers, CommitChange(c)
    PROVE  AgentsInv'
<1>1. PICK s \in Slugs, op \in {"rename", "enable", "disable", "delete"}, n \in Agent :
        /\ agents[s] \in Agent /\ n # NoAgent
        /\ agents' = [agents EXCEPT ![s] = n]
        /\ news' = [news EXCEPT ![s] = Announced(op, @)]
        /\ late' = IF agents[s].deleted THEN late \cup {s} ELSE late
        /\ n.deleted = (op = "delete" \/ agents[s].deleted)
        /\ op = "rename" => n.status = agents[s].status
        /\ op = "enable" => n.status = "active"
        /\ op = "disable" => n.status = "disabled"
  BY ChangedAgent
<1>2. agents \in [Slugs -> Agent \cup {NoAgent}] /\ DOMAIN news = Slugs BY DEF AgentsInv, NewsTrue
<1>3. agents' \in [Slugs -> Agent \cup {NoAgent}] /\ \A x \in Slugs : agents[x] # NoAgent => agents'[x] # NoAgent
  BY <1>1, <1>2
<1>4. call' = [call EXCEPT ![c] = NoCall] /\ CallOK(NoCall)' BY DEF CommitChange, CallOK
<1>5. CallsInv' BY <1>3, <1>4, CallsKept
<1>6. ASSUME NEW x \in Slugs
      PROVE  /\ (news'[x] = "down") => ~IsActive(x)'
             /\ (news'[x] = "up" /\ x \notin late') => IsActive(x)'
  <2>1. CASE x = s
    <3>1. agents'[x] = n /\ news'[x] = Announced(op, news[s]) BY <1>1, <1>2, <2>1
    <3>2. agents[s] # NoAgent BY <1>1, NoAgentIsNone
    <3>3. CASE op = "rename"
      <4>1. news'[x] = news[s] BY <3>1, <3>3 DEF Announced
      <4>2. n.status = agents[s].status /\ (n.deleted <=> agents[s].deleted) BY <1>1, <3>3
      <4>3. IsActive(x)' <=> IsActive(s) BY <1>1, <3>1, <3>2, <4>2 DEF IsActive, Visible
      <4>4. x \notin late' => s \notin late BY <1>1, <2>1
      <4>. QED BY <4>1, <4>3, <4>4, NewsOf
    <3>4. CASE op = "enable"
      <4>1. news'[x] = "up" /\ n.status = "active" BY <1>1, <3>1, <3>4 DEF Announced
      <4>2. x \notin late' => ~n.deleted BY <1>1, <2>1, <3>4
      <4>. QED BY <1>1, <3>1, <4>1, <4>2 DEF IsActive, Visible
    <3>5. CASE op = "disable"
      <4>1. news'[x] = "down" /\ n.status = "disabled" BY <1>1, <3>1, <3>5 DEF Announced
      <4>. QED BY <3>1, <4>1 DEF IsActive
    <3>6. CASE op = "delete"
      <4>1. news'[x] = "down" /\ n.deleted BY <1>1, <3>1, <3>6 DEF Announced
      <4>. QED BY <3>1, <4>1 DEF IsActive, Visible
    <3>. QED BY <3>3, <3>4, <3>5, <3>6
  <2>2. CASE x # s
    <3>1. agents'[x] = agents[x] /\ news'[x] = news[x] /\ (x \notin late' => x \notin late) BY <1>1, <1>2, <2>2
    <3>2. IsActive(x)' <=> IsActive(x) BY <3>1 DEF IsActive, Visible
    <3>. QED BY <3>1, <3>2, NewsOf
  <2>. QED BY <2>1, <2>2
<1>7. DOMAIN news' = Slugs BY <1>1, <1>2
<1>. QED BY <1>3, <1>5, <1>6, <1>7 DEF AgentsInv, NewsTrue

LEMMA AgentsStep ==
    ASSUME AgentsInv, AgentsNext \/ UNCHANGED agentVars
    PROVE  AgentsInv'
<1>1. CASE UNCHANGED agentVars BY <1>1 DEF agentVars, AgentsInv, CallsInv, CallOK, NewsTrue, IsActive, Visible
<1>. QED BY <1>1, BeginCallStep, CommitCreateStep, CommitChangeStep DEF AgentsNext

LEMMA DeletedAgentStays ==
    ASSUME AgentsInv, AgentsNext, NEW x \in Slugs, agents[x] # NoAgent, agents[x].deleted
    PROVE  agents'[x] # NoAgent /\ agents'[x].deleted
<1>1. agents \in [Slugs -> Agent \cup {NoAgent}] BY DEF AgentsInv, NewsTrue
<1>2. ASSUME NEW c \in Callers, CommitChange(c) PROVE agents'[x] # NoAgent /\ agents'[x].deleted
  BY <1>1, <1>2, ChangedAgent
<1>3. ASSUME NEW c \in Callers, CommitCreate(c) PROVE agents'[x] # NoAgent /\ agents'[x].deleted
  <2>1. agents'[x] = agents[x] BY <1>1, <1>3 DEF CommitCreate
  <2>. QED BY <2>1
<1>4. ASSUME NEW c \in Callers, BeginCall(c) PROVE agents'[x] # NoAgent /\ agents'[x].deleted
  BY <1>4 DEF BeginCall
<1>. QED BY <1>2, <1>3, <1>4 DEF AgentsNext

----------------------------------------------------------------------------
(* Subscriptions                                                           *)

Snap == [key : Plans, version : 1..(MaxEdits + 1)]
SubRow == [plan : Plans, snap : Snap, status : {"trialing", "active", "canceled"}, ending : BOOLEAN]

\* What a request has loaded: the plan as it was, and the occupying row, in which plan
\* and snapshot agreed unless the row was torn already.
ReqOK(q) ==
    \/ q = Resting
    \/ /\ q.op \in {"trial", "change", "cancel", "cancelNow", "resume"}
       /\ q.plan \in Plans /\ q.snap \in Snap /\ q.snap.key = q.plan
       /\ q.row \in 0..Len(subRows)
       /\ q.row # 0 => q.loaded \in SubRow /\ (q.row \notin torn => q.loaded.snap.key = q.loaded.plan)
       /\ q.op \in {"cancel", "cancelNow", "resume"} => q.row # 0

RequestsOK == DOMAIN req = Tenants /\ \A t \in Tenants : \A q \in {req[t]} : ReqOK(q)

SubsInv ==
    /\ subRows \in Seq(SubRow) /\ OneRow(subRows) /\ BilledAsEntitled
    /\ catalog \in [Plans -> [version : 1..(edits + 1), archived : BOOLEAN]] /\ edits \in 0..MaxEdits
    /\ RequestsOK

LEMMA RowOfSubs ==
    ASSUME SubsInv
    PROVE  /\ Len(subRows) \in Nat /\ DOMAIN subRows = 1..Len(subRows)
           /\ \A i \in 1..Len(subRows) : subRows[i] \in SubRow
<1>1. subRows \in Seq(SubRow) BY DEF SubsInv
<1>2. Len(subRows) \in Nat /\ DOMAIN subRows = 1..Len(subRows) BY <1>1, LenProperties
<1>. QED BY <1>1, <1>2, ElementOfSeq

\* current_for_org finds the one row that occupies, since there is one at most.
LEMMA OccupyingRowFacts ==
    ASSUME SubsInv
    PROVE  OccupyingRow \in 0..Len(subRows)
<1>1. PICK O : O = {i \in 1..Len(subRows) : Occupies(subRows[i].status)} OBVIOUS
<1>2. OccupyingRow = IF O = {} THEN 0 ELSE CHOOSE i \in O : \A j \in O : j <= i BY <1>1 DEF OccupyingRow
<1>3. Len(subRows) \in Nat BY RowOfSubs
<1>4. CASE O = {} BY <1>2, <1>3, <1>4
<1>5. CASE O # {}
  <2>1. PICK i : i \in O BY <1>5
  <2>2. \A j \in O : j = i BY <1>1, <2>1 DEF SubsInv, OneRow
  <2>3. i \in 1..Len(subRows) BY <1>1, <2>1
  <2>4. \A j \in O : j <= i BY <2>2, <2>3, <1>3
  <2>5. (CHOOSE x \in O : \A j \in O : j <= x) \in O BY <2>1, <2>4
  <2>. QED BY <1>1, <1>2, <1>3, <1>5, <2>5
<1>. QED BY <1>4, <1>5

\* What request q may make of row i.
Follows(q, i, n) ==
    /\ n \in SubRow
    /\ n.snap # subRows[i].snap => q.op = "change" /\ q.row = i
    /\ subRows[i].ending /\ ~n.ending => q.op \in {"change", "resume"} /\ q.row = i /\ q.loaded.ending
    /\ \/ n.snap.key = n.plan \/ i \in torn
       \/ q.op = "change" /\ q.row # 0 /\ q.plan = q.loaded.plan /\ subRows[q.row].plan # q.plan /\ i = q.row

LEMMA SavedColumns ==
    ASSUME NEW q, subRows[q.row] \in SubRow, q.loaded \in SubRow, NEW n \in SubRow
    PROVE  /\ Saved(q, n) \in SubRow
           /\ Saved(q, n).plan = Column(q.loaded.plan, n.plan, subRows[q.row].plan)
           /\ Saved(q, n).snap = Column(q.loaded.snap, n.snap, subRows[q.row].snap)
           /\ Saved(q, n).ending = Column(q.loaded.ending, n.ending, subRows[q.row].ending)
<1>1. DOMAIN subRows[q.row] = {"plan", "snap", "status", "ending"} BY DEF SubRow
<1>2. Saved(q, n) = [plan |-> Column(q.loaded.plan, n.plan, subRows[q.row].plan),
                     snap |-> Column(q.loaded.snap, n.snap, subRows[q.row].snap),
                     status |-> Column(q.loaded.status, n.status, subRows[q.row].status),
                     ending |-> Column(q.loaded.ending, n.ending, subRows[q.row].ending)]
  BY <1>1 DEF Saved
<1>. QED BY <1>2 DEF SubRow, Column

LEMMA SavedFollows ==
    ASSUME SubsInv, NEW q, ReqOK(q), q.op # "none", q.row # 0, NEW n \in SubRow,
           \/ q.op = "change" /\ n.plan = q.plan /\ n.snap = q.snap /\ ~n.ending
           \/ /\ n.plan = q.loaded.plan /\ n.snap = q.loaded.snap
              /\ n.ending = q.loaded.ending \/ n.ending \/ q.op = "resume"
    PROVE  Follows(q, q.row, Saved(q, n))
<1>1. /\ q.row \in 1..Len(subRows) /\ q.loaded \in SubRow /\ q.snap.key = q.plan
      /\ q.row \notin torn => q.loaded.snap.key = q.loaded.plan
  BY RowOfSubs DEF ReqOK, Resting
<1>2. PICK i, r, l, s : i = q.row /\ r = subRows[i] /\ l = q.loaded /\ s = Saved(q, n) OBVIOUS
<1>3. r \in SubRow BY <1>1, <1>2, RowOfSubs
<1>4. /\ s \in SubRow /\ s.plan = Column(l.plan, n.plan, r.plan) /\ s.snap = Column(l.snap, n.snap, r.snap)
      /\ s.ending = Column(l.ending, n.ending, r.ending)
  BY <1>1, <1>2, <1>3, SavedColumns
<1>5. i \notin torn => r.snap.key = r.plan BY <1>1, <1>2 DEF SubsInv, BilledAsEntitled
<1>6. s.snap # r.snap => q.op = "change" BY <1>2, <1>4 DEF Column
<1>7. r.ending /\ ~s.ending => q.op \in {"change", "resume"} /\ l.ending
  <2>1. r.ending \in BOOLEAN /\ s.ending \in BOOLEAN /\ l.ending \in BOOLEAN /\ n.ending \in BOOLEAN
    BY <1>1, <1>2, <1>3, <1>4 DEF SubRow
  <2>2. CASE n.ending = l.ending BY <1>4, <2>2 DEF Column
  <2>3. CASE n.ending # l.ending
    <3>1. s.ending = n.ending BY <1>4, <2>3 DEF Column
    <3>2. ASSUME ~n.ending PROVE q.op \in {"change", "resume"} /\ l.ending BY <1>2, <2>1, <2>3, <3>2
    <3>. QED BY <3>1, <3>2
  <2>. QED BY <2>2, <2>3
<1>8. \/ s.snap.key = s.plan \/ i \in torn
      \/ q.op = "change" /\ q.plan = l.plan /\ r.plan # q.plan
  <2>. SUFFICES ASSUME i \notin torn PROVE s.snap.key = s.plan \/ (q.op = "change" /\ q.plan = l.plan /\ r.plan # q.plan)
    OBVIOUS
  <2>1. r.snap.key = r.plan /\ l.snap.key = l.plan BY <1>1, <1>2, <1>5
  <2>2. CASE n.plan = l.plan /\ n.snap = l.snap BY <1>4, <2>1, <2>2 DEF Column
  <2>3. CASE q.op = "change" /\ n.plan = q.plan /\ n.snap = q.snap
    <3>1. CASE q.plan = l.plan
      <4>1. s.plan = r.plan /\ s.snap \in {q.snap, r.snap} BY <1>4, <2>3, <3>1 DEF Column
      <4>. QED BY <1>1, <2>1, <2>3, <3>1, <4>1
    <3>2. CASE q.plan # l.plan
      <4>1. q.snap # l.snap BY <1>1, <2>1, <3>2
      <4>2. s.plan = q.plan /\ s.snap = q.snap BY <1>4, <2>3, <3>2, <4>1 DEF Column
      <4>. QED BY <1>1, <4>2
    <3>. QED BY <3>1, <3>2
  <2>. QED BY <1>2, <2>2, <2>3
<1>. QED BY <1>2, <1>4, <1>6, <1>7, <1>8 DEF Follows

\* The table after a request: every row follows, and a new one agrees with its plan.
LEMMA ResultFollows ==
    ASSUME SubsInv, NEW q, ReqOK(q), q.op # "none"
    PROVE  /\ Result(q) \in Seq(SubRow) /\ Len(subRows) <= Len(Result(q)) /\ Len(Result(q)) \in Nat
           /\ \A i \in 1..Len(subRows) : Follows(q, i, Result(q)[i])
           /\ \A i \in 1..Len(Result(q)) : i \notin 1..Len(subRows) => Result(q)[i].snap.key = Result(q)[i].plan
<1>1. /\ q.op \in {"trial", "change", "cancel", "cancelNow", "resume"}
      /\ q.plan \in Plans /\ q.snap \in Snap /\ q.snap.key = q.plan
      /\ q.row \in 0..Len(subRows)
      /\ q.row # 0 => q.loaded \in SubRow
      /\ q.op \in {"cancel", "cancelNow", "resume"} => q.row # 0
  BY DEF ReqOK, Resting
<1>2. subRows \in Seq(SubRow) /\ Len(subRows) \in Nat /\ \A i \in 1..Len(subRows) : subRows[i] \in SubRow
  BY RowOfSubs DEF SubsInv
<1>3. ASSUME NEW i \in 1..Len(subRows) PROVE Follows(q, i, subRows[i])
  BY <1>2 DEF Follows, SubsInv, BilledAsEntitled
<1>4. ASSUME NEW R \in Seq(SubRow), Len(R) = Len(subRows), \A i \in 1..Len(subRows) : Follows(q, i, R[i]),
             NEW n \in SubRow, n.snap.key = n.plan, Result(q) = Append(R, n)
      PROVE  /\ Result(q) \in Seq(SubRow) /\ Len(subRows) <= Len(Result(q)) /\ Len(Result(q)) \in Nat
             /\ \A i \in 1..Len(subRows) : Follows(q, i, Result(q)[i])
             /\ \A i \in 1..Len(Result(q)) : i \notin 1..Len(subRows) => Result(q)[i].snap.key = Result(q)[i].plan
  <2>1. /\ Append(R, n) \in Seq(SubRow) /\ Len(Append(R, n)) = Len(R) + 1
        /\ \A i \in 1..Len(R) : Append(R, n)[i] = R[i]
        /\ Append(R, n)[Len(R) + 1] = n
    BY AppendProperties
  <2>2. \A i \in 1..(Len(R) + 1) : i \notin 1..Len(R) => i = Len(R) + 1 BY <1>2, <1>4
  <2>3. \A i \in 1..Len(subRows) : Result(q)[i] = R[i] BY <1>4, <2>1
  <2>4. \A i \in 1..Len(subRows) : Follows(q, i, Result(q)[i]) BY <1>4, <2>3
  <2>. QED BY <1>2, <1>4, <2>1, <2>2, <2>4
<1>5. ASSUME NEW n \in SubRow, q.row # 0,
             \/ q.op = "change" /\ n.plan = q.plan /\ n.snap = q.snap /\ ~n.ending
             \/ /\ n.plan = q.loaded.plan /\ n.snap = q.loaded.snap
                /\ n.ending = q.loaded.ending \/ n.ending \/ q.op = "resume",
             NEW R, R = [subRows EXCEPT ![q.row] = Saved(q, n)]
      PROVE  R \in Seq(SubRow) /\ Len(R) = Len(subRows) /\ \A i \in 1..Len(subRows) : Follows(q, i, R[i])
  <2>1. Follows(q, q.row, Saved(q, n)) BY <1>5, SavedFollows
  <2>2. Saved(q, n) \in SubRow BY <2>1 DEF Follows
  <2>3. q.row \in 1..Len(subRows) BY <1>1, <1>2, <1>5
  <2>4. R \in Seq(SubRow) /\ Len(R) = Len(subRows) BY <1>2, <1>5, <2>2, <2>3, ExceptSeq
  <2>5. DOMAIN subRows = 1..Len(subRows) BY RowOfSubs
  <2>6. R[q.row] = Saved(q, n) /\ \A i \in 1..Len(subRows) : i # q.row => R[i] = subRows[i] BY <1>5, <2>3, <2>5
  <2>7. \A i \in 1..Len(subRows) : Follows(q, i, R[i]) BY <1>3, <2>1, <2>6
  <2>. QED BY <2>4, <2>7
<1>6. ASSUME NEW R \in Seq(SubRow), Len(R) = Len(subRows), \A i \in 1..Len(subRows) : Follows(q, i, R[i]), Result(q) = R
      PROVE  /\ Result(q) \in Seq(SubRow) /\ Len(subRows) <= Len(Result(q)) /\ Len(Result(q)) \in Nat
             /\ \A i \in 1..Len(subRows) : Follows(q, i, Result(q)[i])
             /\ \A i \in 1..Len(Result(q)) : i \notin 1..Len(subRows) => Result(q)[i].snap.key = Result(q)[i].plan
  BY <1>2, <1>6
<1>7. \A x \in {"trialing", "active"} : NewRow(q, x) \in SubRow /\ NewRow(q, x).snap.key = NewRow(q, x).plan
  BY <1>1 DEF NewRow, SubRow
<1>8. /\ Changed(q) \in SubRow /\ Changed(q).plan = q.plan /\ Changed(q).snap = q.snap /\ ~Changed(q).ending
  BY <1>1 DEF Changed, SubRow
<1>9. ASSUME q.row # 0
      PROVE  /\ [q.loaded EXCEPT !.status = "canceled"] \in SubRow
             /\ [q.loaded EXCEPT !.status = "canceled"].plan = q.loaded.plan
             /\ [q.loaded EXCEPT !.status = "canceled"].snap = q.loaded.snap
             /\ [q.loaded EXCEPT !.status = "canceled"].ending = q.loaded.ending
             /\ \A b \in BOOLEAN : /\ [q.loaded EXCEPT !.ending = b] \in SubRow
                                   /\ [q.loaded EXCEPT !.ending = b].plan = q.loaded.plan
                                   /\ [q.loaded EXCEPT !.ending = b].snap = q.loaded.snap
                                   /\ [q.loaded EXCEPT !.ending = b].ending = b
  BY <1>1, <1>9 DEF SubRow
<1>10. CASE q.op = "change" /\ q.row = 0
  <2>1. Result(q) = Append(subRows, NewRow(q, "active")) BY <1>10 DEF Result
  <2>. QED BY <1>2, <1>3, <1>4, <1>7, <2>1
<1>11. CASE q.op = "trial" /\ q.row = 0
  <2>1. Result(q) = Append(subRows, NewRow(q, "trialing")) BY <1>11 DEF Result
  <2>. QED BY <1>2, <1>3, <1>4, <1>7, <2>1
<1>12. CASE q.op = "change" /\ q.row # 0
  <2>1. Result(q) = [subRows EXCEPT ![q.row] = Saved(q, Changed(q))] BY <1>12 DEF Result
  <2>. QED BY <1>5, <1>6, <1>8, <1>12, <2>1
<1>13. CASE q.op = "trial" /\ q.row # 0
  <2>1. PICK n : n = [q.loaded EXCEPT !.status = "canceled"] OBVIOUS
  <2>2. PICK R : R = [subRows EXCEPT ![q.row] = Saved(q, n)] OBVIOUS
  <2>3. Result(q) = Append(R, NewRow(q, "trialing")) BY <1>13, <2>1, <2>2 DEF Result
  <2>4. n \in SubRow /\ n.plan = q.loaded.plan /\ n.snap = q.loaded.snap /\ n.ending = q.loaded.ending BY <1>9, <1>13, <2>1
  <2>5. R \in Seq(SubRow) /\ Len(R) = Len(subRows) /\ \A i \in 1..Len(subRows) : Follows(q, i, R[i])
    BY <1>5, <1>13, <2>2, <2>4
  <2>. QED BY <1>4, <1>7, <2>3, <2>5
<1>14. CASE q.op = "cancelNow"
  <2>1. PICK n : n = [q.loaded EXCEPT !.status = "canceled"] OBVIOUS
  <2>2. Result(q) = [subRows EXCEPT ![q.row] = Saved(q, n)] BY <1>14, <2>1 DEF Result
  <2>3. n \in SubRow /\ n.plan = q.loaded.plan /\ n.snap = q.loaded.snap /\ n.ending = q.loaded.ending
    BY <1>1, <1>9, <1>14, <2>1
  <2>. QED BY <1>1, <1>5, <1>6, <1>14, <2>2, <2>3
<1>15. CASE q.op \in {"cancel", "resume"}
  <2>1. PICK b \in BOOLEAN : b = (q.op = "cancel") OBVIOUS
  <2>2. PICK n : n = [q.loaded EXCEPT !.ending = b] OBVIOUS
  <2>3. Result(q) = [subRows EXCEPT ![q.row] = Saved(q, n)] BY <1>15, <2>1, <2>2 DEF Result
  <2>4. n \in SubRow /\ n.plan = q.loaded.plan /\ n.snap = q.loaded.snap /\ n.ending = b
    BY <1>1, <1>9, <1>15, <2>1, <2>2
  <2>5. n.ending \/ q.op = "resume" BY <1>15, <2>1, <2>4
  <2>. QED BY <1>1, <1>5, <1>6, <1>15, <2>3, <2>4, <2>5
<1>. QED BY <1>1, <1>10, <1>11, <1>12, <1>13, <1>14, <1>15

LEMMA SubsInitially == SubsInit => SubsInv
<1>. SUFFICES ASSUME SubsInit PROVE SubsInv OBVIOUS
<1>1. PICK r : r = [plan |-> FreePlan, snap |-> [key |-> FreePlan, version |-> 1], status |-> "active", ending |-> FALSE]
  OBVIOUS
<1>2. MaxEdits \in Nat /\ FreePlan \in Plans BY SubscriptionAssumption
<1>3. 1 \in 1..(MaxEdits + 1) /\ 0 \in 0..MaxEdits BY <1>2
<1>4. r \in SubRow /\ r.snap.key = r.plan BY <1>1, <1>2, <1>3 DEF SubRow, Snap
<1>5. subRows = <<r>> BY <1>1 DEF SubsInit
<1>6. subRows \in Seq(SubRow) /\ Len(subRows) = 1 /\ subRows[1] = r BY <1>4, <1>5
<1>7. OneRow(subRows) /\ BilledAsEntitled BY <1>4, <1>6 DEF OneRow, BilledAsEntitled
<1>8. edits \in 0..MaxEdits /\ edits = 0 /\ 1 \in 1..(edits + 1) BY <1>3 DEF SubsInit
<1>9. catalog \in [Plans -> [version : 1..(edits + 1), archived : BOOLEAN]] BY <1>8 DEF SubsInit
<1>10. RequestsOK BY DEF SubsInit, RequestsOK, ReqOK
<1>. QED BY <1>6, <1>7, <1>8, <1>9, <1>10 DEF SubsInv

\* Open requests stay right while rows are only added to, or torn.
LEMMA RequestsKept ==
    ASSUME SubsInv, NEW t \in Tenants, NEW q, req' = [req EXCEPT ![t] = q], ReqOK(q)',
           Len(subRows) \in Nat, Len(subRows') \in Nat, Len(subRows) <= Len(subRows'), torn \subseteq torn'
    PROVE  RequestsOK'
<1>1. DOMAIN req' = Tenants /\ req'[t] = q /\ \A x \in Tenants \ {t} : req'[x] = req[x] BY DEF SubsInv, RequestsOK
<1>2. ASSUME NEW x \in Tenants, NEW p, p = req'[x] PROVE ReqOK(p)'
  <2>1. CASE x = t BY <1>1, <1>2, <2>1
  <2>2. CASE x # t
    <3>1. ReqOK(p) BY <1>1, <1>2, <2>2 DEF SubsInv, RequestsOK
    <3>2. p.row \in 0..Len(subRows) => p.row \in 0..Len(subRows') OBVIOUS
    <3>3. p.row \notin torn' => p.row \notin torn OBVIOUS
    <3>. QED BY <3>1, <3>2, <3>3 DEF ReqOK
  <2>. QED BY <2>1, <2>2
<1>. QED BY <1>1, <1>2 DEF RequestsOK

LEMMA CatalogStep ==
    ASSUME SubsInv, NEW p \in Plans, EditPlan(p) \/ ToggleArchived(p)
    PROVE  SubsInv'
<1>1. UNCHANGED <<subRows, req, torn>> /\ edits' = edits + 1 /\ edits < MaxEdits BY DEF EditPlan, ToggleArchived
<1>2. edits \in 0..MaxEdits /\ catalog \in [Plans -> [version : 1..(edits + 1), archived : BOOLEAN]] BY DEF SubsInv
<1>3. edits' \in 0..MaxEdits BY <1>1, <1>2, SubscriptionAssumption
<1>4. PICK m : m = catalog[p] /\ m \in [version : 1..(edits + 1), archived : BOOLEAN] BY <1>2
<1>5. PICK n : \/ n = [m EXCEPT !.version = @ + 1] /\ EditPlan(p)
               \/ n = [m EXCEPT !.archived = ~@] /\ ToggleArchived(p)
  OBVIOUS
<1>6. n \in [version : 1..(edits' + 1), archived : BOOLEAN]
  <2>1. \A v \in 1..(edits + 1) : v \in 1..(edits' + 1) /\ v + 1 \in 1..(edits' + 1) BY <1>1, <1>2
  <2>2. m.version \in 1..(edits + 1) /\ m.archived \in BOOLEAN BY <1>4
  <2>3. CASE n = [m EXCEPT !.version = @ + 1]
    BY <1>4, <2>1, <2>2, <2>3
  <2>4. CASE n = [m EXCEPT !.archived = ~@]
    BY <1>4, <2>1, <2>2, <2>4
  <2>. QED BY <1>5, <2>3, <2>4
<1>7. catalog' = [catalog EXCEPT ![p] = n] BY <1>2, <1>4, <1>5 DEF EditPlan, ToggleArchived
<1>8. catalog' \in [Plans -> [version : 1..(edits' + 1), archived : BOOLEAN]]
  <2>1. \A x \in [version : 1..(edits + 1), archived : BOOLEAN] : x \in [version : 1..(edits' + 1), archived : BOOLEAN]
    <3>1. \A v \in 1..(edits + 1) : v \in 1..(edits' + 1) BY <1>1, <1>2
    <3>. QED BY <3>1
  <2>. QED BY <1>2, <1>6, <1>7, <2>1
<1>9. OneRow(subRows)' /\ BilledAsEntitled' /\ RequestsOK'
  BY <1>1 DEF SubsInv, OneRow, BilledAsEntitled, RequestsOK, ReqOK
<1>10. subRows' \in Seq(SubRow) BY <1>1 DEF SubsInv
<1>. QED BY <1>3, <1>8, <1>9, <1>10 DEF SubsInv

LEMMA BeginStep ==
    ASSUME SubsInv, NEW t \in Tenants, NEW p \in Plans,
           NEW op \in {"trial", "change", "cancel", "cancelNow", "resume"}, Begin(t, op, p)
    PROVE  SubsInv'
<1>1. UNCHANGED <<catalog, subRows, edits, torn>> BY DEF Begin
<1>2. PICK i, l : i = OccupyingRow /\ l = IF OccupyingRow = 0 THEN <<>> ELSE subRows[OccupyingRow] OBVIOUS
<1>3. PICK q : q = [op |-> op, plan |-> p, snap |-> Snapshot(p), row |-> i, loaded |-> l] OBVIOUS
<1>4. req' = [req EXCEPT ![t] = q] BY <1>2, <1>3 DEF Begin
<1>5. q.op = op /\ q.plan = p /\ q.snap = Snapshot(p) /\ q.row = i /\ q.loaded = l BY <1>3
<1>6. Snapshot(p) \in Snap /\ Snapshot(p).key = p
  <2>1. catalog[p].version \in 1..(edits + 1) /\ edits \in 0..MaxEdits BY DEF SubsInv
  <2>2. catalog[p].version \in 1..(MaxEdits + 1) BY <2>1, SubscriptionAssumption
  <2>. QED BY <2>2 DEF Snapshot, Snap
<1>7. i \in 0..Len(subRows) BY <1>2, OccupyingRowFacts
<1>8. i # 0 => l \in SubRow /\ (i \notin torn => l.snap.key = l.plan)
  <2>. SUFFICES ASSUME i # 0 PROVE l \in SubRow /\ (i \notin torn => l.snap.key = l.plan) OBVIOUS
  <2>1. l = subRows[i] /\ i \in 1..Len(subRows) BY <1>2, <1>7, RowOfSubs
  <2>. QED BY <2>1, RowOfSubs DEF SubsInv, BilledAsEntitled
<1>9. op \in {"cancel", "cancelNow", "resume"} => i # 0 BY <1>2 DEF Begin, MayStart
<1>10. ReqOK(q)' BY <1>1, <1>5, <1>6, <1>7, <1>8, <1>9 DEF ReqOK
<1>11. RequestsOK'
  <2>1. Len(subRows) \in Nat /\ Len(subRows') \in Nat /\ Len(subRows) <= Len(subRows') /\ torn \subseteq torn'
    BY <1>1, RowOfSubs
  <2>. QED BY <1>4, <1>10, <2>1, RequestsKept
<1>. QED BY <1>1, <1>11 DEF SubsInv, OneRow, BilledAsEntitled

\* What a commit does to the rows there were.
LEMMA CommitFollows ==
    ASSUME SubsInv, NEW t \in Tenants, Commit(t)
    PROVE  /\ req[t].op # "none" /\ ReqOK(req[t]) /\ req'[t] = Resting
           /\ subRows' \in Seq(SubRow) /\ Len(subRows) <= Len(subRows') /\ Len(subRows') \in Nat
           /\ \A i \in 1..Len(subRows) : Follows(req[t], i, subRows'[i])
           /\ \A i \in 1..Len(subRows') : i \notin 1..Len(subRows) => subRows'[i].snap.key = subRows'[i].plan
<1>1. PICK q : q = req[t] OBVIOUS
<1>2. q.op # "none" /\ subRows' = Result(q) /\ req' = [req EXCEPT ![t] = Resting] BY <1>1 DEF Commit
<1>3. ReqOK(q) /\ req'[t] = Resting BY <1>1, <1>2 DEF SubsInv, RequestsOK
<1>. QED BY <1>1, <1>2, <1>3, ResultFollows

LEMMA CommitStep ==
    ASSUME SubsInv, NEW t \in Tenants, Commit(t)
    PROVE  SubsInv'
<1>1. PICK q : q = req[t] OBVIOUS
<1>2. /\ q.op # "none" /\ OneRow(subRows') /\ UNCHANGED <<catalog, edits>>
      /\ torn' = IF q.op = "change" /\ q.row # 0 /\ q.plan = q.loaded.plan /\ subRows[q.row].plan # q.plan
                 THEN torn \cup {q.row} ELSE torn
      /\ req' = [req EXCEPT ![t] = Resting]
  BY <1>1 DEF Commit
<1>3. /\ subRows' \in Seq(SubRow) /\ Len(subRows) <= Len(subRows') /\ Len(subRows') \in Nat
      /\ \A i \in 1..Len(subRows) : Follows(q, i, subRows'[i])
      /\ \A i \in 1..Len(subRows') : i \notin 1..Len(subRows) => subRows'[i].snap.key = subRows'[i].plan
  BY <1>1, CommitFollows
<1>4. torn \subseteq torn' BY <1>2
<1>5. BilledAsEntitled'
  <2>1. ASSUME NEW i \in 1..Len(subRows'), i \notin torn' PROVE subRows'[i].snap.key = subRows'[i].plan
    <3>1. CASE i \in 1..Len(subRows)
      <4>1. Follows(q, i, subRows'[i]) BY <1>3, <3>1
      <4>. QED BY <1>2, <1>4, <2>1, <4>1 DEF Follows
    <3>. QED BY <1>3, <3>1
  <2>. QED BY <2>1 DEF BilledAsEntitled
<1>6. ReqOK(Resting)' BY DEF ReqOK
<1>7. RequestsOK' BY <1>2, <1>3, <1>4, <1>6, RowOfSubs, RequestsKept
<1>8. OneRow(subRows)' BY <1>2 DEF OneRow
<1>. QED BY <1>2, <1>3, <1>5, <1>7, <1>8 DEF SubsInv

LEMMA AbandonStep ==
    ASSUME SubsInv, NEW t \in Tenants, Abandon(t)
    PROVE  SubsInv'
<1>1. UNCHANGED <<catalog, subRows, edits, torn>> /\ req' = [req EXCEPT ![t] = Resting] BY DEF Abandon
<1>2. ReqOK(Resting)' BY DEF ReqOK
<1>3. Len(subRows) \in Nat /\ Len(subRows') \in Nat /\ Len(subRows) <= Len(subRows') /\ torn \subseteq torn'
  BY <1>1, RowOfSubs
<1>4. RequestsOK' BY <1>1, <1>2, <1>3, RequestsKept
<1>. QED BY <1>1, <1>4 DEF SubsInv, OneRow, BilledAsEntitled

LEMMA SubsStep ==
    ASSUME SubsInv, SubsNext \/ UNCHANGED subsVars
    PROVE  SubsInv'
<1>1. CASE UNCHANGED subsVars
  BY <1>1 DEF subsVars, SubsInv, OneRow, BilledAsEntitled, RequestsOK, ReqOK
<1>2. FreePlan \in Plans BY SubscriptionAssumption
<1>. QED BY <1>1, <1>2, CatalogStep, BeginStep, CommitStep, AbandonStep DEF SubsNext

\* Only a plan change rewrites a snapshot, and only who saw the end takes it back.
LEMMA RowsNotRewritten ==
    ASSUME SubsInv, SubsNext, NEW i \in 1..Len(subRows)
    PROVE  /\ subRows'[i].snap # subRows[i].snap =>
                \E t \in Tenants : req[t].op = "change" /\ req[t].row = i /\ req'[t] = Resting
           /\ subRows[i].ending /\ ~subRows'[i].ending =>
                \E t \in Tenants : req[t].op \in {"change", "resume"} /\ req[t].row = i /\ req[t].loaded.ending
<1>1. ASSUME NEW t \in Tenants, Commit(t)
      PROVE  /\ subRows'[i].snap # subRows[i].snap => req[t].op = "change" /\ req[t].row = i /\ req'[t] = Resting
             /\ subRows[i].ending /\ ~subRows'[i].ending =>
                  req[t].op \in {"change", "resume"} /\ req[t].row = i /\ req[t].loaded.ending
  BY <1>1, CommitFollows DEF Follows
<1>2. (\E t \in Tenants : Commit(t)) \/ subRows' = subRows
  BY DEF SubsNext, EditPlan, ToggleArchived, Begin, Abandon
<1>3. CASE subRows' = subRows BY <1>3
<1>. QED BY <1>1, <1>2, <1>3

-----------------------------------------------------------------------------
(***************************************************************************)
(* FeatureFlags.  The row is typed; a bucket is below the limit of a       *)
(* larger rollout when it is below that of a smaller one.                  *)
(***************************************************************************)
FlagInv == flag \in [exists : BOOLEAN, enabled : BOOLEAN, rollout : 0..100 \cup {NoRollout}]

LEMMA FlagInitially == FlagInit => FlagInv
BY DEF FlagInit, FlagInv

LEMMA FlagStep ==
    ASSUME FlagInv, FlagNext \/ UNCHANGED flagVars
    PROVE  FlagInv'
<1>1. Percentages \subseteq 0..100 BY FlagAssumption
<1>2. CASE flag' = flag BY <1>2 DEF FlagInv
<1>3. ASSUME NEW e \in BOOLEAN, NEW p \in Percentages \cup {NoRollout}, CreateFlag(e, p) PROVE FlagInv'
  BY <1>1, <1>3 DEF CreateFlag, FlagInv
<1>4. ASSUME NEW e \in BOOLEAN, NEW p \in Percentages \cup {NoRollout}, UpdateFlag(e, p) PROVE FlagInv'
  BY <1>1, <1>4 DEF UpdateFlag, FlagInv
<1>. QED BY <1>2, <1>3, <1>4 DEF FlagNext, FindOverride, SaveOverride, DeleteOverride, flagVars

\* The users a larger rollout reaches include those a smaller one reaches.
LEMMA RolloutMonotone ==
    ASSUME NEW u \in FlagUsers, NEW p \in 0..100, NEW q \in 0..100, p <= q, InRollout(u, p)
    PROVE  InRollout(u, q)
<1>1. BucketOf[u] \in 0..9999 BY FlagAssumption
<1>2. (10000 * p) \div 100 = 100 * p /\ (10000 * q) \div 100 = 100 * q OBVIOUS
<1>3. PICK b : b = BucketOf[u] OBVIOUS
<1>4. b \in 0..9999 /\ b < 100 * p BY <1>1, <1>2, <1>3 DEF InRollout, BUCKETS
<1>5. b < 100 * q BY <1>4
<1>. QED BY <1>2, <1>3, <1>5 DEF InRollout, BUCKETS

\* What an edit of the rollout does to a user's answer.
LEMMA AnswersFollowRollout ==
    ASSUME FlagInv, FlagNext, flag.exists, flag.rollout # NoRollout, flag'.rollout # NoRollout,
           UNCHANGED overrides, NEW u \in FlagUsers
    PROVE  /\ flag.rollout <= flag'.rollout /\ Evaluate(u) = "on" => Evaluate(u)' = "on"
           /\ flag.rollout >= flag'.rollout /\ Evaluate(u) = "off" => Evaluate(u)' = "off"
<1>1. flag'.exists
  <2>1. CASE flag' = flag BY <2>1
  <2>2. ASSUME NEW e \in BOOLEAN, NEW p, UpdateFlag(e, p) PROVE flag'.exists
    BY <2>2 DEF UpdateFlag, FlagInv
  <2>. QED BY <2>1, <2>2 DEF FlagNext, CreateFlag, FindOverride, SaveOverride, DeleteOverride
<1>2. FlagInv' BY FlagStep
<1>3. flag.rollout \in 0..100 /\ flag'.rollout \in 0..100 BY <1>2 DEF FlagInv
<1>4. PICK R : R = RowsOf(DecidingScope(u)) OBVIOUS
<1>5. RowsOf(DecidingScope(u))' = R BY <1>4 DEF RowsOf, DecidingScope
<1>6. CASE R = {}
  <2>1. Cardinality(R) = 0 BY <1>6, FS_EmptySet
  <2>2. Evaluate(u) = IF InRollout(u, flag.rollout) THEN "on" ELSE "off" BY <1>4, <1>6, <2>1 DEF Evaluate
  <2>3. Evaluate(u)' = IF InRollout(u, flag'.rollout) THEN "on" ELSE "off"
    BY <1>1, <1>5, <1>6, <2>1 DEF Evaluate, InRollout
  <2>. QED BY <1>3, <2>2, <2>3, RolloutMonotone
<1>7. CASE R # {}
  <2>1. Evaluate(u) = IF Cardinality(R) > 1 THEN "error" ELSE IF \E o \in R : o.enabled THEN "on" ELSE "off"
    BY <1>4, <1>7 DEF Evaluate
  <2>2. Evaluate(u)' = IF Cardinality(R) > 1 THEN "error" ELSE IF \E o \in R : o.enabled THEN "on" ELSE "off"
    BY <1>1, <1>5, <1>7 DEF Evaluate
  <2>. QED BY <2>1, <2>2
<1>. QED BY <1>6, <1>7

\* The ends of the scale: a bucket is never below 0 and always below 10000.
LEMMA RolloutReaches ==
    ASSUME NEW u \in FlagUsers
    PROVE  ~InRollout(u, 0) /\ InRollout(u, 100)
<1>1. PICK b \in 0..9999 : b = BucketOf[u] BY FlagAssumption
<1>2. (10000 * 0) \div 100 = 0 /\ (10000 * 100) \div 100 = 10000 OBVIOUS
<1>3. ~(b < 0) /\ b < 10000 OBVIOUS
<1>. QED BY <1>1, <1>2, <1>3 DEF InRollout, BUCKETS

LEMMA RolloutEnds == ASSUME FlagInv PROVE RolloutBounds
<1>. SUFFICES ASSUME NEW u \in FlagUsers, flag.exists, RowsOf(u) = {}, RowsOf(OrgScope) = {}
              PROVE  /\ flag.rollout = 0 => Evaluate(u) = "off"
                     /\ flag.rollout = 100 => Evaluate(u) = "on"
  BY DEF RolloutBounds
<1>1. RowsOf(DecidingScope(u)) = {} BY DEF DecidingScope
<1>2. Cardinality({}) = 0 BY FS_EmptySet
<1>3. flag.rollout # NoRollout => Evaluate(u) = IF InRollout(u, flag.rollout) THEN "on" ELSE "off"
  BY <1>1, <1>2 DEF Evaluate
<1>. QED BY <1>3, RolloutReaches DEF NoRollout

LEMMA OverridesKeepAnswer == OthersKeepAnswer
<1>. SUFFICES ASSUME NEW u \in FlagUsers, flag.exists, Cardinality(RowsOf(u)) = 1 PROVE Evaluate(u) # "error"
  BY DEF OthersKeepAnswer
<1>1. RowsOf(u) # {} BY FS_EmptySet
<1>2. DecidingScope(u) = u BY <1>1 DEF DecidingScope
<1>. QED BY <1>2 DEF Evaluate

-----------------------------------------------------------------------------
(***************************************************************************)
(* Entitlements.  A row that was announced is revoked, and a row the job   *)
(* selected was not announced; what a loop over the rows has seen decides  *)
(* what it holds.                                                          *)
(***************************************************************************)
GrantRow == [key : {"feature", "limit"}, source : GrantSources, enabled : BOOLEAN,
             ends : 0..(MaxDays + 1), value : CapValues \cup {NoValue}, revoked : BOOLEAN]

EntInv ==
    /\ subStatus \in {"none", "trialing", "active", "past_due"}
    /\ grants \in Seq(GrantRow) /\ Len(grants) <= MaxGrants
    /\ lapsed \subseteq Rows /\ day \in 0..MaxDays
    /\ said \in [1..MaxGrants -> 0..1]
    /\ \A r \in 1..MaxGrants : said[r] = 1 => r \in Rows /\ grants[r].revoked
    /\ \A r \in lapsed : said[r] = 0

LEMMA EntInitially == EntInit => EntInv
<1>. SUFFICES ASSUME EntInit PROVE EntInv OBVIOUS
<1>1. grants = <<>> /\ Len(grants) = 0 /\ grants \in Seq(GrantRow) BY DEF EntInit
<1>2. said = [r \in 1..MaxGrants |-> 0] /\ lapsed = {} /\ day = 0 BY DEF EntInit
<1>3. MaxGrants \in Nat /\ MaxDays \in Nat BY EntitlementAssumption
<1>4. said \in [1..MaxGrants -> 0..1] /\ \A r \in 1..MaxGrants : said[r] = 0 BY <1>2
<1>. QED BY <1>1, <1>2, <1>3, <1>4 DEF EntInv, EntInit

LEMMA GrantStep ==
    ASSUME EntInv, NEW key \in {"feature", "limit"}, NEW source \in GrantSources, NEW enabled \in BOOLEAN,
           NEW ends \in {0, day + 1}, NEW v \in CapValues \cup {NoValue}, Grant(key, source, enabled, ends, v)
    PROVE  EntInv'
<1> DEFINE g == [key |-> key, source |-> source, enabled |-> enabled, ends |-> ends, value |-> v, revoked |-> FALSE]
<1>1. ends \in 0..(MaxDays + 1) BY EntitlementAssumption DEF EntInv
<1>2. g \in GrantRow BY <1>1 DEF GrantRow
<1>3. grants' = Append(grants, g) /\ Len(grants) < MaxGrants /\ UNCHANGED <<subStatus, lapsed, said, day>>
  BY DEF Grant
<1> HIDE DEF g
<1>4. grants \in Seq(GrantRow) /\ Len(grants) \in Nat BY DEF EntInv
<1>5. grants' \in Seq(GrantRow) /\ Len(grants') = Len(grants) + 1 BY <1>2, <1>3, <1>4
<1>6. \A r \in 1..Len(grants) : r \in 1..Len(grants') /\ grants'[r] = grants[r] BY <1>3, <1>4, <1>5
<1>7. Len(grants') <= MaxGrants BY <1>3, <1>4, <1>5, EntitlementAssumption
<1>8. lapsed' \subseteq Rows' BY <1>3, <1>6 DEF EntInv, Rows
<1>9. \A r \in 1..MaxGrants : said'[r] = 1 => r \in Rows' /\ grants'[r].revoked
  BY <1>3, <1>6 DEF EntInv, Rows
<1>. QED BY <1>3, <1>5, <1>7, <1>8, <1>9 DEF EntInv

\* A row that is revoked is a row.
LEMMA RevokedRow ==
    ASSUME NEW g \in GrantRow
    PROVE  [g EXCEPT !.revoked = TRUE] \in GrantRow /\ [g EXCEPT !.revoked = TRUE].revoked
BY DEF GrantRow

LEMMA RevokeStep ==
    ASSUME EntInv, NEW r \in Rows, Revoke(r)
    PROVE  EntInv'
<1>1. grants \in Seq(GrantRow) /\ Len(grants) \in Nat /\ r \in 1..Len(grants) BY DEF EntInv, Rows
<1>2. grants' = [grants EXCEPT ![r].revoked = TRUE] /\ UNCHANGED <<subStatus, lapsed, said, day>> BY DEF Revoke
<1>3. grants[r] \in GrantRow BY <1>1
<1>4. PICK g \in GrantRow : g = [grants[r] EXCEPT !.revoked = TRUE] /\ g.revoked BY <1>3, RevokedRow
<1>5. grants' = [grants EXCEPT ![r] = g] BY <1>2, <1>4
<1>6. grants' \in Seq(GrantRow) /\ Len(grants') = Len(grants) BY <1>1, <1>5
<1>7. g.revoked BY <1>4
<1>8. \A q \in 1..Len(grants) : grants[q].revoked => grants'[q].revoked BY <1>1, <1>5, <1>7
<1>. QED BY <1>2, <1>6, <1>8 DEF EntInv, Rows

LEMMA SelectLapsedStep ==
    ASSUME EntInv, SelectLapsed
    PROVE  EntInv'
<1>1. lapsed' \subseteq Rows /\ (\A r \in lapsed' : ~grants[r].revoked) /\ UNCHANGED <<subStatus, grants, said, day>>
  BY DEF SelectLapsed
<1>2. ASSUME NEW r \in lapsed' PROVE said[r] = 0
  <2>1. r \in 1..MaxGrants BY <1>1, EntitlementAssumption DEF EntInv, Rows
  <2>. QED BY <1>1, <2>1 DEF EntInv
<1>. QED BY <1>1, <1>2 DEF EntInv, Rows

LEMMA MarkLapsedStep ==
    ASSUME EntInv, MarkLapsed
    PROVE  EntInv'
<1>1. /\ grants' = [r \in Rows |-> IF r \in lapsed THEN [grants[r] EXCEPT !.revoked = TRUE] ELSE grants[r]]
      /\ said' = [r \in 1..MaxGrants |-> IF r \in lapsed THEN said[r] + 1 ELSE said[r]]
      /\ lapsed' = {} /\ UNCHANGED <<subStatus, day>>
  BY DEF MarkLapsed
<1>2. grants \in Seq(GrantRow) /\ Len(grants) \in Nat /\ Rows = 1..Len(grants) BY DEF EntInv, Rows
<1>3. ASSUME NEW r \in Rows PROVE grants'[r] \in GrantRow /\ (grants[r].revoked \/ r \in lapsed => grants'[r].revoked)
  <2>1. PICK g \in GrantRow : g = grants[r] BY <1>2
  <2>2. PICK h \in GrantRow : h = [g EXCEPT !.revoked = TRUE] /\ h.revoked BY RevokedRow
  <2>3. grants'[r] = IF r \in lapsed THEN h ELSE g BY <1>1, <2>1, <2>2
  <2>. QED BY <2>1, <2>2, <2>3
<1>4. grants' \in [1..Len(grants) -> GrantRow] BY <1>1, <1>2, <1>3
<1>5. grants' \in Seq(GrantRow) /\ Len(grants') = Len(grants) BY <1>2, <1>4
<1>6. ASSUME NEW r \in 1..MaxGrants
      PROVE  said'[r] \in 0..1 /\ (said'[r] = 1 => r \in Rows /\ grants'[r].revoked)
  <2>1. said[r] \in 0..1 BY DEF EntInv
  <2>2. CASE r \in lapsed BY <1>1, <1>3, <2>1, <2>2 DEF EntInv
  <2>3. CASE r \notin lapsed BY <1>1, <1>3, <2>1, <2>3 DEF EntInv
  <2>. QED BY <2>2, <2>3
<1>7. said' \in [1..MaxGrants -> 0..1] BY <1>1, <1>6
<1>. QED BY <1>1, <1>5, <1>6, <1>7 DEF EntInv, Rows

LEMMA EntStep ==
    ASSUME EntInv, EntNext \/ UNCHANGED entVars
    PROVE  EntInv'
<1>1. CASE UNCHANGED entVars BY <1>1 DEF EntInv, entVars, Rows
<1>2. ASSUME NEW s \in {"none", "active"}, SubscriptionMoves(s) PROVE EntInv'
  BY <1>2 DEF EntInv, Rows, SubscriptionMoves
<1>3. CASE DayPasses BY <1>3, EntitlementAssumption DEF EntInv, Rows, DayPasses
<1>. QED BY <1>1, <1>2, <1>3, GrantStep, RevokeStep, SelectLapsedStep, MarkLapsedStep DEF EntNext

\* The orders of a finite set are the sequences that show each element once.
LEMMA OrdersAre ==
    ASSUME NEW S, IsFiniteSet(S), NEW order \in SetToSeqs(S)
    PROVE  \E m \in Nat : /\ order \in [1..m -> S]
                          /\ \A x \in S : \E i \in 1..m : order[i] = x
<1>1. PICK m \in Nat : m = Cardinality(S)
  BY FS_CardinalityType
<1>2. order \in [1..m -> S] /\ \A i, j \in 1..m : i # j => order[i] # order[j]
  BY <1>1 DEF SetToSeqs
<1>3. order \in Injection(1..m, S)
  BY <1>2 DEF Injection, IsInjective
<1>4. Cardinality(1..m) = m
  BY FS_Interval
<1>5. order \in Surjection(1..m, S)
  BY <1>1, <1>3, <1>4, FS_Injection
<1> QED
  BY <1>2, <1>5 DEF Surjection

LEMMA RowsTyped ==
    ASSUME EntInv
    PROVE  IsFiniteSet(Rows) /\ (\A r \in Rows : grants[r] \in GrantRow) /\ day \in Nat
<1>1. grants \in Seq(GrantRow) /\ Len(grants) \in Nat /\ Rows = 1..Len(grants) BY DEF EntInv, Rows
<1>2. day \in Nat BY EntitlementAssumption DEF EntInv
<1>. QED BY <1>1, <1>2, FS_Interval

LEMMA EntInvTypes == ASSUME EntInv PROVE EntitlementsOK
<1>1. Rows \subseteq 1..MaxGrants BY EntitlementAssumption DEF EntInv, Rows
<1>2. \A r \in Rows : said[r] \in 0..1 BY <1>1 DEF EntInv
<1>3. \A r \in Rows : grants[r] \in GrantRow BY RowsTyped
<1>. QED BY <1>2, <1>3 DEF EntInv, EntitlementsOK, GrantRow

\* Both readings of a live grant agree, and an order of the live rows is a run through all of them.
LEMMA RowsInOrder ==
    ASSUME EntInv, NEW key
    PROVE  /\ Live(key) \in SUBSET Rows
           /\ \A order \in Orders(key) :
                \E m \in Nat : /\ order \in [1..m -> Live(key)]
                               /\ \A r \in Live(key) : \E i \in 1..m : order[i] = r
<1>1. ASSUME NEW r \in Rows
      PROVE  GrantIsActive(grants[r]) <=> ~grants[r].revoked /\ (grants[r].ends = 0 \/ grants[r].ends > day)
  <2>1. PICK g \in GrantRow : g = grants[r] BY RowsTyped
  <2>2. g.ends \in Nat /\ day \in Nat BY <2>1, RowsTyped, EntitlementAssumption DEF GrantRow
  <2>3. GrantIsActive(g) <=> ~g.revoked /\ (g.ends = 0 \/ g.ends > day) BY <2>2 DEF GrantIsActive
  <2>. QED BY <2>1, <2>3
<1>2. ActiveRows(key) = Live(key) BY <1>1 DEF ActiveRows, Live
<1>3. Live(key) \in SUBSET Rows BY DEF Live
<1>4. IsFiniteSet(Live(key)) BY <1>3, RowsTyped, FS_Subset
<1>. QED BY <1>2, <1>3, <1>4, OrdersAre DEF Orders

-----------------------------------------------------------------------------
(* The loop over the caps.                                                 *)
AsksForCap(r) == grants[r].enabled /\ grants[r].value # NoValue

LEMMA ValuesAre ==
    ASSUME NEW g \in GrantRow
    PROVE  g.value \in Int
<1>1. CapValues \subseteq Int BY EntitlementAssumption
<1>2. CapValues \cup {NoValue} \subseteq Int BY <1>1 DEF NoValue
<1>3. g.value \in CapValues \cup {NoValue} BY DEF GrantRow
<1>. QED BY <1>2, <1>3

LEMMA CapLoop ==
    ASSUME EntInv, NEW m \in Nat, NEW order \in [1..m -> Rows]
    PROVE  \E at : /\ at[0] = BaseCap /\ at[m] = Cap(order)
                   /\ \A i \in 1..m : at[i] = Recap(at[i - 1], order[i])
<1> DEFINE G == [p \in (1..m) \X Int |-> Recap(p[2], order[p[1]])]
           Looped(it) == it = [s \in SUBSET DOMAIN order |->
                                 IF s = {} THEN BaseCap ELSE Recap(it[s \ {Max(s)}], order[Max(s)])]
<1>1. BaseCap \in Int BY EntitlementAssumption DEF BaseCap, Unlimited
<1>2. ASSUME NEW i \in 1..m, NEW c \in Int PROVE Recap(c, order[i]) \in Int
  <2>1. PICK g \in GrantRow : g = grants[order[i]] BY RowsTyped
  <2>2. PICK v \in Int : v = g.value BY ValuesAre
  <2>. QED BY <2>1, <2>2 DEF Recap
<1>3. G \in [(1..m) \X Int -> Int] BY <1>2
<1>4. \A i \in 1..m, c \in Int : G[<<i, c>>] = Recap(c, order[i]) OBVIOUS
<1> HIDE DEF G
<1> HIDE DEF Looped
<1>5. PICK it \in [SUBSET (1..m) -> Int] : IsLoop(it, m, BaseCap, G) BY <1>1, <1>3, LoopExists
<1>6. ASSUME NEW s \in SUBSET (1..m)
      PROVE  it[s] = IF s = {} THEN BaseCap ELSE Recap(it[s \ {Max(s)}], order[Max(s)])
  <2>1. CASE s = {} BY <1>5, <2>1 DEF IsLoop
  <2>2. CASE s # {}
    <3>1. Max(s) \in 1..m BY <2>2, IndexSets
    <3>2. it[s \ {Max(s)}] \in Int BY <1>5
    <3>. QED BY <1>4, <1>5, <2>2, <3>1, <3>2 DEF IsLoop
  <2>. QED BY <2>1, <2>2
<1>7. Looped(it) BY <1>6 DEF Looped
<1>8. Cap(order) = (CHOOSE jt : Looped(jt))[DOMAIN order] BY DEF Looped, Cap, FoldLeft, MapThenFoldSet
<1>9. PICK jt : Looped(jt) /\ Cap(order) = jt[1..m] BY <1>7, <1>8, Zenon
<1> DEFINE h == [p \in (1..m) \X SUBSET (1..m) |-> Recap(jt[p[2]], order[p[1]])]
<1>10. \A i \in 1..m, s \in SUBSET (1..m) : h[<<i, s>>] = Recap(jt[s], order[i]) OBVIOUS
<1> HIDE DEF h
<1>11. ASSUME NEW s \in SUBSET (1..m)
       PROVE  jt[s] = IF s = {} THEN BaseCap ELSE h[<<Max(s), s \ {Max(s)}>>]
  <2>1. jt[s] = IF s = {} THEN BaseCap ELSE Recap(jt[s \ {Max(s)}], order[Max(s)]) BY <1>9 DEF Looped
  <2>2. s # {} => Max(s) \in 1..m /\ s \ {Max(s)} \in SUBSET (1..m) BY IndexSets
  <2>. QED BY <1>10, <2>1, <2>2
<1>12. Runs(jt, m, BaseCap, h) BY <1>11 DEF Runs
<1>13. PICK at : Ran(at, jt, m, BaseCap, h) BY <1>12, LoopRuns
<1>14. \A i \in 1..m : at[i] = Recap(at[i - 1], order[i]) BY <1>10, <1>13 DEF Ran
<1>. QED BY <1>9, <1>13, <1>14 DEF Ran

LEMMA CapsGranted == ASSUME EntInv PROVE CapIsGranted
<1>1. Live("limit") \in SUBSET Rows BY RowsInOrder
<1>2. BaseCap = IF PlanActive THEN PlanCap ELSE Unlimited BY DEF BaseCap
<1>3. ASSUME NEW order \in Orders("limit")
      PROVE  (Asked = {} => Cap(order) = BaseCap) /\ (Asked # {} => Cap(order) \in Asked)
  <2>1. PICK m \in Nat : /\ order \in [1..m -> Live("limit")]
                         /\ \A r \in Live("limit") : \E i \in 1..m : order[i] = r
    BY <1>3, RowsInOrder
  <2>2. order \in [1..m -> Rows] BY <1>1, <2>1
  <2>3. PICK at : /\ at[0] = BaseCap /\ at[m] = Cap(order)
                  /\ \A i \in 1..m : at[i] = Recap(at[i - 1], order[i])
    BY <2>2, CapLoop
  <2> DEFINE Seen(n) == \/ at[n] = BaseCap /\ \A i \in 1..n : ~AsksForCap(order[i])
                        \/ \E i \in 1..n : AsksForCap(order[i]) /\ at[n] = grants[order[i]].value
             P == {n \in 0..m : Seen(n)}
  <2>4. 0 \in P BY <2>3
  <2>5. ASSUME NEW i \in 1..m, i - 1 \in P PROVE i \in P
    <3>1. at[i] = Recap(at[i - 1], order[i]) /\ Seen(i - 1) BY <2>3, <2>5
    <3>2. CASE AsksForCap(order[i])
      <4>1. at[i] = grants[order[i]].value BY <3>1, <3>2 DEF Recap, AsksForCap
      <4>2. i \in 1..i OBVIOUS
      <4>. QED BY <3>2, <4>1, <4>2
    <3>3. CASE ~AsksForCap(order[i])
      <4>1. at[i] = at[i - 1] BY <3>1, <3>3 DEF Recap, AsksForCap
      <4>2. 1..i = (1..(i - 1)) \cup {i} OBVIOUS
      <4>. QED BY <3>1, <3>3, <4>1, <4>2
    <3>. QED BY <3>2, <3>3
  <2>6. m \in P
    <3> HIDE DEF P
    <3>. QED BY <2>4, <2>5, LoopInduction
  <2>7. Asked = {grants[r].value : r \in {q \in Live("limit") : AsksForCap(q)}} BY DEF Asked, AsksForCap
  <2>8. CASE at[m] = BaseCap /\ \A i \in 1..m : ~AsksForCap(order[i])
    <3>1. Asked = {} BY <2>1, <2>7, <2>8
    <3>. QED BY <2>3, <2>8, <3>1
  <2>9. CASE \E i \in 1..m : AsksForCap(order[i]) /\ at[m] = grants[order[i]].value
    <3>1. Cap(order) \in Asked BY <2>1, <2>3, <2>7, <2>9
    <3>. QED BY <3>1
  <2>. QED BY <2>6, <2>8, <2>9
<1>. QED BY <1>2, <1>3 DEF CapIsGranted

-----------------------------------------------------------------------------
(* The loop over the features.                                             *)
Ranked(r) == Priority(grants[r].source)
PlanDecides == IF PlanActive THEN <<0, TRUE>> ELSE <<-1, FALSE>>
Decision == Int \X BOOLEAN

LEMMA Priorities == ASSUME NEW source PROVE Priority(source) \in Nat
BY DEF Priority

LEMMA PlanAlone == PlanDecides \in Decision /\ PlanDecides[2] = PlanActive
<1>1. PlanActive \in BOOLEAN BY DEF PlanActive
<1>2. PICK b \in BOOLEAN : b = PlanActive BY <1>1
<1>3. PICK n \in Int : n = IF b THEN 0 ELSE -1 OBVIOUS
<1>4. PlanDecides = <<n, b>> BY <1>2, <1>3 DEF PlanDecides
<1>5. <<n, b>> \in Decision BY DEF Decision
<1>6. <<n, b>>[2] = b OBVIOUS
<1>. QED BY <1>2, <1>4, <1>5, <1>6

LEMMA OverlayTyped ==
    ASSUME EntInv, NEW d \in Decision, NEW r \in Rows
    PROVE  Overlay(d, r) \in Decision
<1>1. PICK g \in GrantRow : g = grants[r] BY RowsTyped
<1>2. g.enabled \in BOOLEAN BY DEF GrantRow
<1>3. PICK p \in Nat : p = Priority(g.source) BY Priorities
<1>4. <<p, g.enabled>> \in Decision BY <1>2 DEF Decision
<1>. QED BY <1>1, <1>3, <1>4 DEF Overlay

LEMMA FeatureLoop ==
    ASSUME EntInv, NEW m \in Nat, NEW order \in [1..m -> Rows]
    PROVE  \E at : /\ at[0] = PlanDecides /\ at[m][2] = FeatureOn(order)
                   /\ \A i \in 1..m : at[i] = Overlay(at[i - 1], order[i])
<1> DEFINE G == [p \in (1..m) \X Decision |-> Overlay(p[2], order[p[1]])]
           Looped(it) == it = [s \in SUBSET DOMAIN order |->
                                 IF s = {} THEN PlanDecides ELSE Overlay(it[s \ {Max(s)}], order[Max(s)])]
<1>1. PlanDecides \in Decision BY PlanAlone
<1>2. \A i \in 1..m, d \in Decision : Overlay(d, order[i]) \in Decision BY OverlayTyped
<1>3. G \in [(1..m) \X Decision -> Decision]
  <2>1. ASSUME NEW p \in (1..m) \X Decision PROVE Overlay(p[2], order[p[1]]) \in Decision
    <3>1. p[1] \in 1..m /\ p[2] \in Decision BY <2>1
    <3>. QED BY <1>2, <3>1
  <2>. QED BY <2>1
<1>4. \A i \in 1..m, d \in Decision : G[<<i, d>>] = Overlay(d, order[i]) OBVIOUS
<1> HIDE DEF G, Looped
<1>5. PICK it \in [SUBSET (1..m) -> Decision] : IsLoop(it, m, PlanDecides, G) BY <1>1, <1>3, LoopExists
<1>6. ASSUME NEW s \in SUBSET (1..m)
      PROVE  it[s] = IF s = {} THEN PlanDecides ELSE Overlay(it[s \ {Max(s)}], order[Max(s)])
  <2>1. CASE s = {} BY <1>5, <2>1 DEF IsLoop
  <2>2. CASE s # {}
    <3>1. Max(s) \in 1..m BY <2>2, IndexSets
    <3>2. it[s \ {Max(s)}] \in Decision BY <1>5
    <3>. QED BY <1>4, <1>5, <2>2, <3>1, <3>2 DEF IsLoop
  <2>. QED BY <2>1, <2>2
<1>7. Looped(it) BY <1>6 DEF Looped
<1>8. FeatureOn(order) = (CHOOSE jt : Looped(jt))[DOMAIN order][2]
  BY DEF Looped, FeatureOn, PlanDecides, FoldLeft, MapThenFoldSet
<1>9. PICK jt : Looped(jt) /\ FeatureOn(order) = jt[1..m][2] BY <1>7, <1>8, Zenon
<1> DEFINE h == [p \in (1..m) \X SUBSET (1..m) |-> Overlay(jt[p[2]], order[p[1]])]
<1>10. \A i \in 1..m, s \in SUBSET (1..m) : h[<<i, s>>] = Overlay(jt[s], order[i]) OBVIOUS
<1> HIDE DEF h
<1>11. ASSUME NEW s \in SUBSET (1..m)
       PROVE  jt[s] = IF s = {} THEN PlanDecides ELSE h[<<Max(s), s \ {Max(s)}>>]
  <2>1. jt[s] = IF s = {} THEN PlanDecides ELSE Overlay(jt[s \ {Max(s)}], order[Max(s)]) BY <1>9 DEF Looped
  <2>2. s # {} => Max(s) \in 1..m /\ s \ {Max(s)} \in SUBSET (1..m) BY IndexSets
  <2>. QED BY <1>10, <2>1, <2>2
<1>12. Runs(jt, m, PlanDecides, h) BY <1>11 DEF Runs
<1>13. PICK at : Ran(at, jt, m, PlanDecides, h) BY <1>12, LoopRuns
<1>14. \A i \in 1..m : at[i] = Overlay(at[i - 1], order[i]) BY <1>10, <1>13 DEF Ran
<1>. QED BY <1>9, <1>13, <1>14 DEF Ran

\* After the loop the plan has decided, or the strongest of the rows.
LEMMA FeatureDecided ==
    ASSUME EntInv, NEW m \in Nat, NEW order \in [1..m -> Rows]
    PROVE  \/ /\ FeatureOn(order) = PlanActive
              /\ \A i \in 1..m : Ranked(order[i]) <= (IF PlanActive THEN 0 ELSE -1)
           \/ \E j \in 1..m : /\ FeatureOn(order) = grants[order[j]].enabled
                              /\ Ranked(order[j]) > (IF PlanActive THEN 0 ELSE -1)
                              /\ \A i \in 1..m : Ranked(order[i]) <= Ranked(order[j])
<1>1. PICK at : /\ at[0] = PlanDecides /\ at[m][2] = FeatureOn(order)
                /\ \A i \in 1..m : at[i] = Overlay(at[i - 1], order[i])
  BY FeatureLoop
<1>2. PICK p0 \in Int : p0 = IF PlanActive THEN 0 ELSE -1 OBVIOUS
<1> DEFINE ByPlan(n) == /\ at[n] = PlanDecides /\ \A i \in 1..n : Ranked(order[i]) <= p0
           ByRow(n, j) == /\ at[n] = <<Ranked(order[j]), grants[order[j]].enabled>> /\ Ranked(order[j]) > p0
                          /\ \A i \in 1..n : Ranked(order[i]) <= Ranked(order[j])
           P == {n \in 0..m : ByPlan(n) \/ \E j \in 1..n : ByRow(n, j)}
<1>3. 0 \in P BY <1>1
<1>4. ASSUME NEW i \in 1..m, i - 1 \in P PROVE i \in P
  <2>1. PICK q \in Nat : q = Ranked(order[i]) BY Priorities DEF Ranked
  <2>2. at[i] = IF q > at[i - 1][1] THEN <<q, grants[order[i]].enabled>> ELSE at[i - 1]
    BY <1>1, <2>1 DEF Overlay, Ranked
  <2>3. i \in 0..m /\ i \in 1..i /\ (\A k \in 1..(i - 1) : k \in 1..i) /\ (\A k \in 1..i : k \in 1..(i - 1) \/ k = i)
    OBVIOUS
  <2>4. CASE ByPlan(i - 1)
    <3>1. at[i - 1][1] = p0 BY <1>2, <2>4 DEF PlanDecides
    <3>2. CASE q > p0
      <4>1. at[i] = <<q, grants[order[i]].enabled>> BY <2>2, <3>1, <3>2
      <4>2. \A k \in 1..i : Ranked(order[k]) <= q
        <5>1. ASSUME NEW k \in 1..(i - 1) PROVE Ranked(order[k]) <= q
          <6>1. PICK x \in Nat : x = Ranked(order[k]) BY Priorities DEF Ranked
          <6>2. x <= p0 BY <2>4, <6>1
          <6>. QED BY <3>2, <6>1, <6>2
        <5>. QED BY <2>1, <2>3, <5>1
      <4>3. ByRow(i, i) BY <2>1, <3>2, <4>1, <4>2
      <4>. QED BY <2>3, <4>3
    <3>3. CASE ~(q > p0)
      <4>1. at[i] = PlanDecides BY <2>2, <2>4, <3>1, <3>3
      <4>2. \A k \in 1..i : Ranked(order[k]) <= p0 BY <2>1, <2>3, <2>4, <3>3
      <4>. QED BY <2>3, <4>1, <4>2
    <3>. QED BY <3>2, <3>3
  <2>5. ASSUME NEW j \in 1..(i - 1), ByRow(i - 1, j) PROVE i \in P
    <3>1. PICK x \in Nat : x = Ranked(order[j]) BY Priorities DEF Ranked
    <3>2. at[i - 1][1] = x /\ x > p0 BY <2>5, <3>1
    <3>3. CASE q > x
      <4>1. at[i] = <<q, grants[order[i]].enabled>> /\ q > p0 BY <2>2, <3>2, <3>3
      <4>2. \A k \in 1..i : Ranked(order[k]) <= q
        <5>1. ASSUME NEW k \in 1..(i - 1) PROVE Ranked(order[k]) <= q
          <6>1. PICK y \in Nat : y = Ranked(order[k]) BY Priorities DEF Ranked
          <6>2. y <= x BY <2>5, <3>1, <6>1
          <6>. QED BY <3>3, <6>1, <6>2
        <5>. QED BY <2>1, <2>3, <5>1
      <4>3. ByRow(i, i) BY <2>1, <4>1, <4>2
      <4>. QED BY <2>3, <4>3
    <3>4. CASE ~(q > x)
      <4>1. at[i] = at[i - 1] BY <2>2, <3>2, <3>4
      <4>2. \A k \in 1..i : Ranked(order[k]) <= Ranked(order[j]) BY <2>1, <2>3, <2>5, <3>1, <3>4
      <4>3. ByRow(i, j) /\ j \in 1..i BY <2>5, <4>1, <4>2
      <4>. QED BY <2>3, <4>3
    <3>. QED BY <3>3, <3>4
  <2>. QED BY <1>4, <2>4, <2>5
<1>5. m \in P
  <2> HIDE DEF P
  <2>. QED BY <1>3, <1>4, LoopInduction
<1>6. CASE ByPlan(m)
  <2>1. FeatureOn(order) = PlanActive BY <1>1, <1>6, PlanAlone
  <2>. QED BY <1>2, <1>6, <2>1
<1>7. ASSUME NEW j \in 1..m, ByRow(m, j)
      PROVE  /\ FeatureOn(order) = grants[order[j]].enabled /\ Ranked(order[j]) > (IF PlanActive THEN 0 ELSE -1)
             /\ \A i \in 1..m : Ranked(order[i]) <= Ranked(order[j])
  BY <1>1, <1>2, <1>7
<1>. QED BY <1>5, <1>6, <1>7

LEMMA StrongestGrantDecides == ASSUME EntInv PROVE StrongestDecides
<1> DEFINE S == Strongest(Live("feature"))
<1>. SUFFICES ASSUME \A q, r \in S : grants[q].enabled = grants[r].enabled, NEW order \in Orders("feature")
              PROVE  FeatureOn(order) = IF S = {} \/ (PlanActive /\ \A r \in S : Priority(grants[r].source) = 0)
                                        THEN PlanActive ELSE \E r \in S : grants[r].enabled
  BY DEF StrongestDecides
<1>1. PICK m \in Nat : /\ order \in [1..m -> Live("feature")]
                       /\ \A r \in Live("feature") : \E i \in 1..m : order[i] = r
  BY RowsInOrder
<1>2. Live("feature") \in SUBSET Rows BY RowsInOrder
<1>3. order \in [1..m -> Rows] BY <1>1, <1>2
<1>4. S = {r \in Live("feature") : \A q \in Live("feature") : Ranked(q) <= Ranked(r)} BY DEF Strongest, Ranked
<1>5. \A r : Ranked(r) \in Nat BY Priorities DEF Ranked
<1> HIDE DEF S
<1>6. CASE /\ FeatureOn(order) = PlanActive
           /\ \A i \in 1..m : Ranked(order[i]) <= (IF PlanActive THEN 0 ELSE -1)
  <2>1. \A r \in Live("feature") : Ranked(r) <= (IF PlanActive THEN 0 ELSE -1) BY <1>1, <1>6
  <2>2. CASE PlanActive
    <3>1. \A r \in S : Ranked(r) = 0 BY <1>4, <1>5, <2>1, <2>2
    <3>. QED BY <1>6, <2>2, <3>1 DEF Ranked
  <2>3. CASE ~PlanActive
    <3>1. Live("feature") = {} BY <1>5, <2>1, <2>3
    <3>2. S = {} BY <1>4, <3>1
    <3>. QED BY <1>6, <3>2
  <2>. QED BY <2>2, <2>3
<1>7. ASSUME NEW j \in 1..m, FeatureOn(order) = grants[order[j]].enabled,
             Ranked(order[j]) > (IF PlanActive THEN 0 ELSE -1),
             \A i \in 1..m : Ranked(order[i]) <= Ranked(order[j])
      PROVE  FeatureOn(order) = IF S = {} \/ (PlanActive /\ \A r \in S : Priority(grants[r].source) = 0)
                                THEN PlanActive ELSE \E r \in S : grants[r].enabled
  <2>1. order[j] \in Live("feature") /\ \A q \in Live("feature") : Ranked(q) <= Ranked(order[j]) BY <1>1, <1>7
  <2>2. order[j] \in S BY <1>4, <2>1
  <2>3. PlanActive => Ranked(order[j]) # 0 BY <1>5, <1>7
  <2>4. grants[order[j]].enabled \in BOOLEAN
    <3>1. PICK g \in GrantRow : g = grants[order[j]] BY <1>3, RowsTyped
    <3>. QED BY <3>1 DEF GrantRow
  <2>5. (\E r \in S : grants[r].enabled) = grants[order[j]].enabled
    <3>1. CASE grants[order[j]].enabled BY <2>2, <3>1
    <3>2. CASE ~grants[order[j]].enabled
      <4>1. \A r \in S : ~grants[r].enabled BY <2>2, <3>2
      <4>. QED BY <2>4, <3>2, <4>1
    <3>. QED BY <3>1, <3>2
  <2>6. ~(S = {} \/ (PlanActive /\ \A r \in S : Priority(grants[r].source) = 0)) BY <2>2, <2>3 DEF Ranked
  <2>. QED BY <1>7, <2>5, <2>6
<1>. QED BY <1>3, <1>6, <1>7, FeatureDecided

-----------------------------------------------------------------------------
(***************************************************************************)
(* Proration.  Rounding errs by half a unit; a change of the plan errs by  *)
(* half a cent and by what half a unit of the fraction is worth.           *)
(***************************************************************************)
LEMMA Rounded ==
    ASSUME NEW n \in Nat, NEW d \in Nat \ {0}
    PROVE  /\ HalfEven(n, d) \in Nat
           /\ 2 * (HalfEven(n, d) * d) <= 2 * n + d /\ 2 * n <= 2 * (HalfEven(n, d) * d) + d
<1>1. PICK q \in Nat, r \in 0..(d - 1) : q = n \div d /\ r = n % d OBVIOUS
<1>2. n = d * q + r BY <1>1
<1>3. PICK k \in Nat : k = d * q OBVIOUS
<1>4. q * d = k /\ (q + 1) * d = k + d BY <1>3
<1>5. HalfEven(n, d) = IF 2 * r > d \/ (2 * r = d /\ q % 2 = 1) THEN q + 1 ELSE q BY <1>1 DEF HalfEven
<1>6. CASE HalfEven(n, d) = q + 1 /\ 2 * r >= d
  <2>1. 2 * (k + d) <= 2 * (k + r) + d /\ 2 * (k + r) <= 2 * (k + d) + d BY <1>1, <1>6
  <2>. QED BY <1>2, <1>3, <1>4, <1>6, <2>1
<1>7. CASE HalfEven(n, d) = q /\ 2 * r <= d
  <2>1. 2 * k <= 2 * (k + r) + d /\ 2 * (k + r) <= 2 * k + d BY <1>1, <1>7
  <2>. QED BY <1>2, <1>3, <1>4, <1>7, <2>1
<1>8. 2 * r > d \/ 2 * r = d \/ 2 * r < d BY <1>1
<1>9. 2 * r > d \/ 2 * r = d => 2 * r >= d BY <1>1
<1>. QED BY <1>5, <1>6, <1>7, <1>8, <1>9

LEMMA ProductGrows ==
    ASSUME NEW a \in Int, NEW b \in Int, NEW c \in Nat, a <= b
    PROVE  c * a <= c * b /\ a * c <= b * c
OBVIOUS

\* e is at most h away from zero.
Near(e, h) == e <= h /\ -h <= e

LEMMA NearWidens ==
    ASSUME NEW e \in Int, NEW g \in Int, NEW h \in Int, Near(e, g), g <= h
    PROVE  Near(e, h)
BY DEF Near

LEMMA RoundedUp ==
    ASSUME NEW n \in Int, NEW d \in Nat \ {0}
    PROVE  HalfUp(n, d) \in Int /\ Near(2 * (HalfUp(n, d) * d - n), d)
<1>1. PICK m \in Nat : m = Magnitude(n) BY DEF Magnitude
<1>2. PICK q \in Nat : q = (2 * m + d) \div (2 * d) OBVIOUS
<1>3. (2 * d) * q <= 2 * m + d /\ 2 * m + d < (2 * d) * q + 2 * d
  <2>1. PICK a \in Nat, b \in Nat \ {0} : a = 2 * m + d /\ b = 2 * d OBVIOUS
  <2>2. q = a \div b BY <1>2, <2>1
  <2>3. b * q <= a /\ a < b * q + b BY <2>2
  <2>. QED BY <2>1, <2>3
<1>4. PICK k \in Nat : k = q * d OBVIOUS
<1>5. (2 * d) * q = 2 * k BY <1>4
<1>6. 2 * k <= 2 * m + d /\ 2 * m + d < 2 * k + 2 * d BY <1>3, <1>5
<1>7. HalfUp(n, d) = IF n < 0 THEN -q ELSE q BY <1>1, <1>2 DEF HalfUp
<1>8. CASE n < 0
  <2>1. m = -n /\ HalfUp(n, d) = -q BY <1>1, <1>7, <1>8 DEF Magnitude
  <2>2. (-q) * d = -k BY <1>4
  <2>3. Near(2 * (-k - n), d) BY <1>6, <2>1 DEF Near
  <2>. QED BY <2>1, <2>2, <2>3
<1>9. CASE ~(n < 0)
  <2>1. m = n /\ HalfUp(n, d) = q BY <1>1, <1>7, <1>9 DEF Magnitude
  <2>2. Near(2 * (k - n), d) BY <1>6, <2>1 DEF Near
  <2>. QED BY <1>4, <2>1, <2>2
<1>. QED BY <1>8, <1>9

\* One change of the plan: x of the P seconds passed, e is the fraction that passed, in
\* units of 1/q, and a the correction, in cents.
LEMMA ChangeErrs ==
    ASSUME NEW P \in Nat, NEW q \in Nat, NEW top \in Nat, NEW x \in Nat, NEW e \in Int, NEW a \in Int,
           NEW d \in Int, -top <= d, d <= top,
           Near(2 * (a * q - d * e), q), Near(2 * (e * P - x * q), P)
    PROVE  Near(2 * (q * (a * P - d * x)), P * (q + top))
<1>1. PICK u \in Int : u = a * q - d * e OBVIOUS
<1>2. PICK v \in Int : v = e * P - x * q OBVIOUS
<1>3. q * (a * P - d * x) = u * P + d * v
  <2>1. u * P = (a * q) * P - (d * e) * P BY <1>1
  <2>2. d * v = d * (e * P) - d * (x * q) BY <1>2
  <2>3. (d * e) * P = d * (e * P) OBVIOUS
  <2>4. q * (a * P - d * x) = q * (a * P) - q * (d * x) OBVIOUS
  <2>5. q * (a * P) = (a * q) * P /\ q * (d * x) = d * (x * q) OBVIOUS
  <2>. QED BY <2>1, <2>2, <2>3, <2>4, <2>5
<1>4. Near(2 * (u * P), P * q)
  <2>1. -q <= 2 * u /\ 2 * u <= q BY <1>1 DEF Near
  <2>2. (2 * u) * P <= q * P /\ (-q) * P <= (2 * u) * P BY <2>1, ProductGrows
  <2>. QED BY <2>2 DEF Near
<1>5. Near(2 * (d * v), P * top)
  <2>1. -P <= 2 * v /\ 2 * v <= P BY <1>2 DEF Near
  <2>2. ASSUME NEW g \in Nat, g <= top, NEW w \in Int, -P <= w, w <= P PROVE Near(g * w, P * top)
    <3>1. g * w <= g * P /\ g * (-P) <= g * w BY <2>2, ProductGrows
    <3>2. g * P <= top * P BY <2>2, ProductGrows
    <3>. QED BY <3>1, <3>2 DEF Near
  <2>3. CASE d >= 0
    <3>1. PICK w \in Int : w = 2 * v OBVIOUS
    <3>2. Near(d * w, P * top) BY <2>1, <2>2, <2>3, <3>1
    <3>3. d * w = 2 * (d * v) BY <3>1
    <3>. QED BY <3>2, <3>3
  <2>4. CASE d < 0
    <3>1. PICK g \in Nat : g = -d BY <2>4
    <3>2. PICK w \in Int : w = -(2 * v) OBVIOUS
    <3>3. g <= top /\ -P <= w /\ w <= P BY <2>1, <3>1, <3>2
    <3>4. Near(g * w, P * top) BY <2>2, <3>3
    <3>5. g * w = 2 * (d * v) BY <3>1, <3>2
    <3>. QED BY <3>4, <3>5
  <2>. QED BY <2>3, <2>4
<1>6. PICK y \in Int, z \in Int, h \in Int, k \in Int : y = u * P /\ z = d * v /\ h = P * q /\ k = P * top
  OBVIOUS
<1>7. P * (q + top) = h + k BY <1>6
<1>8. Near(2 * (y + z), h + k) BY <1>4, <1>5, <1>6 DEF Near
<1>. QED BY <1>3, <1>6, <1>7, <1>8

ErrorPerChange == PeriodLength * (Quantum + HighestPrice)
Error == 2 * (Quantum * (Ours - worth))

MoneyInv ==
    /\ second \in Nat /\ since \in Nat /\ since <= second /\ price \in PriceList
    /\ pending \in Int /\ billed \in Int /\ worth \in Int /\ switches \in Nat /\ skipped \in BOOLEAN
    /\ ~skipped => Near(Error, switches * ErrorPerChange)

LEMMA PricesAre ==
    /\ PriceList \subseteq Nat /\ PeriodLength \in Nat \ {0} /\ Quantum \in Nat \ {0}
    /\ HighestPrice \in Nat /\ \A p \in PriceList : p <= HighestPrice
    /\ ErrorPerChange \in Nat
<1>1. HighestPrice \in PriceList /\ \A p \in PriceList : p <= HighestPrice
  BY ProrationAssumption, Zenon DEF HighestPrice
<1>2. PriceList \subseteq Nat /\ PeriodLength \in Nat \ {0} /\ Quantum \in Nat \ {0} BY ProrationAssumption
<1>3. PICK h \in Nat : h = HighestPrice BY <1>1, <1>2
<1>4. PeriodLength * (Quantum + h) \in Nat BY <1>2
<1>. QED BY <1>1, <1>2, <1>3, <1>4 DEF ErrorPerChange

LEMMA MoneyInitially == MoneyInit => MoneyInv
<1>. SUFFICES ASSUME MoneyInit PROVE MoneyInv OBVIOUS
<1>1. price \in Nat /\ PeriodLength \in Nat /\ Quantum \in Nat BY PricesAre DEF MoneyInit
<1>2. Ours = 0 BY <1>1 DEF MoneyInit, Ours
<1>3. Error = 0 /\ switches * ErrorPerChange = 0 BY <1>1, <1>2, PricesAre DEF Error, MoneyInit
<1>4. Near(0, 0) BY DEF Near
<1>5. Near(Error, switches * ErrorPerChange) BY <1>3, <1>4
<1>6. /\ second \in Nat /\ since \in Nat /\ since <= second /\ price \in PriceList
      /\ pending \in Int /\ billed \in Int /\ worth \in Int /\ switches \in Nat
  BY DEF MoneyInit
<1>7. skipped \in BOOLEAN BY DEF MoneyInit
<1>. QED BY <1>5, <1>6, <1>7 DEF MoneyInv

\* A step that changes what we made and what was used by the same amount.
LEMMA SameError ==
    ASSUME MoneyInv, second' \in Nat, since' \in Nat, since' <= second', price' \in PriceList,
           pending' \in Int, billed' \in Int, worth' \in Int, skipped' \in BOOLEAN, skipped => skipped',
           switches' \in Nat, switches <= switches', ~skipped' => Ours' - worth' = Ours - worth
    PROVE  MoneyInv'
<1>1. CASE skipped' BY <1>1 DEF MoneyInv
<1>2. CASE ~skipped'
  <2>1. Near(Error, switches * ErrorPerChange) /\ Error' = Error BY <1>2 DEF MoneyInv, Error
  <2>2. PICK c \in Nat : c = ErrorPerChange BY PricesAre
  <2>3. switches * c <= switches' * c
    <3>1. switches \in Int /\ switches' \in Int BY DEF MoneyInv
    <3>. QED BY <3>1, <2>2, ProductGrows
  <2>4. ErrorPerChange' = c BY <2>2 DEF ErrorPerChange, HighestPrice
  <2>5. Error \in Int
    <3>1. Ours - worth \in Int
      <4>1. price \in Int /\ PeriodLength \in Int BY PricesAre DEF MoneyInv
      <4>2. Ours \in Int BY <4>1 DEF MoneyInv, Ours
      <4>. QED BY <4>2 DEF MoneyInv
    <3>. QED BY <3>1, PricesAre DEF Error
  <2>6. switches * c \in Int /\ switches' * c \in Int BY <2>2 DEF MoneyInv
  <2>7. Near(Error, switches' * c) BY <2>1, <2>2, <2>3, <2>5, <2>6, NearWidens
  <2>8. Near(Error', switches' * ErrorPerChange') BY <2>1, <2>4, <2>7
  <2>. QED BY <2>8 DEF MoneyInv, Near
<1>. QED BY <1>1, <1>2

LEMMA SecondStep ==
    ASSUME MoneyInv, SecondPasses
    PROVE  MoneyInv'
<1>1. /\ second' = second + 1 /\ worth' = worth + price /\ UNCHANGED <<since, price, pending, billed, switches, skipped>>
  BY DEF SecondPasses
<1>2. price \in Int /\ PeriodLength \in Int BY PricesAre DEF MoneyInv
<1>3. Ours' - worth' = Ours - worth
  <2>1. PICK x \in Int, b \in Int : x = second - since /\ b = (billed + pending) * PeriodLength BY <1>2 DEF MoneyInv
  <2>2. second' - since' = x + 1 BY <1>1, <2>1 DEF MoneyInv
  <2>3. price * (x + 1) = price * x + price BY <1>2
  <2>4. Ours = b + price * x /\ Ours' = b + price * (x + 1) BY <1>1, <2>1, <2>2 DEF Ours
  <2>5. price * x \in Int BY <1>2
  <2>. QED BY <1>1, <1>2, <2>3, <2>4, <2>5 DEF MoneyInv
<1>4. second' \in Nat /\ since' \in Nat /\ since' <= second' /\ worth' \in Int BY <1>1, <1>2 DEF MoneyInv
<1>5. skipped' \in BOOLEAN /\ (skipped => skipped') BY <1>1 DEF MoneyInv
<1>. QED BY <1>1, <1>3, <1>4, <1>5, SameError DEF MoneyInv

LEMMA RenewStep ==
    ASSUME MoneyInv, RenewPeriod
    PROVE  MoneyInv'
<1>1. /\ ~PeriodIsLive /\ since' = since + PeriodLength
      /\ billed' = billed + (IF price + pending > 0 THEN price + pending ELSE 0)
      /\ pending' = IF price + pending > 0 THEN 0 ELSE price + pending
      /\ UNCHANGED <<second, price, switches, worth, skipped>>
  BY DEF RenewPeriod
<1>2. price \in Int /\ PeriodLength \in Nat BY PricesAre DEF MoneyInv
<1>3. billed' \in Int /\ pending' \in Int /\ billed' + pending' = billed + pending + price
  BY <1>1, <1>2 DEF MoneyInv
<1>4. since' \in Nat /\ since' <= second' BY <1>1, <1>2 DEF MoneyInv, PeriodIsLive
<1>5. Ours' = Ours
  <2>1. PICK x \in Int, b \in Int : x = second - since /\ b = billed + pending BY DEF MoneyInv
  <2>2. second' - since' = x - PeriodLength BY <1>1, <1>2, <2>1 DEF MoneyInv
  <2>3. (b + price) * PeriodLength = b * PeriodLength + price * PeriodLength BY <1>2
  <2>4. price * (x - PeriodLength) = price * x - price * PeriodLength BY <1>2
  <2>5. billed' + pending' = b + price BY <1>3, <2>1
  <2>6. Ours = b * PeriodLength + price * x BY <2>1 DEF Ours
  <2>7. Ours' = (b + price) * PeriodLength + price * (x - PeriodLength) BY <1>1, <2>2, <2>5 DEF Ours
  <2>8. b * PeriodLength \in Int /\ price * PeriodLength \in Int /\ price * x \in Int BY <1>2
  <2>. QED BY <2>3, <2>4, <2>6, <2>7, <2>8
<1>6. skipped' \in BOOLEAN /\ (skipped => skipped') BY <1>1 DEF MoneyInv
<1>. QED BY <1>1, <1>3, <1>4, <1>5, <1>6, SameError DEF MoneyInv

\* A change in a live period is corrected; one that starts a period has nothing to correct.
LEMMA SwitchStep ==
    ASSUME MoneyInv, NEW p \in PriceList, SwitchPlan(p)
    PROVE  MoneyInv'
<1>1. /\ switches' = switches + 1 /\ price' = p /\ UNCHANGED <<second, billed, worth>>
      /\ IF KeepsPeriod THEN pending' = pending + ArrearsAdjustment(price, p) /\ UNCHANGED since
                        ELSE since' = second /\ UNCHANGED pending
      /\ skipped' = (skipped \/ (price > 0 /\ ~PeriodIsLive))
  BY DEF SwitchPlan
<1>2. PICK P \in Nat, q \in Nat \ {0}, top \in Nat, o \in Nat :
        P = PeriodLength /\ q = Quantum /\ top = HighestPrice /\ o = price
  BY PricesAre DEF MoneyInv
<1>3. P # 0 /\ o <= top /\ p \in Nat /\ p <= top BY <1>2, PricesAre DEF MoneyInv
<1>4. switches' \in Nat /\ skipped' \in BOOLEAN /\ (skipped => skipped') BY <1>1 DEF MoneyInv
<1>5. CASE ~KeepsPeriod
  <2>1. since' = second /\ pending' = pending BY <1>1, <1>5
  <2>2. ~skipped' => price = 0
    <3>1. CASE price > 0
      <4>1. ~PeriodIsLive BY <1>5, <3>1 DEF KeepsPeriod
      <4>. QED BY <1>1, <3>1, <4>1
    <3>2. CASE ~(price > 0)
      <4>1. price = 0 BY <1>2, <3>2
      <4>. QED BY <4>1
    <3>. QED BY <3>1, <3>2
  <2>3. ~skipped' => Ours' - worth' = Ours - worth
    <3>1. second' - since' = 0 /\ p * 0 = 0 BY <1>1, <1>3, <2>1 DEF MoneyInv
    <3>2. 0 * (second - since) = 0 BY DEF MoneyInv
    <3>3. PICK b : b = (billed + pending) * PeriodLength OBVIOUS
    <3>4. Ours' = b + 0 BY <1>1, <2>1, <3>1, <3>3 DEF Ours
    <3>5. price = 0 => Ours = b + 0 BY <3>2, <3>3 DEF Ours
    <3>. QED BY <1>1, <2>2, <3>4, <3>5
  <2>4. second' \in Nat /\ since' \in Nat /\ since' <= second' /\ switches <= switches' BY <1>1, <2>1 DEF MoneyInv
  <2>. QED BY <1>1, <1>4, <2>1, <2>3, <2>4, SameError DEF MoneyInv
<1>6. CASE KeepsPeriod
  <2>1. PICK x \in Nat : x = second - since /\ x < P BY <1>2, <1>6 DEF MoneyInv, KeepsPeriod, PeriodIsLive
  <2>2. PICK f \in Nat : f = HalfEven((P - x) * q, P) /\ Near(2 * (f * P - (P - x) * q), P)
    <3>1. PICK n \in Nat : n = (P - x) * q BY <1>2, <2>1
    <3>2. PICK f \in Nat : f = HalfEven(n, P) /\ 2 * (f * P) <= 2 * n + P /\ 2 * n <= 2 * (f * P) + P
      BY <1>3, Rounded
    <3>3. PICK k \in Nat : k = f * P OBVIOUS
    <3>4. Near(2 * (k - n), P) BY <3>2, <3>3 DEF Near
    <3>. QED BY <3>1, <3>2, <3>3, <3>4
  <2>3. FractionRemaining = f
    <3>1. since + PeriodLength - second = P - x /\ Clamp(P - x, 0, P) = P - x
      BY <1>2, <2>1 DEF MoneyInv, Clamp
    <3>. QED BY <1>2, <2>2, <3>1 DEF FractionRemaining
  <2>4. PICK e \in Int : e = q - f OBVIOUS
  <2>5. Near(2 * (e * P - x * q), P)
    <3>1. e * P = q * P - f * P BY <2>4
    <3>2. (P - x) * q = q * P - x * q BY <2>1
    <3>3. PICK u \in Int, k \in Int, l \in Int : u = q * P /\ k = f * P /\ l = x * q OBVIOUS
    <3>4. Near(2 * (k - (u - l)), P) BY <2>2, <3>2, <3>3
    <3>5. Near(2 * ((u - k) - l), P) BY <3>4 DEF Near
    <3>. QED BY <3>1, <3>3, <3>5
  <2>6. PICK d \in Int : d = o - p BY <1>3
  <2>7. -top <= d /\ d <= top BY <1>3, <2>6
  <2>8. PICK a \in Int : a = ArrearsAdjustment(price, p) /\ Near(2 * (a * q - d * e), q)
    <3>1. PICK n \in Int : n = d * e OBVIOUS
    <3>2. ArrearsAdjustment(price, p) = HalfUp(n, q) BY <1>2, <2>3, <2>4, <2>6, <3>1 DEF ArrearsAdjustment, Cents
    <3>. QED BY <3>1, <3>2, RoundedUp
  <2>9. Near(2 * (q * (a * P - d * x)), P * (q + top)) BY <2>5, <2>7, <2>8, ChangeErrs
  <2>10. pending' = pending + a /\ since' = since /\ (skipped' => skipped) BY <1>1, <1>6, <2>8 DEF KeepsPeriod, MoneyInv
  <2>11. PICK g \in Int : g = Ours - worth
    <3>1. Ours \in Int BY <1>2 DEF Ours, MoneyInv
    <3>. QED BY <3>1 DEF MoneyInv
  <2>12. Ours' - worth' = g + (a * P - d * x)
    <3>1. PICK b \in Int, w \in Int : b = billed + pending /\ w = worth BY DEF MoneyInv
    <3>2. Ours = b * P + o * x BY <1>2, <2>1, <3>1 DEF Ours
    <3>3. billed' + pending' = b + a BY <1>1, <2>10, <3>1 DEF MoneyInv
    <3>4. Ours' = (b + a) * P + p * x BY <1>1, <1>2, <2>1, <2>10, <3>3 DEF Ours
    <3>5. (b + a) * P = b * P + a * P OBVIOUS
    <3>6. d * x = o * x - p * x BY <1>3, <2>6
    <3>7. b * P \in Int /\ a * P \in Int /\ o * x \in Int /\ p * x \in Int BY <1>3
    <3>. QED BY <1>1, <2>11, <3>1, <3>2, <3>4, <3>5, <3>6, <3>7
  <2>13. PICK c \in Int : c = P * (q + top) OBVIOUS
  <2>14. ErrorPerChange = c /\ ErrorPerChange' = c BY <1>2, <2>13 DEF ErrorPerChange
  <2>15. PICK s \in Nat : s = switches BY DEF MoneyInv
  <2>16. ~skipped' => Near(Error', switches' * ErrorPerChange')
    <3>1. SUFFICES ASSUME ~skipped PROVE Near(Error', (s + 1) * c) BY <1>1, <1>4, <2>14, <2>15
    <3>2. Near(2 * (q * g), s * c) BY <1>2, <2>11, <2>14, <2>15, <3>1 DEF MoneyInv, Error
    <3>3. Error' = 2 * (q * (g + (a * P - d * x))) BY <1>2, <2>12 DEF Error
    <3>4. PICK h \in Int : h = a * P - d * x OBVIOUS
    <3>5. PICK y \in Int, z \in Int, t \in Int : y = q * g /\ z = q * h /\ t = s * c OBVIOUS
    <3>6. q * (g + h) = y + z /\ (s + 1) * c = t + c BY <3>5
    <3>7. Near(2 * y, t) /\ Near(2 * z, c) BY <2>9, <2>13, <3>2, <3>4, <3>5
    <3>8. Near(2 * (y + z), t + c) BY <3>7 DEF Near
    <3>. QED BY <3>3, <3>4, <3>6, <3>8
  <2>17. pending' \in Int /\ since' \in Nat /\ since' <= second' BY <1>1, <2>10 DEF MoneyInv
  <2>. QED BY <1>1, <1>4, <2>16, <2>17 DEF MoneyInv, Near
<1>. QED BY <1>5, <1>6

LEMMA MoneyStep ==
    ASSUME MoneyInv, MoneyNext \/ UNCHANGED moneyVars
    PROVE  MoneyInv'
<1>1. CASE UNCHANGED moneyVars
  <2>1. Ours' - worth' = Ours - worth BY <1>1 DEF moneyVars, Ours
  <2>2. /\ second' = second /\ since' = since /\ price' = price /\ pending' = pending /\ billed' = billed
        /\ switches' = switches /\ worth' = worth /\ skipped' = skipped
    BY <1>1 DEF moneyVars
  <2>3. switches <= switches' BY <2>2 DEF MoneyInv
  <2>. QED BY <2>1, <2>2, <2>3, SameError DEF MoneyInv
<1>. QED BY <1>1, SecondStep, RenewStep, SwitchStep DEF MoneyNext

LEMMA MoneyInvExact == MoneyInv => MoneyExact
<1>. SUFFICES ASSUME MoneyInv, ~skipped
              PROVE  2 * Quantum * Magnitude(Ours - worth) <= switches * (PeriodLength * (Quantum + HighestPrice))
  BY DEF MoneyExact
<1>1. PICK g \in Int : g = Ours - worth
  <2>1. price \in Int /\ PeriodLength \in Int BY PricesAre DEF MoneyInv
  <2>2. Ours \in Int BY <2>1 DEF Ours, MoneyInv
  <2>. QED BY <2>2 DEF MoneyInv
<1>2. PICK q \in Nat : q = Quantum BY PricesAre
<1>3. PICK b \in Int : b = switches * (PeriodLength * (Quantum + HighestPrice)) BY PricesAre DEF MoneyInv, ErrorPerChange
<1>4. Near(2 * (q * g), b) BY <1>1, <1>2, <1>3 DEF MoneyInv, Error, ErrorPerChange
<1>5. 2 * q * Magnitude(g) = (IF g < 0 THEN -(2 * (q * g)) ELSE 2 * (q * g))
  <2>1. CASE g < 0
    <3>1. Magnitude(g) = -g BY <2>1 DEF Magnitude
    <3>2. 2 * q * (-g) = -(2 * (q * g)) OBVIOUS
    <3>. QED BY <2>1, <3>1, <3>2
  <2>2. CASE ~(g < 0)
    <3>1. Magnitude(g) = g BY <2>2 DEF Magnitude
    <3>2. 2 * q * g = 2 * (q * g) OBVIOUS
    <3>. QED BY <2>2, <3>1, <3>2
  <2>. QED BY <2>1, <2>2
<1>6. 2 * q * Magnitude(g) <= b
  <2>1. PICK y \in Int : y = 2 * (q * g) OBVIOUS
  <2>. QED BY <1>4, <1>5, <2>1 DEF Near
<1>. QED BY <1>1, <1>2, <1>3, <1>6

-----------------------------------------------------------------------------
(***************************************************************************)
(* Notifications.  A mail that is composed has witnessed whose turn it is  *)
(* now, and what it read of the chain was right when it read it; of the    *)
(* invoice's events, desks and mails that are not about a payment there is *)
(* one at most; a payment's event is queued, on a desk, posted or excused. *)
(***************************************************************************)
Kinds == {"invoice", "warning", "direct"}
Texts == {"none", "billing", "en", "customer", "owner", "address"}
Mail == [at : {"org", "customer", "send"}, kind : Kinds, status : {"none", "open", "paid", "void"},
         org : [SettingKeys -> Texts], absent : BOOLEAN, to : Texts, eligible : SUBSET Texts]

MailTypes ==
    /\ transport \in {"noop", "smtp"} /\ invoice \in {"open", "paid", "void"}
    /\ hosted \in BOOLEAN /\ known \in BOOLEAN /\ (hosted => known)
    /\ settings \in [SettingKeys -> Texts]
    /\ queued \in Seq(Kinds) /\ posted \in Seq(Mail) /\ desk \in [Mailers -> Mail \cup {Free}]
    /\ events \in Nat /\ excused \in Nat

\* The recipient of a mail that may be sent.
WellAddressed(d) ==
    d.to # "none" /\ (d.kind # "direct" =>
        d.to \in d.eligible \/ (d.kind = "warning" /\ d.absent /\ "customer" \in d.eligible))

MailOK(d) ==
    /\ Precedence \in d.eligible
    /\ d.kind = "direct" => d.at = "send"
    /\ d.at = "send" => WellAddressed(d)
    /\ d.at = "org" /\ d.kind = "warning" => d.absent
    /\ d.at = "customer" /\ d.kind = "invoice" /\ ~known => AfterCustomer(d.org) \in d.eligible

DesksOK == \A w \in Mailers : \A d \in {desk[w]} : d # Free => MailOK(d)
PostsOK == \A i \in DOMAIN posted : WellAddressed(posted[i])

\* An event of the invoice that came before its payment: queued, on a desk or posted.
DunEvent(i) == i \in DOMAIN queued /\ queued[i] = "invoice" /\ invoice # "paid"
DunDesk(w)  == w \in Mailers /\ desk[w] # Free /\ desk[w].kind = "invoice" /\ desk[w].status # "paid"
DunMail(i)  == i \in DOMAIN posted /\ posted[i].kind = "invoice" /\ posted[i].status # "paid"
DunnedOnce ==
    /\ \A i, j : DunEvent(i) /\ DunEvent(j) => i = j
    /\ \A v, w : DunDesk(v) /\ DunDesk(w) => v = w
    /\ \A i, j : DunMail(i) /\ DunMail(j) => i = j
    /\ \A i, w : ~(DunEvent(i) /\ DunDesk(w))
    /\ \A i, j : ~(DunEvent(i) /\ DunMail(j))
    /\ \A w, j : ~(DunDesk(w) /\ DunMail(j))

ConfirmationDue ==
    invoice = "paid" =>
        \/ \E i \in DOMAIN queued : queued[i] = "invoice"
        \/ \E w \in Mailers : desk[w] # Free /\ desk[w].kind = "invoice" /\ desk[w].status = "paid"
        \/ \E i \in DOMAIN posted : posted[i].kind = "invoice" /\ posted[i].status = "paid"
        \/ excused > 0

PatchesOK == \A x \in Editors : \A p \in {patch[x]} : p # NoPatch => p.whole = Merged(p.seen, p.new)
                                                                   /\ p.whole \in [SettingKeys -> Texts]

MailInv == /\ MailTypes /\ DesksOK /\ PostsOK /\ DunnedOnce /\ ConfirmationDue
           /\ NoMailDropped /\ SettingsMerge /\ PatchesOK

LEMMA ComposingFinite == IsFiniteSet(Composing) /\ Cardinality(Composing) \in Nat
<1>1. Composing \subseteq Mailers BY DEF Composing
<1>2. IsFiniteSet(Composing) BY <1>1, MailAssumption, FS_Subset
<1>. QED BY <1>2, FS_CardinalityType

LEMMA MailInitially == MailInit => MailInv
<1>. SUFFICES ASSUME MailInit PROVE MailInv OBVIOUS
<1>1. MailTypes
  <2>1. settings \in [SettingKeys -> Texts] BY DEF MailInit, Unpatched, Texts
  <2>2. queued \in Seq(Kinds) /\ posted \in Seq(Mail) BY DEF MailInit, Kinds
  <2>3. desk \in [Mailers -> Mail \cup {Free}] BY DEF MailInit
  <2>4. events \in Nat /\ excused \in Nat /\ hosted \in BOOLEAN /\ known \in BOOLEAN /\ (hosted => known) BY DEF MailInit
  <2>. QED BY <2>1, <2>2, <2>3, <2>4 DEF MailInit, MailTypes
<1>2. DesksOK /\ PostsOK BY DEF MailInit, DesksOK, PostsOK
<1>3. DunnedOnce BY DEF MailInit, DunnedOnce, DunEvent, DunDesk, DunMail
<1>4. ConfirmationDue BY DEF MailInit, ConfirmationDue
<1>5. Composing = {} BY DEF MailInit, Composing
<1>6. NoMailDropped BY <1>5, FS_EmptySet DEF MailInit, NoMailDropped
<1>7. SettingsMerge /\ PatchesOK BY DEF MailInit, SettingsMerge, PatchesOK
<1>. QED BY <1>1, <1>2, <1>3, <1>4, <1>6, <1>7 DEF MailInv

\* A worker that moves leaves the other desks as they are.
LEMMA OneDeskMoves ==
    ASSUME MailInv, NEW w \in Mailers, NEW n \in Mail \cup {Free}, desk' = [desk EXCEPT ![w] = n],
           UNCHANGED <<known, settings, patch, last, overwritten>>, n # Free => MailOK(n)
    PROVE  DesksOK' /\ SettingsMerge' /\ PatchesOK'
<1>1. desk \in [Mailers -> Mail \cup {Free}] BY DEF MailInv, MailTypes
<1>2. ASSUME NEW v \in Mailers, NEW d, d = desk'[v], d # Free PROVE MailOK(d)'
  <2>1. MailOK(d)
    <3>1. CASE v = w BY <1>1, <1>2, <3>1
    <3>2. CASE v # w BY <1>1, <1>2, <3>2 DEF MailInv, DesksOK
    <3>. QED BY <3>1, <3>2
  <2>. QED BY <2>1 DEF MailOK, Precedence, AfterCustomer, WellAddressed
<1>3. DesksOK' BY <1>2 DEF DesksOK
<1>. QED BY <1>3 DEF MailInv, SettingsMerge, PatchesOK, Merged

\* The desks that compose when one is taken or cleared.
LEMMA DeskTaken ==
    ASSUME MailInv, NEW w \in Mailers, NEW n \in Mail, desk[w] = Free, desk' = [desk EXCEPT ![w] = n], n # Free
    PROVE  Cardinality(Composing') = Cardinality(Composing) + 1
<1>1. desk \in [Mailers -> Mail \cup {Free}] BY DEF MailInv, MailTypes
<1>2. Composing' = Composing \cup {w} /\ w \notin Composing BY <1>1 DEF Composing
<1>. QED BY <1>2, ComposingFinite, FS_AddElement

LEMMA DeskCleared ==
    ASSUME MailInv, NEW w \in Mailers, desk[w] # Free, desk' = [desk EXCEPT ![w] = Free]
    PROVE  Cardinality(Composing) = Cardinality(Composing') + 1 /\ Cardinality(Composing') \in Nat
<1>1. desk \in [Mailers -> Mail \cup {Free}] BY DEF MailInv, MailTypes
<1>2. Composing' = Composing \ {w} /\ w \in Composing BY <1>1 DEF Composing
<1>3. IsFiniteSet(Composing') /\ Cardinality(Composing') = Cardinality(Composing) - 1
  BY <1>2, ComposingFinite, FS_RemoveElement
<1>. QED BY <1>3, ComposingFinite, FS_CardinalityType

\* A desk that keeps its mail and reads on.
LEMMA DeskReadsOn ==
    ASSUME MailInv, NEW w \in Mailers, NEW n \in Mail, desk[w] # Free, n # Free, desk' = [desk EXCEPT ![w] = n],
           n.kind = desk[w].kind, n.status = desk[w].status, MailOK(n),
           UNCHANGED <<transport, invoice, hosted, known, settings, patch, queued, posted, events,
                       patches, excused, last, overwritten>>
    PROVE  MailInv'
<1>1. desk \in [Mailers -> Mail \cup {Free}] BY DEF MailInv, MailTypes
<1>2. desk' \in [Mailers -> Mail \cup {Free}] BY <1>1
<1>3. MailTypes' BY <1>2 DEF MailInv, MailTypes
<1>4. DesksOK' /\ SettingsMerge' /\ PatchesOK' BY OneDeskMoves
<1>5. PostsOK' BY DEF MailInv, PostsOK, WellAddressed
<1>6. \A v \in Mailers : /\ (desk'[v] # Free) = (desk[v] # Free)
                         /\ desk'[v].kind = desk[v].kind /\ desk'[v].status = desk[v].status
  BY <1>1
<1>7. DunnedOnce' BY <1>6 DEF MailInv, DunnedOnce, DunEvent, DunDesk, DunMail
<1>8. ConfirmationDue' BY <1>6 DEF MailInv, ConfirmationDue
<1>9. Composing' = Composing BY <1>6 DEF Composing
<1>10. NoMailDropped' BY <1>9 DEF MailInv, NoMailDropped
<1>. QED BY <1>3, <1>4, <1>5, <1>7, <1>8, <1>10 DEF MailInv

\* What is left of a sequence without its first n elements.
LEMMA WithoutFirst ==
    ASSUME NEW S, NEW s \in Seq(S), NEW n \in 0..Len(s), NEW t, t = SubSeq(s, n + 1, Len(s))
    PROVE  /\ t \in Seq(S) /\ Len(t) = Len(s) - n /\ DOMAIN t = 1..(Len(s) - n)
           /\ \A i \in 1..(Len(s) - n) : t[i] = s[i + n]
<1>1. Len(s) \in Nat /\ (\A i \in 1..Len(s) : s[i] \in S) BY LenProperties, ElementOfSeq
<1>2. n + 1 \in Int /\ Len(s) \in Int /\ (\A i \in (n + 1)..Len(s) : s[i] \in S) BY <1>1
<1>3. /\ t \in Seq(S) /\ Len(t) = IF n + 1 <= Len(s) THEN Len(s) - (n + 1) + 1 ELSE 0
      /\ \A i \in 1..(Len(s) - (n + 1) + 1) : t[i] = s[(n + 1) + i - 1]
  BY <1>2, SubSeqProperties
<1>4. Len(t) = Len(s) - n BY <1>1, <1>3
<1>5. DOMAIN t = 1..Len(t) BY <1>3, LenProperties
<1>6. ASSUME NEW i \in 1..(Len(s) - n) PROVE t[i] = s[i + n]
  <2>1. i \in 1..(Len(s) - (n + 1) + 1) /\ (n + 1) + i - 1 = i + n BY <1>1
  <2>. QED BY <1>3, <2>1
<1>. QED BY <1>3, <1>4, <1>5, <1>6

\* The mail is sent or lost, or it is given up with the worker.
LEMMA MailDone ==
    ASSUME MailInv, NEW w \in Mailers, desk[w] # Free, desk' = [desk EXCEPT ![w] = Free],
           UNCHANGED <<transport, invoice, hosted, known, settings, patch, events, patches, last, overwritten>>,
           NEW n \in 0..Len(queued), queued' = SubSeq(queued, n + 1, Len(queued)),
           \/ posted' = posted /\ excused' = excused + 1 + n
           \/ posted' = Append(posted, desk[w]) /\ excused' = excused /\ n = 0 /\ WellAddressed(desk[w])
    PROVE  MailInv'
<1>1. /\ desk \in [Mailers -> Mail \cup {Free}] /\ queued \in Seq(Kinds) /\ posted \in Seq(Mail)
      /\ events \in Nat /\ excused \in Nat
  BY DEF MailInv, MailTypes
<1>2. PICK d : d = desk[w] OBVIOUS
<1>3. d \in Mail /\ d # Free BY <1>1, <1>2
<1>4. \A v \in Mailers : desk'[v] = IF v = w THEN Free ELSE desk[v] BY <1>1
<1>5. Len(queued) \in Nat /\ DOMAIN queued = 1..Len(queued) /\ Len(posted) \in Nat /\ DOMAIN posted = 1..Len(posted)
  BY <1>1
<1>6. /\ Len(queued') = Len(queued) - n /\ queued' \in Seq(Kinds) /\ DOMAIN queued' = 1..(Len(queued) - n)
      /\ \A i \in 1..(Len(queued) - n) : queued'[i] = queued[i + n]
  BY <1>1, WithoutFirst
<1>. DEFINE Lost == posted' = posted /\ excused' = excused + 1 + n
            Sent == posted' = Append(posted, d) /\ excused' = excused /\ n = 0 /\ WellAddressed(d)
<1>7. Lost \/ Sent BY <1>2
<1>71. Lost => posted' = posted /\ Len(posted') = Len(posted) /\ excused' = excused + 1 + n OBVIOUS
<1>72. Sent => excused' = excused /\ n = 0 /\ WellAddressed(d) OBVIOUS
<1>70. ASSUME Sent
       PROVE  /\ posted' \in Seq(Mail) /\ Len(posted') = Len(posted) + 1 /\ DOMAIN posted' = 1..(Len(posted) + 1)
              /\ posted'[Len(posted) + 1] = d /\ (\A i \in 1..Len(posted) : posted'[i] = posted[i])
  BY <1>1, <1>3, <1>70, AppendProperties, LenProperties
<1>73. UNCHANGED <<events, invoice>> OBVIOUS
<1>. HIDE DEF Lost, Sent
<1>8. MailTypes'
  <2>1. desk' \in [Mailers -> Mail \cup {Free}] BY <1>1
  <2>2. posted' \in Seq(Mail) /\ excused' \in Nat BY <1>1, <1>5, <1>7, <1>70, <1>71, <1>72
  <2>. QED BY <1>6, <2>1, <2>2 DEF MailInv, MailTypes
<1>9. DesksOK' /\ SettingsMerge' /\ PatchesOK' BY OneDeskMoves
<1>10. PostsOK'
  <2>1. ASSUME NEW i \in DOMAIN posted' PROVE WellAddressed(posted'[i])
    <3>1. CASE Lost BY <1>71, <2>1, <3>1 DEF MailInv, PostsOK
    <3>2. CASE Sent
      <4>1. i \in 1..Len(posted) \/ i = Len(posted) + 1 BY <1>5, <1>70, <2>1, <3>2
      <4>. QED BY <1>5, <1>70, <1>72, <3>2, <4>1 DEF MailInv, PostsOK
    <3>. QED BY <1>7, <3>1, <3>2
  <2>. QED BY <2>1 DEF PostsOK, WellAddressed
<1>11. DunnedOnce'
  <2>1. ASSUME NEW i, DunEvent(i)' PROVE DunEvent(i + n) /\ i \in Nat
    <3>1. i \in 1..(Len(queued) - n) /\ queued'[i] = "invoice" /\ invoice # "paid" BY <1>6, <2>1 DEF DunEvent
    <3>2. i + n \in 1..Len(queued) /\ i \in Nat BY <1>5, <3>1
    <3>. QED BY <1>5, <1>6, <3>1, <3>2 DEF DunEvent
  <2>2. ASSUME NEW v, DunDesk(v)' PROVE DunDesk(v) /\ v # w BY <1>4, <2>2 DEF DunDesk
  <2>3. ASSUME NEW i, DunMail(i)'
        PROVE  DunMail(i) \/ (i = Len(posted) + 1 /\ n = 0 /\ DunDesk(w) /\ posted' # posted)
    <3>1. CASE Lost BY <1>71, <2>3, <3>1 DEF DunMail
    <3>2. CASE Sent
      <4>1. CASE i \in 1..Len(posted) BY <1>5, <1>70, <2>3, <3>2, <4>1 DEF DunMail
      <4>2. CASE i = Len(posted) + 1
        <5>1. posted' # posted BY <1>5, <1>70, <3>2
        <5>. QED BY <1>2, <1>3, <1>70, <1>72, <2>3, <3>2, <4>2, <5>1 DEF DunMail, DunDesk
      <4>. QED BY <1>5, <1>70, <2>3, <3>2, <4>1, <4>2 DEF DunMail
    <3>. QED BY <1>7, <3>1, <3>2
  <2>4. DunnedOnce /\ n \in Nat BY <1>5 DEF MailInv
  <2>5. \A i, j : DunEvent(i)' /\ DunEvent(j)' => i = j BY <2>1, <2>4 DEF DunnedOnce
  <2>6. \A u, v : DunDesk(u)' /\ DunDesk(v)' => u = v BY <2>2, <2>4 DEF DunnedOnce
  <2>7. \A i, j : DunMail(i)' /\ DunMail(j)' => i = j BY <2>3, <2>4 DEF DunnedOnce
  <2>8. \A i, v : ~(DunEvent(i)' /\ DunDesk(v)') BY <2>1, <2>2, <2>4 DEF DunnedOnce
  <2>9. \A i, j : ~(DunEvent(i)' /\ DunMail(j)') BY <2>1, <2>3, <2>4 DEF DunnedOnce
  <2>10. \A v, j : ~(DunDesk(v)' /\ DunMail(j)') BY <2>2, <2>3, <2>4 DEF DunnedOnce
  <2>. QED BY <2>5, <2>6, <2>7, <2>8, <2>9, <2>10 DEF DunnedOnce
<1>12. ConfirmationDue'
  <2>1. CASE Lost
    <3>1. excused' > 0 BY <1>1, <1>5, <1>71, <2>1
    <3>. QED BY <3>1 DEF ConfirmationDue
  <2>2. CASE Sent
    <3>1. ASSUME NEW i \in DOMAIN queued PROVE i \in DOMAIN queued' /\ queued'[i] = queued[i]
      <4>1. n = 0 /\ i \in 1..Len(queued) BY <1>5, <1>72, <2>2
      <4>2. i \in 1..(Len(queued) - n) /\ i + n = i BY <1>5, <4>1
      <4>. QED BY <1>6, <4>2
    <3>2. ConfirmationDue /\ invoice' = invoice /\ excused' = excused BY <1>72, <1>73, <2>2 DEF MailInv
    <3>3. ASSUME NEW i \in DOMAIN posted PROVE i \in DOMAIN posted' /\ posted'[i] = posted[i]
      BY <1>5, <1>70, <2>2
    <3>4. Len(posted) + 1 \in DOMAIN posted' /\ posted'[Len(posted) + 1] = desk[w] BY <1>2, <1>5, <1>70, <2>2
    <3>5. ASSUME NEW i \in DOMAIN queued, queued[i] = "invoice" PROVE ConfirmationDue'
      BY <3>1, <3>5 DEF ConfirmationDue
    <3>6. ASSUME NEW v \in Mailers, desk[v] # Free, desk[v].kind = "invoice", desk[v].status = "paid"
          PROVE  ConfirmationDue'
      <4>1. CASE v = w BY <3>4, <3>6, <4>1 DEF ConfirmationDue
      <4>2. CASE v # w
        <5>1. desk'[v] = desk[v] BY <1>4, <4>2
        <5>. QED BY <3>6, <5>1 DEF ConfirmationDue
      <4>. QED BY <4>1, <4>2
    <3>7. ASSUME NEW i \in DOMAIN posted, posted[i].kind = "invoice", posted[i].status = "paid"
          PROVE  ConfirmationDue'
      BY <3>3, <3>7 DEF ConfirmationDue
    <3>8. CASE excused > 0 BY <3>2, <3>8 DEF ConfirmationDue
    <3>9. CASE invoice # "paid" BY <3>2, <3>9 DEF ConfirmationDue
    <3>. QED BY <3>2, <3>5, <3>6, <3>7, <3>8, <3>9 DEF ConfirmationDue
  <2>. QED BY <1>7, <2>1, <2>2
<1>13. NoMailDropped'
  <2>1. NoMailDropped BY DEF MailInv
  <2>2. Cardinality(Composing) = Cardinality(Composing') + 1 /\ Cardinality(Composing') \in Nat BY DeskCleared
  <2>3. PICK c \in Nat : c = Cardinality(Composing') BY <2>2
  <2>4. events - Len(queued) = Len(posted) + excused + c + 1 BY <2>1, <2>2, <2>3, <1>1, <1>5 DEF NoMailDropped
  <2>5. events' - Len(queued') = Len(posted') + excused' + c 
    <3>1. CASE Lost
      <4>1. Len(posted') = Len(posted) /\ excused' = excused + 1 + n BY <1>71, <3>1
      <4>2. \A e, q, p, x, k \in Nat : e - q = p + x + c + 1 => e - (q - k) = p + (x + 1 + k) + c OBVIOUS
      <4>3. events - (Len(queued) - n) = Len(posted) + (excused + 1 + n) + c BY <1>1, <1>5, <2>4, <4>2
      <4>. QED BY <1>6, <1>73, <4>1, <4>3
    <3>2. CASE Sent
      <4>1. excused' = excused /\ n = 0 BY <1>72, <3>2
      <4>2. Len(posted') = Len(posted) + 1 BY <1>70, <3>2
      <4>3. \A e, q, p, x \in Nat : e - q = p + x + c + 1 => e - (q - 0) = (p + 1) + x + c OBVIOUS
      <4>4. events - (Len(queued) - 0) = (Len(posted) + 1) + excused + c BY <1>1, <1>5, <2>4, <4>3
      <4>. QED BY <1>6, <1>73, <4>1, <4>2, <4>4
    <3>. QED BY <1>7, <3>1, <3>2
  <2>. QED BY <2>3, <2>5 DEF NoMailDropped
<1>. QED BY <1>8, <1>9, <1>10, <1>11, <1>12, <1>13 DEF MailInv

LEMMA ReadOrgStep ==
    ASSUME MailInv, NEW w \in Mailers, ReadOrg(w)
    PROVE  MailInv'
<1>1. /\ desk \in [Mailers -> Mail \cup {Free}] /\ settings \in [SettingKeys -> Texts]
      /\ (hosted => known) /\ hosted \in BOOLEAN /\ known \in BOOLEAN
  BY DEF MailInv, MailTypes
<1>2. PICK d : d = desk[w] OBVIOUS
<1>3. d.at = "org" /\ d # Free /\ d \in Mail BY <1>1, <1>2 DEF ReadOrg, Free
<1>4. MailOK(d) BY <1>2, <1>3 DEF MailInv, DesksOK
<1>5. AfterCustomer(settings) \in Texts /\ AfterCustomer(settings) # "none"
  BY <1>1 DEF AfterCustomer, Texts, SettingKeys
<1>6. PICK n : n = IF d.kind = "warning" THEN Addressed(d, AfterCustomer(settings))
                   ELSE IF hosted THEN Addressed(d, "customer")
                   ELSE [d EXCEPT !.at = "customer", !.org = settings]
  OBVIOUS
<1>7. /\ desk' = [desk EXCEPT ![w] = n]
      /\ UNCHANGED <<transport, invoice, hosted, known, settings, patch, queued, posted, events,
                     patches, excused, last, overwritten>>
  BY <1>2, <1>6 DEF ReadOrg
<1>8. /\ n \in Mail /\ n # Free /\ n.kind = d.kind /\ n.status = d.status /\ n.eligible = d.eligible
      /\ n.absent = d.absent
  BY <1>1, <1>3, <1>5, <1>6 DEF Mail, Addressed, Free, Texts
<1>9. d.kind \in Kinds /\ Precedence \in d.eligible BY <1>3, <1>4 DEF Mail, MailOK
<1>10. MailOK(n)
  <2>1. CASE d.kind = "warning"
    <3>1. n.at = "send" /\ n.to = AfterCustomer(settings) BY <1>3, <1>6, <2>1 DEF Mail, Addressed
    <3>2. d.absent BY <1>3, <1>4, <2>1 DEF MailOK
    <3>3. WellAddressed(n) BY <1>5, <1>8, <1>9, <2>1, <3>1, <3>2 DEF WellAddressed, Precedence
    <3>. QED BY <1>8, <1>9, <3>1, <3>3 DEF MailOK
  <2>2. CASE d.kind # "warning" /\ hosted
    <3>1. n.at = "send" /\ n.to = "customer" BY <1>3, <1>6, <2>2 DEF Mail, Addressed
    <3>2. WellAddressed(n) BY <1>1, <1>8, <1>9, <2>2, <3>1 DEF WellAddressed, Precedence
    <3>. QED BY <1>8, <1>9, <3>1, <3>2 DEF MailOK
  <2>3. CASE d.kind # "warning" /\ ~hosted
    <3>1. n.at = "customer" /\ n.org = settings BY <1>3, <1>6, <2>3 DEF Mail
    <3>2. d.kind # "direct" BY <1>3, <1>4 DEF MailOK
    <3>. QED BY <1>8, <1>9, <3>1, <3>2 DEF MailOK, Precedence
  <2>. QED BY <2>1, <2>2, <2>3
<1>. QED BY <1>2, <1>3, <1>7, <1>8, <1>10, DeskReadsOn

LEMMA ReadCustomerStep ==
    ASSUME MailInv, NEW w \in Mailers, ReadCustomer(w)
    PROVE  MailInv'
<1>1. desk \in [Mailers -> Mail \cup {Free}] /\ known \in BOOLEAN BY DEF MailInv, MailTypes
<1>2. PICK d : d = desk[w] OBVIOUS
<1>3. d.at = "customer" /\ d # Free /\ d \in Mail BY <1>1, <1>2 DEF ReadCustomer, Free
<1>4. MailOK(d) BY <1>2, <1>3 DEF MailInv, DesksOK
<1>5. AfterCustomer(d.org) \in Texts /\ AfterCustomer(d.org) # "none"
  BY <1>3 DEF AfterCustomer, Texts, SettingKeys, Mail
<1>6. PICK n : n = IF known THEN Addressed(d, "customer")
                   ELSE IF d.kind = "warning" THEN [d EXCEPT !.at = "org", !.absent = TRUE]
                   ELSE Addressed(d, AfterCustomer(d.org))
  OBVIOUS
<1>7. /\ desk' = [desk EXCEPT ![w] = n]
      /\ UNCHANGED <<transport, invoice, hosted, known, settings, patch, queued, posted, events,
                     patches, excused, last, overwritten>>
  BY <1>2, <1>6 DEF ReadCustomer, CustomerFound
<1>8. n \in Mail /\ n # Free /\ n.kind = d.kind /\ n.status = d.status /\ n.eligible = d.eligible
  BY <1>3, <1>5, <1>6 DEF Mail, Addressed, Free, Texts
<1>9. d.kind \in Kinds /\ Precedence \in d.eligible /\ d.kind # "direct" BY <1>3, <1>4 DEF Mail, MailOK
<1>10. MailOK(n)
  <2>1. CASE known
    <3>1. n.at = "send" /\ n.to = "customer" BY <1>3, <1>6, <2>1 DEF Mail, Addressed
    <3>2. WellAddressed(n) BY <1>8, <1>9, <2>1, <3>1 DEF WellAddressed, Precedence
    <3>. QED BY <1>8, <1>9, <3>1, <3>2 DEF MailOK
  <2>2. CASE ~known /\ d.kind = "warning"
    <3>1. n.at = "org" /\ n.absent BY <1>3, <1>6, <2>2 DEF Mail
    <3>. QED BY <1>8, <1>9, <3>1 DEF MailOK
  <2>3. CASE ~known /\ d.kind # "warning"
    <3>1. n.at = "send" /\ n.to = AfterCustomer(d.org) BY <1>3, <1>6, <2>3 DEF Mail, Addressed
    <3>2. AfterCustomer(d.org) \in d.eligible BY <1>3, <1>4, <1>9, <2>3 DEF MailOK, Kinds
    <3>3. WellAddressed(n) BY <1>5, <1>8, <3>1, <3>2 DEF WellAddressed
    <3>. QED BY <1>8, <1>9, <3>1, <3>3 DEF MailOK
  <2>. QED BY <2>1, <2>2, <2>3
<1>. QED BY <1>2, <1>3, <1>7, <1>8, <1>10, DeskReadsOn

LEMMA MailerDiesStep ==
    ASSUME MailInv, NEW w \in Mailers, NEW n \in 0..Len(queued), MailerDies(w, n)
    PROVE  MailInv'
BY MailDone DEF MailerDies

LEMMA SendMailStep ==
    ASSUME MailInv, NEW w \in Mailers, NEW works \in BOOLEAN, SendMail(w, works)
    PROVE  MailInv'
<1>1. /\ desk \in [Mailers -> Mail \cup {Free}] /\ queued \in Seq(Kinds) /\ Len(queued) \in Nat
      /\ excused \in Nat
  BY DEF MailInv, MailTypes
<1>2. PICK d : d = desk[w] OBVIOUS
<1>3. d.at = "send" /\ d # Free /\ d \in Mail BY <1>1, <1>2 DEF SendMail, Free
<1>4. WellAddressed(d) BY <1>2, <1>3 DEF MailInv, DesksOK, MailOK
<1>5. /\ desk' = [desk EXCEPT ![w] = Free] /\ queued' = queued
      /\ UNCHANGED <<transport, invoice, hosted, known, settings, patch, events, patches, last, overwritten>>
      /\ \/ posted' = posted /\ excused' = excused + 1
         \/ posted' = Append(posted, desk[w]) /\ excused' = excused
  BY <1>2, <1>4 DEF SendMail, WellAddressed
<1>6. queued = SubSeq(queued, 1, Len(queued)) BY <1>1
<1>7. 0 \in 0..Len(queued) /\ 0 + 1 = 1 /\ excused + 1 + 0 = excused + 1 BY <1>1
<1>. QED BY <1>2, <1>3, <1>4, <1>5, <1>6, <1>7, MailDone

LEMMA TakeStep ==
    ASSUME MailInv, NEW w \in Mailers, Take(w)
    PROVE  MailInv'
<1>1. /\ desk \in [Mailers -> Mail \cup {Free}] /\ queued \in Seq(Kinds) /\ queued # <<>>
      /\ settings \in [SettingKeys -> Texts] /\ invoice \in {"open", "paid", "void"}
      /\ events \in Nat /\ excused \in Nat /\ posted \in Seq(Mail)
  BY DEF MailInv, MailTypes, Take
<1>2. PICK kind : kind = Head(queued) OBVIOUS
<1>3. /\ kind \in Kinds /\ Tail(queued) \in Seq(Kinds) /\ Len(Tail(queued)) = Len(queued) - 1
      /\ \A i \in 1..Len(Tail(queued)) : Tail(queued)[i] = queued[i + 1]
  BY <1>1, <1>2, HeadTailProperties
<1>4. Len(queued) \in Nat \ {0} /\ DOMAIN queued = 1..Len(queued) /\ kind = queued[1] BY <1>1, <1>2, EmptySeq
<1>5. PICK n : n = [at |-> CASE kind = "invoice" -> "org" [] kind = "warning" -> "customer" [] OTHER -> "send",
                    kind |-> kind, status |-> IF kind = "invoice" THEN invoice ELSE "none",
                    org |-> Unpatched, absent |-> FALSE,
                    to |-> IF kind = "direct" THEN "address" ELSE "none", eligible |-> {Precedence}]
  OBVIOUS
<1>6. /\ desk[w] = Free /\ desk' = [desk EXCEPT ![w] = n] /\ queued' = Tail(queued)
      /\ UNCHANGED <<transport, invoice, hosted, known, settings, patch, posted, events, patches,
                     excused, last, overwritten>>
  BY <1>2, <1>5 DEF Take
<1>7. Precedence \in Texts BY <1>1 DEF Precedence, AfterCustomer, Texts, SettingKeys
<1>8. Unpatched \in [SettingKeys -> Texts] BY DEF Unpatched, Texts
<1>9. /\ n \in Mail /\ n # Free /\ n.kind = kind /\ n.eligible = {Precedence}
      /\ n.status = IF kind = "invoice" THEN invoice ELSE "none"
  BY <1>1, <1>3, <1>5, <1>7, <1>8 DEF Mail, Kinds, Free, Texts
<1>10. MailOK(n) BY <1>3, <1>5 DEF MailOK, WellAddressed, Kinds
<1>11. DesksOK' /\ SettingsMerge' /\ PatchesOK' BY <1>6, <1>9, <1>10, OneDeskMoves
<1>12. MailTypes'
  <2>1. desk' \in [Mailers -> Mail \cup {Free}] BY <1>1, <1>6, <1>9
  <2>. QED BY <1>3, <1>6, <2>1 DEF MailInv, MailTypes
<1>13. PostsOK' BY <1>6 DEF MailInv, PostsOK, WellAddressed
<1>14. DOMAIN queued' = 1..(Len(queued) - 1) /\ (\A i \in 1..(Len(queued) - 1) : queued'[i] = queued[i + 1])
  BY <1>3, <1>6, LenProperties
<1>15. \A v \in Mailers : desk'[v] = IF v = w THEN n ELSE desk[v] BY <1>1, <1>6
<1>16. DunnedOnce'
  <2>1. ASSUME NEW i, DunEvent(i)' PROVE DunEvent(i + 1) /\ i \in Nat \ {0}
    <3>1. i \in 1..(Len(queued) - 1) /\ queued'[i] = "invoice" /\ invoice # "paid"
      BY <1>6, <1>14, <2>1 DEF DunEvent
    <3>2. i + 1 \in 1..Len(queued) /\ i \in Nat \ {0} BY <1>4, <3>1
    <3>. QED BY <1>4, <1>14, <3>1, <3>2 DEF DunEvent
  <2>2. ASSUME NEW v, DunDesk(v)' PROVE DunDesk(v) \/ (v = w /\ DunEvent(1))
    <3>1. CASE v = w
      <4>1. n.kind = "invoice" /\ n.status # "paid" BY <1>15, <2>2, <3>1 DEF DunDesk
      <4>2. 1 \in DOMAIN queued BY <1>4
      <4>. QED BY <1>4, <1>9, <3>1, <4>1, <4>2 DEF DunEvent
    <3>2. CASE v # w BY <1>15, <2>2, <3>2 DEF DunDesk
    <3>. QED BY <3>1, <3>2
  <2>3. ASSUME NEW i, DunMail(i)' PROVE DunMail(i) BY <1>6, <2>3 DEF DunMail
  <2>4. DunnedOnce /\ ~DunDesk(w) BY <1>6 DEF MailInv, DunDesk
  <2>5. \A i, j : DunEvent(i)' /\ DunEvent(j)' => i = j BY <2>1, <2>4 DEF DunnedOnce
  <2>6. \A u, v : DunDesk(u)' /\ DunDesk(v)' => u = v BY <2>2, <2>4 DEF DunnedOnce
  <2>7. \A i, j : DunMail(i)' /\ DunMail(j)' => i = j BY <2>3, <2>4 DEF DunnedOnce
  <2>8. \A i, v : ~(DunEvent(i)' /\ DunDesk(v)')
    <3>1. SUFFICES ASSUME NEW i, NEW v, DunEvent(i)', DunDesk(v)' PROVE FALSE OBVIOUS
    <3>2. DunEvent(i + 1) /\ i + 1 # 1 BY <2>1, <3>1
    <3>3. ~DunDesk(v) BY <2>4, <3>2 DEF DunnedOnce
    <3>4. DunEvent(1) BY <2>2, <3>1, <3>3
    <3>. QED BY <2>4, <3>2, <3>4 DEF DunnedOnce
  <2>9. \A i, j : ~(DunEvent(i)' /\ DunMail(j)') BY <2>1, <2>3, <2>4 DEF DunnedOnce
  <2>10. \A v, j : ~(DunDesk(v)' /\ DunMail(j)') BY <2>2, <2>3, <2>4 DEF DunnedOnce
  <2>. QED BY <2>5, <2>6, <2>7, <2>8, <2>9, <2>10 DEF DunnedOnce
<1>17. ConfirmationDue'
  <2>. SUFFICES ASSUME invoice' = "paid" PROVE ConfirmationDue' BY DEF ConfirmationDue
  <2>1. ConfirmationDue /\ invoice = "paid" /\ UNCHANGED <<posted, excused>> BY <1>6 DEF MailInv
  <2>2. ASSUME NEW i \in DOMAIN queued, queued[i] = "invoice" PROVE ConfirmationDue'
    <3>1. CASE i = 1
      <4>1. n.kind = "invoice" /\ n.status = "paid" BY <1>4, <1>9, <2>1, <2>2, <3>1
      <4>2. desk'[w] = n BY <1>15
      <4>. QED BY <1>9, <4>1, <4>2 DEF ConfirmationDue
    <3>2. CASE i # 1
      <4>1. PICK j \in 1..(Len(queued) - 1) : i = j + 1
        <5>1. i - 1 \in 1..(Len(queued) - 1) /\ i = (i - 1) + 1 BY <1>4, <2>2, <3>2
        <5>. QED BY <5>1
      <4>2. j \in DOMAIN queued' /\ queued'[j] = "invoice" BY <1>14, <2>2, <4>1
      <4>. QED BY <4>2 DEF ConfirmationDue
    <3>. QED BY <3>1, <3>2
  <2>3. ASSUME NEW v \in Mailers, desk[v] # Free, desk[v].kind = "invoice", desk[v].status = "paid"
        PROVE  ConfirmationDue'
    <3>1. desk'[v] = desk[v] BY <1>6, <1>15, <2>3
    <3>. QED BY <2>3, <3>1 DEF ConfirmationDue
  <2>4. ASSUME NEW i \in DOMAIN posted, posted[i].kind = "invoice", posted[i].status = "paid"
        PROVE  ConfirmationDue'
    BY <2>1, <2>4 DEF ConfirmationDue
  <2>5. CASE excused > 0 BY <2>1, <2>5 DEF ConfirmationDue
  <2>. QED BY <2>1, <2>2, <2>3, <2>4, <2>5 DEF ConfirmationDue
<1>18. NoMailDropped'
  <2>1. PICK c \in Nat : c = Cardinality(Composing) BY ComposingFinite
  <2>2. Cardinality(Composing') = c + 1 BY <1>6, <1>9, <2>1, DeskTaken
  <2>3. events - Len(queued) = Len(posted) + excused + c BY <2>1 DEF MailInv, NoMailDropped
  <2>4. \A e, q, p, x \in Nat : e - q = p + x + c => e - (q - 1) = p + x + (c + 1) OBVIOUS
  <2>5. Len(posted) \in Nat /\ Len(queued) \in Nat BY <1>1
  <2>6. events - (Len(queued) - 1) = Len(posted) + excused + (c + 1) BY <1>1, <2>3, <2>4, <2>5
  <2>. QED BY <1>3, <1>6, <2>2, <2>6 DEF NoMailDropped
<1>. QED BY <1>11, <1>12, <1>13, <1>16, <1>17, <1>18 DEF MailInv

\* An event is queued; the one that comes with the payment is the only one of the
\* invoice's then.
LEMMA EventQueued ==
    ASSUME MailInv, NEW kind \in Kinds, Publish(kind), invoice' \in {"open", "paid", "void"},
           (invoice' = invoice /\ kind # "invoice") \/ (invoice' = "paid" /\ kind = "invoice"),
           UNCHANGED <<transport, hosted, known, settings, patch, desk, posted, patches, excused, last, overwritten>>
    PROVE  MailInv'
<1>1. /\ queued \in Seq(Kinds) /\ Len(queued) \in Nat /\ DOMAIN queued = 1..Len(queued)
      /\ events \in Nat /\ excused \in Nat /\ posted \in Seq(Mail) /\ Len(posted) \in Nat
  BY LenProperties DEF MailInv, MailTypes
<1>2. /\ queued' \in Seq(Kinds) /\ Len(queued') = Len(queued) + 1 /\ DOMAIN queued' = 1..(Len(queued) + 1)
      /\ (\A i \in 1..Len(queued) : queued'[i] = queued[i]) /\ queued'[Len(queued) + 1] = kind
  BY <1>1, AppendProperties, LenProperties DEF Publish
<1>3. events' = events + 1 BY DEF Publish
<1>4. MailTypes' BY <1>1, <1>2, <1>3 DEF MailInv, MailTypes
<1>5. DesksOK' /\ PostsOK'
  BY DEF MailInv, DesksOK, PostsOK, MailOK, WellAddressed, Precedence, AfterCustomer
<1>6. DunnedOnce'
  <2>1. ASSUME NEW i, DunEvent(i)' PROVE DunEvent(i)
    <3>1. invoice' # "paid" /\ invoice' = invoice /\ kind # "invoice" BY <2>1 DEF DunEvent
    <3>2. i \in 1..Len(queued) BY <1>1, <1>2, <2>1, <3>1 DEF DunEvent
    <3>. QED BY <1>1, <1>2, <2>1, <3>1, <3>2 DEF DunEvent
  <2>2. (\A v : DunDesk(v)' <=> DunDesk(v)) /\ (\A i : DunMail(i)' <=> DunMail(i)) BY DEF DunDesk, DunMail
  <2>3. DunnedOnce BY DEF MailInv
  <2>. QED BY <2>1, <2>2, <2>3 DEF DunnedOnce
<1>7. ConfirmationDue'
  <2>1. CASE kind = "invoice"
    <3>1. Len(queued) + 1 \in DOMAIN queued' /\ queued'[Len(queued) + 1] = "invoice" BY <1>1, <1>2, <2>1
    <3>. QED BY <3>1 DEF ConfirmationDue
  <2>2. CASE kind # "invoice"
    <3>1. invoice' = invoice BY <2>2
    <3>2. \A i \in DOMAIN queued : i \in DOMAIN queued' /\ queued'[i] = queued[i] BY <1>1, <1>2
    <3>3. ConfirmationDue BY DEF MailInv
    <3>. QED BY <3>1, <3>2, <3>3 DEF ConfirmationDue
  <2>. QED BY <2>1, <2>2
<1>8. NoMailDropped'
  <2>1. PICK c \in Nat : c = Cardinality(Composing) BY ComposingFinite
  <2>2. Composing' = Composing BY DEF Composing
  <2>3. events - Len(queued) = Len(posted) + excused + c BY <2>1 DEF MailInv, NoMailDropped
  <2>4. \A e, q, p, x \in Nat : e - q = p + x + c => (e + 1) - (q + 1) = p + x + c OBVIOUS
  <2>5. (events + 1) - (Len(queued) + 1) = Len(posted) + excused + c BY <1>1, <2>3, <2>4
  <2>. QED BY <1>2, <1>3, <2>1, <2>2, <2>5 DEF NoMailDropped
<1>9. SettingsMerge' /\ PatchesOK' BY DEF MailInv, SettingsMerge, PatchesOK, Merged
<1>. QED BY <1>4, <1>5, <1>6, <1>7, <1>8, <1>9 DEF MailInv

LEMMA VoidedStep ==
    ASSUME MailInv, Voided
    PROVE  MailInv'
<1>1. /\ invoice = "open" /\ invoice' = "void"
      /\ UNCHANGED <<transport, hosted, known, settings, patch, queued, desk, posted, events,
                     patches, excused, last, overwritten>>
  BY DEF Voided
<1>2. MailTypes' BY <1>1 DEF MailInv, MailTypes
<1>3. DesksOK' /\ PostsOK'
  BY <1>1 DEF MailInv, DesksOK, PostsOK, MailOK, WellAddressed, Precedence, AfterCustomer
<1>4. DunnedOnce' BY <1>1 DEF MailInv, DunnedOnce, DunEvent, DunDesk, DunMail
<1>5. ConfirmationDue' BY <1>1 DEF ConfirmationDue
<1>6. Composing' = Composing BY <1>1 DEF Composing
<1>7. NoMailDropped' BY <1>1, <1>6 DEF MailInv, NoMailDropped
<1>8. SettingsMerge' /\ PatchesOK' BY <1>1 DEF MailInv, SettingsMerge, PatchesOK, Merged
<1>. QED BY <1>2, <1>3, <1>4, <1>5, <1>7, <1>8 DEF MailInv

\* Whose turn it is changes, and every mail on a desk witnesses it.
LEMMA TurnChanges ==
    ASSUME MailInv, Witnessed, known' \in BOOLEAN, known => known', settings' \in [SettingKeys -> Texts],
           UNCHANGED <<transport, invoice, hosted, queued, posted, events, excused>>
    PROVE  /\ MailTypes' /\ DesksOK' /\ PostsOK' /\ DunnedOnce' /\ ConfirmationDue' /\ NoMailDropped'
<1>1. desk \in [Mailers -> Mail \cup {Free}] BY DEF MailInv, MailTypes
<1>2. PICK t : t = Precedence' OBVIOUS
<1>3. t \in Texts BY <1>2 DEF Precedence, AfterCustomer, Texts, SettingKeys
<1>4. desk' = [w \in Mailers |-> IF desk[w] = Free THEN Free
                                 ELSE [desk[w] EXCEPT !.eligible = @ \cup {t}]]
  BY <1>2 DEF Witnessed
<1>5. ASSUME NEW w \in Mailers, NEW d \in Mail, d = desk[w], d # Free,
             NEW e, e = [d EXCEPT !.eligible = @ \cup {t}]
      PROVE  /\ e \in Mail /\ e # Free /\ e.eligible = d.eligible \cup {t} /\ e.at = d.at /\ e.kind = d.kind
             /\ e.status = d.status /\ e.org = d.org /\ e.absent = d.absent /\ e.to = d.to
  BY <1>3, <1>5 DEF Mail, Free
<1>6. ASSUME NEW w \in Mailers, desk[w] # Free
      PROVE  /\ desk'[w] \in Mail /\ desk'[w] # Free /\ desk'[w].eligible = desk[w].eligible \cup {t}
             /\ desk'[w].at = desk[w].at /\ desk'[w].kind = desk[w].kind /\ desk'[w].status = desk[w].status
             /\ desk'[w].org = desk[w].org /\ desk'[w].absent = desk[w].absent /\ desk'[w].to = desk[w].to
  <2>1. desk[w] \in Mail BY <1>1, <1>6
  <2>2. desk'[w] = [desk[w] EXCEPT !.eligible = @ \cup {t}] BY <1>4, <1>6
  <2>. QED BY <1>5, <1>6, <2>1, <2>2
<1>7. ASSUME NEW w \in Mailers, desk[w] = Free PROVE desk'[w] = Free BY <1>4, <1>7
<1>8. MailTypes'
  <2>1. desk' \in [Mailers -> Mail \cup {Free}]
    <3>1. \A w \in Mailers : desk'[w] \in Mail \cup {Free} BY <1>6, <1>7
    <3>2. desk' = [w \in Mailers |-> desk'[w]] BY <1>4
    <3>. QED BY <3>1, <3>2
  <2>. QED BY <2>1 DEF MailInv, MailTypes
<1>9. ASSUME NEW w \in Mailers, NEW e, e = desk'[w], e # Free PROVE MailOK(e)'
  <2>1. desk[w] # Free BY <1>7, <1>9
  <2>2. PICK d : d = desk[w] OBVIOUS
  <2>3. MailOK(d) BY <2>1, <2>2 DEF MailInv, DesksOK
  <2>4. /\ e.eligible = d.eligible \cup {t} /\ e.at = d.at /\ e.kind = d.kind
        /\ e.org = d.org /\ e.absent = d.absent /\ e.to = d.to
    BY <1>6, <1>9, <2>1, <2>2
  <2>5. WellAddressed(d) => WellAddressed(e)' BY <2>4 DEF WellAddressed
  <2>6. Precedence' \in e.eligible BY <1>2, <2>4
  <2>7. AfterCustomer(d.org) \in d.eligible => AfterCustomer(e.org)' \in e.eligible BY <2>4 DEF AfterCustomer
  <2>. QED BY <2>3, <2>4, <2>5, <2>6, <2>7 DEF MailOK
<1>10. DesksOK' BY <1>9 DEF DesksOK
<1>11. PostsOK' BY DEF MailInv, PostsOK, WellAddressed
<1>12. DunnedOnce'
  <2>1. \A v : DunDesk(v)' => DunDesk(v) BY <1>6, <1>7 DEF DunDesk
  <2>2. (\A i : DunEvent(i)' <=> DunEvent(i)) /\ (\A i : DunMail(i)' <=> DunMail(i)) BY DEF DunEvent, DunMail
  <2>3. DunnedOnce BY DEF MailInv
  <2>. QED BY <2>1, <2>2, <2>3 DEF DunnedOnce
<1>13. ConfirmationDue'
  <2>1. ConfirmationDue BY DEF MailInv
  <2>. QED BY <1>6, <2>1 DEF ConfirmationDue
<1>14. Composing' = Composing BY <1>6, <1>7 DEF Composing
<1>15. NoMailDropped' BY <1>14 DEF MailInv, NoMailDropped
<1>. QED BY <1>8, <1>10, <1>11, <1>12, <1>13, <1>15

LEMMA CustomerAppearsStep ==
    ASSUME MailInv, CustomerAppears
    PROVE  MailInv'
<1>1. /\ known' = TRUE /\ Witnessed
      /\ UNCHANGED <<transport, invoice, hosted, settings, patch, queued, posted, events, patches,
                     excused, last, overwritten>>
  BY DEF CustomerAppears
<1>2. settings \in [SettingKeys -> Texts] BY DEF MailInv, MailTypes
<1>3. SettingsMerge' /\ PatchesOK' BY <1>1 DEF MailInv, SettingsMerge, PatchesOK, Merged
<1>. QED BY <1>1, <1>2, <1>3, TurnChanges DEF MailInv

LEMMA PatchSettingsStep ==
    ASSUME MailInv, NEW x \in Editors, NEW new \in Patches, PatchSettings(x, new)
    PROVE  MailInv'
<1>1. PICK p : p = [at |-> "write", new |-> new, seen |-> settings, whole |-> Merged(settings, new)] OBVIOUS
<1>2. /\ patch' = [patch EXCEPT ![x] = p]
      /\ UNCHANGED <<transport, invoice, hosted, known, settings, queued, desk, posted, events,
                     excused, last, overwritten>>
  BY <1>1 DEF PatchSettings
<1>3. MailTypes' BY <1>2 DEF MailInv, MailTypes
<1>4. DesksOK' /\ PostsOK'
  BY <1>2 DEF MailInv, DesksOK, PostsOK, MailOK, WellAddressed, Precedence, AfterCustomer
<1>5. DunnedOnce' BY <1>2 DEF MailInv, DunnedOnce, DunEvent, DunDesk, DunMail
<1>6. ConfirmationDue' BY <1>2 DEF MailInv, ConfirmationDue
<1>7. Composing' = Composing BY <1>2 DEF Composing
<1>8. NoMailDropped' BY <1>2, <1>7 DEF MailInv, NoMailDropped
<1>9. SettingsMerge' BY <1>2 DEF MailInv, SettingsMerge
<1>10. PatchesOK'
  <2>1. settings \in [SettingKeys -> Texts] BY DEF MailInv, MailTypes
  <2>2. \A k \in DOMAIN new : new[k] \in Texts BY DEF Patches, Texts
  <2>3. Merged(settings, new) \in [SettingKeys -> Texts] BY <2>1, <2>2 DEF Merged
  <2>4. p.whole = Merged(p.seen, p.new) /\ p.whole \in [SettingKeys -> Texts] BY <1>1, <2>3
  <2>5. ASSUME NEW y \in Editors, NEW q, q = patch'[y], q # NoPatch
        PROVE  q.whole = Merged(q.seen, q.new) /\ q.whole \in [SettingKeys -> Texts]
    <3>1. CASE q = p BY <2>4, <3>1
    <3>2. CASE q # p
      <4>1. q = patch[y] BY <1>2, <2>5, <3>2
      <4>. QED BY <2>5, <4>1 DEF MailInv, PatchesOK
    <3>. QED BY <3>1, <3>2
  <2>. QED BY <2>5 DEF PatchesOK, Merged
<1>. QED BY <1>3, <1>4, <1>5, <1>6, <1>8, <1>9, <1>10 DEF MailInv

LEMMA CommitSettingsStep ==
    ASSUME MailInv, NEW x \in Editors, CommitSettings(x)
    PROVE  MailInv'
<1>1. PICK p : p = patch[x] OBVIOUS
<1>2. /\ p # NoPatch /\ settings' = p.whole /\ Witnessed
      /\ last' = [k \in SettingKeys |-> IF k \in DOMAIN p.new THEN p.new[k] ELSE last[k]]
      /\ overwritten' = (overwritten \/ p.seen # settings)
      /\ patch' = [patch EXCEPT ![x] = NoPatch]
      /\ UNCHANGED <<transport, invoice, hosted, known, queued, posted, events, patches, excused>>
  BY <1>1 DEF CommitSettings
<1>3. p.whole = Merged(p.seen, p.new) /\ p.whole \in [SettingKeys -> Texts] BY <1>1, <1>2 DEF MailInv, PatchesOK
<1>4. known \in BOOLEAN BY DEF MailInv, MailTypes
<1>5. MailTypes' /\ DesksOK' /\ PostsOK' /\ DunnedOnce' /\ ConfirmationDue' /\ NoMailDropped'
  BY <1>2, <1>3, <1>4, TurnChanges
<1>6. SettingsMerge'
  <2>. SUFFICES ASSUME ~overwritten' PROVE settings' = last' BY DEF SettingsMerge
  <2>1. ~overwritten /\ p.seen = settings BY <1>2
  <2>2. settings = last BY <2>1 DEF MailInv, SettingsMerge
  <2>. QED BY <1>2, <1>3, <2>1, <2>2 DEF Merged
<1>7. ASSUME NEW y \in Editors, NEW q, q = patch'[y], q # NoPatch
      PROVE  q.whole = Merged(q.seen, q.new) /\ q.whole \in [SettingKeys -> Texts]
  <2>1. q = patch[y] BY <1>2, <1>7
  <2>. QED BY <1>7, <2>1 DEF MailInv, PatchesOK
<1>8. PatchesOK' BY <1>7 DEF PatchesOK, Merged
<1>. QED BY <1>5, <1>6, <1>8 DEF MailInv

\* The invariant of Notifications is inductive.
LEMMA MailStep ==
    ASSUME MailInv, MailNext \/ UNCHANGED mailVars
    PROVE  MailInv'
<1>1. CASE UNCHANGED mailVars
  <2>1. UNCHANGED <<transport, invoice, hosted, known, settings, patch, queued, desk, posted, events,
                    patches, excused, last, overwritten>>
    BY <1>1 DEF mailVars
  <2>2. MailTypes' BY <2>1 DEF MailInv, MailTypes
  <2>3. DesksOK' /\ PostsOK'
    BY <2>1 DEF MailInv, DesksOK, PostsOK, MailOK, WellAddressed, Precedence, AfterCustomer
  <2>4. DunnedOnce' BY <2>1 DEF MailInv, DunnedOnce, DunEvent, DunDesk, DunMail
  <2>5. ConfirmationDue' BY <2>1 DEF MailInv, ConfirmationDue
  <2>6. Composing' = Composing BY <2>1 DEF Composing
  <2>7. NoMailDropped' BY <2>1, <2>6 DEF MailInv, NoMailDropped
  <2>8. SettingsMerge' /\ PatchesOK' BY <2>1 DEF MailInv, SettingsMerge, PatchesOK, Merged
  <2>. QED BY <2>2, <2>3, <2>4, <2>5, <2>7, <2>8 DEF MailInv
<1>2. ASSUME NEW kind \in {"warning", "direct"}, Announce(kind) PROVE MailInv'
  <2>1. invoice \in {"open", "paid", "void"} /\ kind \in Kinds /\ kind # "invoice" BY DEF MailInv, MailTypes, Kinds
  <2>2. /\ Publish(kind)
        /\ UNCHANGED <<transport, invoice, hosted, known, settings, patch, desk, posted, patches,
                       excused, last, overwritten>>
    BY <1>2 DEF Announce
  <2>. QED BY <2>1, <2>2, EventQueued
<1>3. CASE Paid BY <1>3, EventQueued DEF Paid, Kinds
<1>. QED BY <1>1, <1>2, <1>3, TakeStep, ReadOrgStep, ReadCustomerStep, MailerDiesStep, SendMailStep, VoidedStep,
            CustomerAppearsStep, PatchSettingsStep, CommitSettingsStep DEF MailNext

LEMMA MailInvSound == MailInv => NoMailDropped /\ RightRecipient /\ PaymentConfirmed /\ SettingsMerge
<1>. SUFFICES ASSUME MailInv PROVE NoMailDropped /\ RightRecipient /\ PaymentConfirmed /\ SettingsMerge OBVIOUS
<1>1. RightRecipient BY DEF MailInv, PostsOK, WellAddressed, RightRecipient
<1>2. Cardinality(InvoiceMails(FALSE)) <= 1
  <2>1. \A i \in InvoiceMails(FALSE) : DunMail(i) BY DEF InvoiceMails, DunMail
  <2>2. \A i, j \in InvoiceMails(FALSE) : i = j BY <2>1 DEF MailInv, DunnedOnce
  <2>3. PICK M : M = InvoiceMails(FALSE) OBVIOUS
  <2>4. M = {} \/ \E i \in M : M = {i} BY <2>2, <2>3
  <2>5. Cardinality(M) = 0 \/ Cardinality(M) = 1 BY <2>4, FS_EmptySet, FS_Singleton
  <2>6. Cardinality(M) <= 1 BY <2>5
  <2>. QED BY <2>3, <2>6
<1>3. (queued = <<>> /\ Composing = {} /\ excused = 0 /\ invoice = "paid") => InvoiceMails(TRUE) # {}
  <2>. SUFFICES ASSUME queued = <<>>, Composing = {}, excused = 0, invoice = "paid" PROVE InvoiceMails(TRUE) # {}
    OBVIOUS
  <2>1. DOMAIN queued = {} /\ ~(excused > 0) OBVIOUS
  <2>2. \A w \in Mailers : desk[w] = Free BY DEF Composing
  <2>3. ConfirmationDue BY DEF MailInv
  <2>4. PICK i \in DOMAIN posted : posted[i].kind = "invoice" /\ posted[i].status = "paid"
    BY <2>1, <2>2, <2>3 DEF ConfirmationDue
  <2>. QED BY <2>4 DEF InvoiceMails
<1>4. PaymentConfirmed BY <1>2, <1>3 DEF PaymentConfirmed
<1>. QED BY <1>1, <1>4 DEF MailInv

\* What the system says of agents and money is true when it says it, and reaches whom it
\* is for (agents/service.py, notifications/service.py): for any number of workers,
\* mails, patches and calls that overlap.
THEOREM NewsIsTrue == Spec => []NewsSound
<1>1. Init => AgentsInv /\ MailInv BY AgentsInitially, MailInitially DEF Init
<1>2. AgentsInv /\ MailInv /\ [Next]_serviceVars => (AgentsInv /\ MailInv)'
  <2>. SUFFICES ASSUME AgentsInv, MailInv, [Next]_serviceVars PROVE AgentsInv' /\ MailInv' OBVIOUS
  <2>1. AgentsNext \/ UNCHANGED agentVars BY DEF Next, serviceVars
  <2>2. MailNext \/ UNCHANGED mailVars BY DEF Next, serviceVars
  <2>. QED BY <2>1, <2>2, AgentsStep, MailStep
<1>3. AgentsInv /\ MailInv => NewsSound BY MailInvSound DEF AgentsInv, NewsSound
<1>. QED BY <1>1, <1>2, <1>3, PTL DEF Spec

-----------------------------------------------------------------------------
(***************************************************************************)
(* Checkout.  Who pays at Stripe is the customer we hold; an event that is *)
(* on its way names a checkout we have not heard of before, with the plan  *)
(* that it still has there; and the subscription we refer to was bought.   *)
(***************************************************************************)
SessionRec == [plan : PaidPlans, payer : Nat, status : {"open", "active", "canceled", "expired"}]

CheckoutTypes ==
    /\ provider \in Providers /\ Configured(provider)
    /\ customers \in Nat /\ customer \in 0..customers
    /\ buyer \in [Buyers -> [at : {"idle", "insert"}, plan : PaidPlans \cup {"free"}, as : Nat]]
    /\ session \in Seq(SessionRec)
    /\ own \in [plan : PaidPlans \cup {"free"}, status : {"active", "trialing", "canceled"}, ref : Nat]
    /\ ops \in 0..MaxOwn /\ halfChanged \in BOOLEAN /\ endedHere \in BOOLEAN

BuyersOK == \A b \in Buyers : \A q \in {buyer[b]} :
    q.as <= customers /\ (q.at = "insert" => q.plan \in PaidPlans /\ q.as # 0)

SessionOK(s) ==
    /\ s.payer \in {0, Stranger} \cup 1..customers
    /\ provider # "manual"
    /\ provider \in {"stripe", "paddle"} => customer # 0
    /\ provider = "stripe" => s.payer = customer
    /\ provider = "paddle" /\ s.status = "active" => s.payer \in {customer, Stranger}
SessionsOK == \A i \in 1..Len(session) : \A s \in {session[i]} : SessionOK(s)

Bought(s) == s.status \in {"active", "canceled"}
Completed(s, i) == [type |-> "checkout.session.completed", of |-> i, payer |-> customer, plan |-> s.plan, status |-> "complete"]

\* The checkout s that event e is about.
StripeEventOK(e, s) ==
    /\ e.payer = customer
    /\ \/ e = Completed(s, e.of) /\ Bought(s) /\ own.ref # e.of
       \/ e.type \in {"customer.subscription.created", "customer.subscription.updated"} /\ e.status = "active"
       \/ e.type = "customer.subscription.deleted" /\ s.status = "canceled"
EventOK(e, s) ==
    /\ provider = "stripe" => StripeEventOK(e, s)
    /\ provider = "paddle" => /\ e.type = "transaction.completed" /\ e.plan \in PaidPlans
                             /\ e.payer = s.payer /\ s.status = "active"
    /\ provider = "xendit" => e.payer = 0
EventsOK == \A e \in mail : e.of \in 1..Len(session) /\ \A s \in {session[e.of]} : EventOK(e, s)

OwnOK ==
    /\ own.ref # 0 => /\ own.ref \in 1..Len(session) /\ provider = "stripe"
                      /\ Bought(session[own.ref])
                      /\ ~halfChanged => session[own.ref].plan = own.plan
    /\ provider = "stripe" /\ ~endedHere /\ own.plan # "free" => own.ref # 0

\* Session i waits for the event that says it was bought.
Awaits(i) == \E e \in mail : e.of = i /\ e.type \in {"checkout.session.completed", "transaction.completed"}
ActiveOK ==
    ( /\ provider \in {"stripe", "paddle"} /\ ~endedHere
      /\ \E i \in 1..Len(session) : session[i].status = "active" /\ session[i].payer # Stranger /\ ~Awaits(i)
      /\ \A i \in 1..Len(session) : session[i].status # "canceled" )
      => own.status = "active" /\ own.plan # "free"

CheckoutInv == CheckoutTypes /\ BuyersOK /\ SessionsOK /\ EventsOK /\ OwnOK /\ ActiveOK

LEMMA CheckoutInitially == CheckoutInit => CheckoutInv
<1>. SUFFICES ASSUME CheckoutInit PROVE CheckoutInv OBVIOUS
<1>0. MaxOwn \in Nat BY CheckoutAssumption
<1>1. CheckoutTypes
  <2>1. provider \in Providers /\ Configured(provider) /\ customers \in Nat /\ customer \in 0..customers
    BY DEF CheckoutInit
  <2>2. Idle \in [at : {"idle", "insert"}, plan : PaidPlans \cup {"free"}, as : Nat] BY DEF Idle
  <2>3. buyer \in [Buyers -> [at : {"idle", "insert"}, plan : PaidPlans \cup {"free"}, as : Nat]]
    BY <2>2 DEF CheckoutInit
  <2>4. session \in Seq(SessionRec) BY DEF CheckoutInit
  <2>5. own \in [plan : PaidPlans \cup {"free"}, status : {"active", "trialing", "canceled"}, ref : Nat]
    BY DEF CheckoutInit
  <2>6. ops \in 0..MaxOwn BY <1>0 DEF CheckoutInit
  <2>7. halfChanged \in BOOLEAN /\ endedHere \in BOOLEAN BY DEF CheckoutInit
  <2>. QED BY <2>1, <2>3, <2>4, <2>5, <2>6, <2>7 DEF CheckoutTypes
<1>2. Len(session) = 0 /\ 1..Len(session) = {} BY DEF CheckoutInit
<1>3. BuyersOK BY DEF CheckoutInit, BuyersOK, Idle
<1>4. SessionsOK /\ EventsOK /\ OwnOK /\ ActiveOK
  BY <1>2 DEF CheckoutInit, SessionsOK, EventsOK, OwnOK, ActiveOK
<1>. QED BY <1>1, <1>3, <1>4 DEF CheckoutInv

LEMMA SessionsTyped ==
    ASSUME CheckoutInv
    PROVE  /\ Len(session) \in Nat /\ DOMAIN session = 1..Len(session)
           /\ \A i \in 1..Len(session) : session[i] \in SessionRec
<1>1. session \in Seq(SessionRec) BY DEF CheckoutInv, CheckoutTypes
<1>. QED BY <1>1, LenProperties, ElementOfSeq

\* A checkout is answered: nobody has bought it yet.
LEMMA SessionAnswered ==
    ASSUME CheckoutInv, NEW plan \in PaidPlans, NEW c \in 1..customers, provider # "manual"
    PROVE  LET n == CreateCheckout(plan, c) IN
           n \in SessionRec /\ n.status = "open" /\ n.payer = IF provider = "stripe" THEN c ELSE 0
<1>1. c \in Nat /\ Configured(provider) BY DEF CheckoutInv, CheckoutTypes
<1>2. CASE provider = "stripe" BY <1>1, <1>2 DEF CreateCheckout, StripeCheckout, SessionRec
<1>3. CASE provider = "paddle" BY <1>1, <1>3 DEF CreateCheckout, PaddleCheckout, SessionRec
<1>4. CASE provider = "xendit" BY <1>1, <1>4 DEF CreateCheckout, XenditCheckout, SessionRec
<1>5. CASE provider = "paymongo" BY <1>1, <1>5 DEF CreateCheckout, PaymongoCheckout, SessionRec
<1>. QED BY <1>1, <1>2, <1>3, <1>4, <1>5 DEF Configured

\* What a checkout request that is answered leaves true.
LEMMA AnsweredStep ==
    ASSUME CheckoutInv, NEW plan \in PaidPlans, NEW c \in 1..customers, session' = Answered(plan, c),
           customer' = c, customer \in {0, c},
           UNCHANGED <<provider, customers, mail, own, halfChanged, endedHere, ops>>,
           buyer' \in [Buyers -> [at : {"idle", "insert"}, plan : PaidPlans \cup {"free"}, as : Nat]], BuyersOK'
    PROVE  CheckoutInv'
<1>1. Len(session) \in Nat /\ DOMAIN session = 1..Len(session) /\ session \in Seq(SessionRec) /\ c \in Nat \ {0}
  BY SessionsTyped DEF CheckoutInv, CheckoutTypes
<1>2. c \in 0..customers' BY DEF CheckoutInv, CheckoutTypes
<1>3. CASE provider = "manual"
  <2>1. session' = session BY <1>3 DEF Answered
  <2>2. 1..Len(session) = {} BY <1>3 DEF CheckoutInv, SessionsOK, SessionOK
  <2>3. mail = {} BY <2>2 DEF CheckoutInv, EventsOK
  <2>4. CheckoutTypes' BY <1>2, <2>1 DEF CheckoutInv, CheckoutTypes
  <2>5. SessionsOK' /\ EventsOK' BY <2>1, <2>2, <2>3 DEF SessionsOK, EventsOK
  <2>6. OwnOK' BY <2>1, <2>2 DEF CheckoutInv, OwnOK
  <2>7. ActiveOK' BY <1>3 DEF ActiveOK
  <2>. QED BY <2>4, <2>5, <2>6, <2>7 DEF CheckoutInv
<1>4. CASE provider # "manual"
  <2>1. PICK n : n = CreateCheckout(plan, c) OBVIOUS
  <2>2. n \in SessionRec /\ n.status = "open" /\ n.payer = IF provider = "stripe" THEN c ELSE 0
    BY <1>4, <2>1, SessionAnswered
  <2>3. session' = Append(session, n) BY <1>4, <2>1 DEF Answered
  <2>4. /\ session' \in Seq(SessionRec) /\ Len(session') = Len(session) + 1
        /\ (\A i \in 1..Len(session) : session'[i] = session[i]) /\ session'[Len(session) + 1] = n
    BY <1>1, <2>2, <2>3, AppendProperties
  <2>5. ASSUME NEW i \in 1..Len(session') PROVE i \in 1..Len(session) \/ (i = Len(session) + 1 /\ session'[i] = n)
    BY <1>1, <2>4
  <2>6. 1..Len(session) \subseteq 1..Len(session') BY <1>1, <2>4
  <2>7. CheckoutTypes' BY <1>2, <2>4 DEF CheckoutInv, CheckoutTypes
  <2>8. SessionsOK'
    <3>1. ASSUME NEW i \in 1..Len(session'), NEW s, s = session'[i] PROVE SessionOK(s)'
      <4>1. CASE s = n BY <1>1, <1>4, <2>2, <4>1 DEF SessionOK
      <4>2. CASE s # n
        <5>1. i \in 1..Len(session) /\ s = session[i] BY <2>4, <2>5, <3>1, <4>2
        <5>2. SessionOK(s) BY <5>1 DEF CheckoutInv, SessionsOK
        <5>. QED BY <1>1, <5>2 DEF SessionOK
      <4>. QED BY <4>1, <4>2
    <3>. QED BY <3>1 DEF SessionsOK
  <2>9. EventsOK'
    <3>1. ASSUME NEW e \in mail, NEW s, s = session'[e.of] PROVE e.of \in 1..Len(session') /\ EventOK(e, s)'
      <4>1. e.of \in 1..Len(session) BY DEF CheckoutInv, EventsOK
      <4>2. s = session[e.of] BY <2>4, <3>1, <4>1
      <4>3. EventOK(e, s) /\ SessionOK(s) BY <4>1, <4>2 DEF CheckoutInv, EventsOK, SessionsOK
      <4>4. provider \in {"stripe", "paddle"} => customer' = customer BY <4>3 DEF SessionOK
      <4>. QED BY <2>6, <4>1, <4>3, <4>4 DEF EventOK, StripeEventOK, Completed, Bought
    <3>. QED BY <3>1 DEF EventsOK
  <2>10. OwnOK' BY <2>4, <2>6 DEF CheckoutInv, OwnOK, Bought
  <2>11. ActiveOK'
    <3>1. \A i : Awaits(i)' <=> Awaits(i) BY DEF Awaits
    <3>2. \A i \in 1..Len(session') : session'[i].status = "active" => i \in 1..Len(session) /\ session'[i] = session[i]
      BY <2>2, <2>4, <2>5
    <3>3. \A i \in 1..Len(session) : i \in 1..Len(session') /\ session'[i] = session[i] BY <2>4, <2>6
    <3>. QED BY <3>1, <3>2, <3>3 DEF CheckoutInv, ActiveOK
  <2>. QED BY <2>7, <2>8, <2>9, <2>10, <2>11 DEF CheckoutInv
<1>. QED BY <1>3, <1>4

LEMMA BuyerGone ==
    ASSUME CheckoutInv, NEW b \in Buyers, buyer' = [buyer EXCEPT ![b] = Idle], customers' = customers
    PROVE  /\ buyer' \in [Buyers -> [at : {"idle", "insert"}, plan : PaidPlans \cup {"free"}, as : Nat]]
           /\ BuyersOK'
<1>1. buyer \in [Buyers -> [at : {"idle", "insert"}, plan : PaidPlans \cup {"free"}, as : Nat]] /\ customers \in Nat
  BY DEF CheckoutInv, CheckoutTypes
<1>2. Idle \in [at : {"idle", "insert"}, plan : PaidPlans \cup {"free"}, as : Nat] BY DEF Idle
<1>3. ASSUME NEW a \in Buyers, NEW q, q = buyer'[a]
      PROVE  q.as <= customers /\ (q.at = "insert" => q.plan \in PaidPlans /\ q.as # 0)
  <2>1. CASE q = Idle BY <1>1, <2>1 DEF Idle
  <2>2. CASE q # Idle
    <3>1. q = buyer[a] BY <1>1, <1>3, <2>2
    <3>. QED BY <3>1 DEF CheckoutInv, BuyersOK
  <2>. QED BY <2>1, <2>2
<1>. QED BY <1>1, <1>2, <1>3 DEF BuyersOK

LEMMA CheckoutAsCustomerStep ==
    ASSUME CheckoutInv, NEW b \in Buyers, NEW plan \in PaidPlans, CheckoutAsCustomer(b, plan)
    PROVE  CheckoutInv'
<1>1. customer \in 1..customers /\ customers \in Nat BY DEF CheckoutInv, CheckoutTypes, CheckoutAsCustomer
<1>2. /\ session' = Answered(plan, customer)
      /\ UNCHANGED <<provider, customer, customers, buyer, mail, own, halfChanged, endedHere, ops>>
  BY DEF CheckoutAsCustomer
<1>3. BuyersOK' BY <1>2 DEF CheckoutInv, BuyersOK
<1>4. buyer' \in [Buyers -> [at : {"idle", "insert"}, plan : PaidPlans \cup {"free"}, as : Nat]]
  BY <1>2 DEF CheckoutInv, CheckoutTypes
<1>. QED BY <1>1, <1>2, <1>3, <1>4, AnsweredStep

LEMMA InsertCustomerStep ==
    ASSUME CheckoutInv, NEW b \in Buyers, InsertCustomer(b)
    PROVE  CheckoutInv'
<1>1. PICK q : q = buyer[b] OBVIOUS
<1>2. /\ q.at = "insert" /\ customer = 0 /\ customer' = q.as /\ session' = Answered(q.plan, q.as)
      /\ buyer' = [buyer EXCEPT ![b] = Idle]
      /\ UNCHANGED <<provider, customers, mail, own, halfChanged, endedHere, ops>>
  BY <1>1 DEF InsertCustomer, RowFree
<1>3. q.as \in Nat /\ customers \in Nat BY <1>1 DEF CheckoutInv, CheckoutTypes
<1>4. q.plan \in PaidPlans /\ q.as \in 1..customers BY <1>1, <1>2, <1>3 DEF CheckoutInv, BuyersOK
<1>. QED BY <1>2, <1>4, BuyerGone, AnsweredStep

\* Requests that get no checkout: a customer more at the provider, or none.
LEMMA BuyersMove ==
    ASSUME CheckoutInv, UNCHANGED <<provider, customer, session, mail, own, halfChanged, endedHere>>,
           customers' \in Nat, customers <= customers', ops' \in 0..MaxOwn,
           buyer' \in [Buyers -> [at : {"idle", "insert"}, plan : PaidPlans \cup {"free"}, as : Nat]], BuyersOK'
    PROVE  CheckoutInv'
<1>0. customers \in Nat /\ customer \in 0..customers BY DEF CheckoutInv, CheckoutTypes
<1>1. customer' \in 0..customers' BY <1>0
<1>2. CheckoutTypes' BY <1>1 DEF CheckoutInv, CheckoutTypes
<1>3. 1..customers \subseteq 1..customers' BY <1>0
<1>4. SessionsOK'
  <2>1. ASSUME NEW i \in 1..Len(session), NEW s, s = session[i] PROVE SessionOK(s)'
    <3>1. SessionOK(s) BY <2>1 DEF CheckoutInv, SessionsOK
    <3>. QED BY <1>3, <3>1 DEF SessionOK
  <2>. QED BY <2>1 DEF SessionsOK
<1>5. EventsOK' BY DEF CheckoutInv, EventsOK, EventOK, StripeEventOK, Completed, Bought
<1>6. OwnOK' BY DEF CheckoutInv, OwnOK, Bought
<1>7. ActiveOK' BY DEF CheckoutInv, ActiveOK, Awaits
<1>. QED BY <1>2, <1>4, <1>5, <1>6, <1>7 DEF CheckoutInv

LEMMA CheckoutFailsStep ==
    ASSUME CheckoutInv, NEW b \in Buyers, CheckoutFails(b)
    PROVE  CheckoutInv'
<1>1. /\ ops' = (IF RowFree THEN ops + 1 ELSE ops) /\ (~RowFree \/ ops < MaxOwn)
      /\ buyer' = [buyer EXCEPT ![b] = Idle]
      /\ UNCHANGED <<provider, customer, customers, session, mail, own, halfChanged, endedHere>>
  BY DEF CheckoutFails
<1>2. customers \in Nat /\ ops \in 0..MaxOwn /\ MaxOwn \in Nat BY CheckoutAssumption DEF CheckoutInv, CheckoutTypes
<1>3. customers' \in Nat /\ customers <= customers' /\ ops' \in 0..MaxOwn BY <1>1, <1>2
<1>. QED BY <1>1, <1>3, BuyerGone, BuyersMove

LEMMA CheckoutAsStrangerStep ==
    ASSUME CheckoutInv, NEW b \in Buyers, NEW plan \in PaidPlans, CheckoutAsStranger(b, plan)
    PROVE  CheckoutInv'
<1>1. PICK n : n = [at |-> "insert", plan |-> plan, as |-> customers + 1] OBVIOUS
<1>2. /\ customers' = customers + 1 /\ buyer' = [buyer EXCEPT ![b] = n]
      /\ UNCHANGED <<provider, customer, session, mail, own, halfChanged, endedHere, ops>>
  BY <1>1 DEF CheckoutAsStranger
<1>3. customers \in Nat /\ ops \in 0..MaxOwn
      /\ buyer \in [Buyers -> [at : {"idle", "insert"}, plan : PaidPlans \cup {"free"}, as : Nat]]
  BY DEF CheckoutInv, CheckoutTypes
<1>4. /\ n \in [at : {"idle", "insert"}, plan : PaidPlans \cup {"free"}, as : Nat]
      /\ n.as <= customers' /\ n.plan \in PaidPlans /\ n.as # 0
  BY <1>1, <1>2, <1>3
<1>5. buyer' \in [Buyers -> [at : {"idle", "insert"}, plan : PaidPlans \cup {"free"}, as : Nat]] BY <1>2, <1>3, <1>4
<1>6. ASSUME NEW a \in Buyers, NEW q, q = buyer'[a]
      PROVE  q.as <= customers' /\ (q.at = "insert" => q.plan \in PaidPlans /\ q.as # 0)
  <2>1. CASE q = n BY <1>4, <2>1
  <2>2. CASE q # n
    <3>1. q = buyer[a] /\ q.as \in Nat BY <1>2, <1>3, <1>6, <2>2
    <3>2. q.as <= customers /\ (q.at = "insert" => q.plan \in PaidPlans /\ q.as # 0) BY <3>1 DEF CheckoutInv, BuyersOK
    <3>. QED BY <1>2, <1>3, <3>1, <3>2
  <2>. QED BY <2>1, <2>2
<1>7. BuyersOK' BY <1>6 DEF BuyersOK
<1>8. customers' \in Nat /\ customers <= customers' /\ ops' \in 0..MaxOwn BY <1>2, <1>3
<1>. QED BY <1>2, <1>5, <1>7, <1>8, BuyersMove

\* One checkout changes at the provider, and events go out that are right about it.
LEMMA SessionMoves ==
    ASSUME CheckoutInv, NEW i \in 1..Len(session), NEW n \in SessionRec, session' = [session EXCEPT ![i] = n],
           UNCHANGED <<provider, customer, customers, buyer, own, halfChanged, endedHere>>, ops' \in 0..MaxOwn,
           mail \subseteq mail', SessionOK(n),
           \A e \in mail' : e \in mail \/ (e.of = i /\ EventOK(e, n)),
           n.plan = session[i].plan, session[i].status \in {"open", "active"},
           session[i].status = "active" => n.status \in {"active", "canceled"} /\ n.payer = session[i].payer,
           session[i].status = "active" => provider = "stripe",
           provider \in {"stripe", "paddle"} /\ n.status = "active" /\ session[i].status # "active" =>
             \E e \in mail' : e.of = i /\ e.type \in {"checkout.session.completed", "transaction.completed"}
    PROVE  CheckoutInv'
<1>1. Len(session) \in Nat /\ session \in Seq(SessionRec) BY SessionsTyped DEF CheckoutInv, CheckoutTypes
<1>2. /\ session' \in Seq(SessionRec) /\ Len(session') = Len(session)
      /\ \A j \in 1..Len(session) : session'[j] = IF j = i THEN n ELSE session[j]
  BY <1>1, ExceptSeq
<1>3. CheckoutTypes' BY <1>2 DEF CheckoutInv, CheckoutTypes
<1>4. BuyersOK' BY DEF CheckoutInv, BuyersOK
<1>5. SessionsOK'
  <2>1. ASSUME NEW j \in 1..Len(session'), NEW s, s = session'[j] PROVE SessionOK(s)'
    <3>1. SessionOK(s) BY <1>2, <2>1 DEF CheckoutInv, SessionsOK
    <3>. QED BY <3>1 DEF SessionOK
  <2>. QED BY <2>1 DEF SessionsOK
<1>6. EventsOK'
  <2>1. ASSUME NEW e \in mail', NEW s, s = session'[e.of] PROVE e.of \in 1..Len(session') /\ EventOK(e, s)'
    <3>1. e.of \in 1..Len(session) BY DEF CheckoutInv, EventsOK
    <3>2. EventOK(e, s)
      <4>1. CASE e \notin mail BY <1>2, <2>1, <4>1
      <4>2. CASE e \in mail /\ e.of # i BY <1>2, <2>1, <3>1, <4>2 DEF CheckoutInv, EventsOK
      <4>3. CASE e \in mail /\ e.of = i
        <5>1. PICK o : o = session[i] OBVIOUS
        <5>2. EventOK(e, o) /\ s = n /\ o.plan = n.plan BY <1>2, <2>1, <4>3, <5>1 DEF CheckoutInv, EventsOK
        <5>3. CASE o.status = "active"
          <6>1. n.status \in {"active", "canceled"} /\ provider = "stripe" BY <5>1, <5>3
          <6>. QED BY <5>2, <5>3, <6>1 DEF EventOK, StripeEventOK, Completed, Bought
        <5>4. CASE o.status = "open"
          <6>1. provider # "paddle" BY <5>2, <5>4 DEF EventOK
          <6>. QED BY <5>2, <5>4, <6>1 DEF EventOK, StripeEventOK, Bought
        <5>. QED BY <5>1, <5>3, <5>4
      <4>. QED BY <4>1, <4>2, <4>3
    <3>. QED BY <1>2, <3>1, <3>2 DEF EventOK, StripeEventOK, Completed, Bought
  <2>. QED BY <2>1 DEF EventsOK
<1>7. OwnOK'
  <2>1. OwnOK BY DEF CheckoutInv
  <2>2. ASSUME own.ref # 0 PROVE Bought(session'[own.ref]) /\ session'[own.ref].plan = session[own.ref].plan
    <3>1. own.ref \in 1..Len(session) /\ Bought(session[own.ref]) BY <2>1, <2>2 DEF OwnOK
    <3>2. CASE own.ref = i
      <4>1. session[i].status = "active" BY <3>1, <3>2 DEF Bought
      <4>. QED BY <1>2, <3>2, <4>1 DEF Bought
    <3>3. CASE own.ref # i BY <1>2, <3>1, <3>3
    <3>. QED BY <3>2, <3>3
  <2>. QED BY <1>2, <2>1, <2>2 DEF OwnOK, Bought
<1>8. ActiveOK'
  <2>. SUFFICES ASSUME provider \in {"stripe", "paddle"}, ~endedHere,
                       \A j \in 1..Len(session) : session'[j].status # "canceled",
                       NEW j \in 1..Len(session), session'[j].status = "active", session'[j].payer # Stranger, ~Awaits(j)'
                PROVE  own.status = "active" /\ own.plan # "free"
    BY <1>2 DEF ActiveOK
  <2>1. ~Awaits(j) BY DEF Awaits
  <2>2. session[j].status = "active" /\ session[j].payer # Stranger
    <3>1. CASE j = i
      <4>1. session[i].status = "active" BY <1>2, <3>1 DEF Awaits
      <4>. QED BY <1>2, <3>1, <4>1
    <3>2. CASE j # i BY <1>2, <3>2
    <3>. QED BY <3>1, <3>2
  <2>3. \A k \in 1..Len(session) : session[k].status # "canceled" BY <1>2
  <2>. QED BY <2>1, <2>2, <2>3 DEF CheckoutInv, ActiveOK
<1>. QED BY <1>3, <1>4, <1>5, <1>6, <1>7, <1>8 DEF CheckoutInv

LEMMA PayStep ==
    ASSUME CheckoutInv, NEW i \in 1..Len(session), NEW who \in {0, Stranger} \cup 1..customers, Pay(i, who)
    PROVE  CheckoutInv'
<1>0. /\ customers \in Nat /\ customer \in 0..customers /\ Configured(provider) /\ ops \in 0..MaxOwn
      /\ session \in Seq(SessionRec)
  BY DEF CheckoutInv, CheckoutTypes
<1>1. PICK s : s = session[i] OBVIOUS
<1>2. s \in SessionRec /\ s.status = "open" BY <1>1, SessionsTyped DEF Pay
<1>3. SessionOK(s) BY <1>1 DEF CheckoutInv, SessionsOK
<1>4. who \in Nat BY <1>0 DEF Stranger
<1>5. PICK n : n = [s EXCEPT !.status = "active", !.payer = who] OBVIOUS
<1>6. n \in SessionRec /\ n.status = "active" /\ n.payer = who /\ n.plan = s.plan /\ s.plan \in PaidPlans
  BY <1>2, <1>4, <1>5 DEF SessionRec
<1>7. session' = [session EXCEPT ![i] = n]
  <2>1. session' = [session EXCEPT ![i].status = "active", ![i].payer = who] BY DEF Pay
  <2>2. i \in DOMAIN session BY SessionsTyped
  <2>. QED BY <1>1, <1>5, <2>1, <2>2
<1>8. UNCHANGED <<provider, customer, customers, buyer, own, halfChanged, endedHere, ops>> BY DEF Pay
<1>10. own.ref # i BY <1>1, <1>2 DEF CheckoutInv, OwnOK, Bought
<1>11. ASSUME NEW E, mail' = mail \cup E, \A e \in E : e.of = i /\ EventOK(e, n), SessionOK(n),
              provider \in {"stripe", "paddle"} =>
                \E e \in E : e.type \in {"checkout.session.completed", "transaction.completed"}
       PROVE  CheckoutInv'
  <2>1. mail \subseteq mail' /\ ops' \in 0..MaxOwn BY <1>0, <1>8, <1>11
  <2>2. \A e \in mail' : e \in mail \/ (e.of = i /\ EventOK(e, n)) BY <1>11
  <2>3. provider \in {"stripe", "paddle"} =>
          \E e \in mail' : e.of = i /\ e.type \in {"checkout.session.completed", "transaction.completed"}
    BY <1>11
  <2>. QED BY <1>1, <1>2, <1>6, <1>7, <1>8, <1>11, <2>1, <2>2, <2>3, SessionMoves
<1>12. CASE provider = "stripe"
  <2>1. who = s.payer /\ s.payer = customer BY <1>1, <1>3, <1>12 DEF Pay, SessionOK
  <2>2. PICK x, y : /\ x = RawEvent(i, "checkout.session.completed", who, "complete")
                    /\ y = RawEvent(i, "customer.subscription.created", who, "active")
    OBVIOUS
  <2>3. mail' = mail \cup {x, y} BY <1>12, <2>2 DEF Pay
  <2>4. SessionOK(n) BY <1>3, <1>6, <1>12, <2>1 DEF SessionOK
  <2>5. x = Completed(n, i) /\ x.of = i /\ x.payer = who /\ x.type = "checkout.session.completed"
    BY <1>1, <1>6, <2>1, <2>2 DEF Completed, RawEvent
  <2>6. EventOK(x, n) BY <1>6, <1>10, <1>12, <2>1, <2>5 DEF EventOK, StripeEventOK, Bought
  <2>7. y.of = i /\ EventOK(y, n) BY <1>12, <2>1, <2>2 DEF EventOK, StripeEventOK, RawEvent
  <2>8. PICK E : E = {x, y} OBVIOUS
  <2>9. mail' = mail \cup E BY <2>3, <2>8
  <2>10. \A e \in E : e.of = i /\ EventOK(e, n) BY <2>5, <2>6, <2>7, <2>8
  <2>11. provider \in {"stripe", "paddle"} =>
            \E e \in E : e.type \in {"checkout.session.completed", "transaction.completed"}
    BY <2>5, <2>8
  <2>. QED BY <1>11, <2>4, <2>9, <2>10, <2>11
<1>13. CASE provider = "paddle"
  <2>1. who \in {customer, Stranger} BY <1>13 DEF Pay
  <2>2. PICK x : x = RawEvent(i, "transaction.completed", who, "completed") OBVIOUS
  <2>3. mail' = mail \cup {x} BY <1>13, <2>2 DEF Pay
  <2>4. SessionOK(n) BY <1>3, <1>6, <1>13, <2>1 DEF SessionOK
  <2>5. x.of = i /\ x.payer = who /\ x.type = "transaction.completed" /\ x.plan \in PaidPlans BY <1>1, <1>6, <2>2 DEF RawEvent
  <2>6. EventOK(x, n) BY <1>6, <1>13, <2>1, <2>5 DEF EventOK
  <2>7. PICK E : E = {x} OBVIOUS
  <2>8. mail' = mail \cup E BY <2>3, <2>7
  <2>9. \A e \in E : e.of = i /\ EventOK(e, n) BY <2>5, <2>6, <2>7
  <2>10. provider \in {"stripe", "paddle"} =>
            \E e \in E : e.type \in {"checkout.session.completed", "transaction.completed"}
    BY <2>5, <2>7
  <2>. QED BY <1>11, <2>4, <2>8, <2>9, <2>10
<1>14. CASE provider = "xendit"
  <2>1. who = 0 BY <1>14 DEF Pay
  <2>2. PICK x : x = RawEvent(i, "PAID", who, "PAID") OBVIOUS
  <2>3. mail' = mail \cup {x} BY <1>14, <2>2 DEF Pay
  <2>4. SessionOK(n) BY <1>3, <1>6, <1>14, <2>1 DEF SessionOK
  <2>5. x.of = i /\ x.payer = who /\ x.type = "PAID" BY <1>1, <1>6, <2>2 DEF RawEvent
  <2>6. EventOK(x, n) BY <1>6, <1>14, <2>1, <2>5 DEF EventOK
  <2>7. PICK E : E = {x} OBVIOUS
  <2>8. mail' = mail \cup E BY <2>3, <2>7
  <2>9. \A e \in E : e.of = i /\ EventOK(e, n) BY <2>5, <2>6, <2>7
  <2>10. provider \in {"stripe", "paddle"} =>
            \E e \in E : e.type \in {"checkout.session.completed", "transaction.completed"}
    BY <1>14
  <2>. QED BY <1>11, <2>4, <2>8, <2>9, <2>10
<1>15. CASE provider = "paymongo"
  <2>1. who = 0 BY <1>15 DEF Pay
  <2>2. PICK x : x = RawEvent(i, "checkout_session.completed", who, "paid") OBVIOUS
  <2>3. mail' = mail \cup {x} BY <1>15, <2>2 DEF Pay
  <2>4. SessionOK(n) BY <1>3, <1>6, <1>15, <2>1 DEF SessionOK
  <2>5. x.of = i /\ x.payer = who /\ x.type = "checkout_session.completed" BY <1>1, <1>6, <2>2 DEF RawEvent
  <2>6. EventOK(x, n) BY <1>6, <1>15, <2>1, <2>5 DEF EventOK
  <2>7. PICK E : E = {x} OBVIOUS
  <2>8. mail' = mail \cup E BY <2>3, <2>7
  <2>9. \A e \in E : e.of = i /\ EventOK(e, n) BY <2>5, <2>6, <2>7
  <2>10. provider \in {"stripe", "paddle"} =>
            \E e \in E : e.type \in {"checkout.session.completed", "transaction.completed"}
    BY <1>15
  <2>. QED BY <1>11, <2>4, <2>8, <2>9, <2>10
<1>16. provider # "manual" BY <1>3 DEF SessionOK
<1>. QED BY <1>0, <1>12, <1>13, <1>14, <1>15, <1>16 DEF Configured

LEMMA PageExpiresStep ==
    ASSUME CheckoutInv, NEW i \in 1..Len(session), PageExpires(i)
    PROVE  CheckoutInv'
<1>0. ops \in 0..MaxOwn BY DEF CheckoutInv, CheckoutTypes
<1>1. PICK s : s = session[i] OBVIOUS
<1>2. s \in SessionRec /\ s.status = "open" BY <1>1, SessionsTyped DEF PageExpires
<1>3. SessionOK(s) BY <1>1 DEF CheckoutInv, SessionsOK
<1>4. PICK n : n = [s EXCEPT !.status = "expired"] OBVIOUS
<1>5. n \in SessionRec /\ n.status = "expired" /\ n.payer = s.payer /\ n.plan = s.plan BY <1>2, <1>4 DEF SessionRec
<1>6. session' = [session EXCEPT ![i] = n]
  <2>1. session' = [session EXCEPT ![i].status = "expired"] BY DEF PageExpires
  <2>2. i \in DOMAIN session BY SessionsTyped
  <2>. QED BY <1>1, <1>4, <2>1, <2>2
<1>7. PICK x : x = RawEvent(i, "EXPIRED", 0, "EXPIRED") OBVIOUS
<1>8. x.of = i /\ x.payer = 0 BY <1>7 DEF RawEvent
<1>9. /\ mail' = IF provider = "xendit" THEN mail \cup {x} ELSE mail
      /\ UNCHANGED <<provider, customer, customers, buyer, own, halfChanged, endedHere, ops>>
  BY <1>7 DEF PageExpires
<1>10. SessionOK(n) BY <1>3, <1>5 DEF SessionOK
<1>11. \A e \in mail' : e \in mail \/ (e.of = i /\ EventOK(e, n)) BY <1>8, <1>9 DEF EventOK
<1>12. mail \subseteq mail' /\ ops' \in 0..MaxOwn BY <1>0, <1>9
<1>. QED BY <1>1, <1>2, <1>5, <1>6, <1>9, <1>10, <1>11, <1>12, SessionMoves

LEMMA StripeMovesStep ==
    ASSUME CheckoutInv, NEW i \in 1..Len(session), NEW type, NEW status, StripeMoves(i, type, status),
           \/ type = "customer.subscription.updated" /\ status = "active"
           \/ type = "customer.subscription.deleted" /\ status = "canceled"
    PROVE  CheckoutInv'
<1>0. ops \in 0..MaxOwn /\ MaxOwn \in Nat BY CheckoutAssumption DEF CheckoutInv, CheckoutTypes
<1>1. PICK s : s = session[i] OBVIOUS
<1>2. s \in SessionRec /\ s.status = "active" /\ provider = "stripe" BY <1>1, SessionsTyped DEF StripeMoves
<1>3. SessionOK(s) BY <1>1 DEF CheckoutInv, SessionsOK
<1>4. PICK n : n = [s EXCEPT !.status = status] OBVIOUS
<1>5. n \in SessionRec /\ n.status = status /\ n.payer = s.payer /\ n.plan = s.plan BY <1>2, <1>4 DEF SessionRec
<1>6. session' = [session EXCEPT ![i] = n]
  <2>1. session' = [session EXCEPT ![i].status = status] BY DEF StripeMoves
  <2>2. i \in DOMAIN session BY SessionsTyped
  <2>. QED BY <1>1, <1>4, <2>1, <2>2
<1>7. PICK x : x = RawEvent(i, type, s.payer, status) OBVIOUS
<1>8. x.of = i /\ x.payer = s.payer /\ x.type = type /\ x.status = status BY <1>7 DEF RawEvent
<1>9. /\ mail' = mail \cup {x} /\ ops < MaxOwn /\ ops' = ops + 1
      /\ UNCHANGED <<provider, customer, customers, buyer, own, halfChanged, endedHere>>
  BY <1>1, <1>7 DEF StripeMoves
<1>10. SessionOK(n) BY <1>2, <1>3, <1>5 DEF SessionOK
<1>11. s.payer = customer BY <1>2, <1>3 DEF SessionOK
<1>12. EventOK(x, n) BY <1>2, <1>5, <1>8, <1>11 DEF EventOK, StripeEventOK
<1>13. \A e \in mail' : e \in mail \/ (e.of = i /\ EventOK(e, n)) BY <1>8, <1>9, <1>12
<1>14. mail \subseteq mail' /\ ops' \in 0..MaxOwn BY <1>0, <1>9
<1>. QED BY <1>1, <1>2, <1>5, <1>6, <1>9, <1>10, <1>13, <1>14, SessionMoves

\* Where the organization's subscription goes without any step at the provider.
LEMMA OwnMoves ==
    ASSUME CheckoutInv, UNCHANGED <<provider, buyer, session>>, mail' \subseteq mail,
           customers' \in Nat, customers <= customers', customer' \in 0..customers',
           customer' = customer \/ provider = "manual",
           own' \in [plan : PaidPlans \cup {"free"}, status : {"active", "trialing", "canceled"}, ref : Nat],
           ops' \in 0..MaxOwn, halfChanged' \in BOOLEAN, endedHere' \in BOOLEAN, OwnOK', ActiveOK',
           provider = "stripe" => \A e \in mail' : e.of = own'.ref => e.of = own.ref \/ e.type # "checkout.session.completed"
    PROVE  CheckoutInv'
<1>1. CheckoutTypes' BY DEF CheckoutInv, CheckoutTypes
<1>2. BuyersOK'
  <2>1. ASSUME NEW b \in Buyers, NEW q, q = buyer[b]
        PROVE  q.as <= customers' /\ (q.at = "insert" => q.plan \in PaidPlans /\ q.as # 0)
    <3>1. q.as \in Nat /\ customers \in Nat BY <2>1 DEF CheckoutInv, CheckoutTypes
    <3>2. q.as <= customers /\ (q.at = "insert" => q.plan \in PaidPlans /\ q.as # 0)
      BY <2>1 DEF CheckoutInv, BuyersOK
    <3>. QED BY <3>1, <3>2
  <2>. QED BY <2>1 DEF BuyersOK
<1>3. SessionsOK'
  <2>0. customers \in Nat BY DEF CheckoutInv, CheckoutTypes
  <2>1. 1..customers \subseteq 1..customers' BY <2>0
  <2>2. ASSUME NEW i \in 1..Len(session), NEW s, s = session[i] PROVE SessionOK(s)'
    <3>1. SessionOK(s) BY <2>2 DEF CheckoutInv, SessionsOK
    <3>2. customer' = customer BY <3>1 DEF SessionOK
    <3>. QED BY <2>1, <3>1, <3>2 DEF SessionOK
  <2>. QED BY <2>2 DEF SessionsOK
<1>4. EventsOK'
  <2>1. ASSUME NEW e \in mail', NEW s, s = session[e.of] PROVE e.of \in 1..Len(session) /\ EventOK(e, s)'
    <3>1. e.of \in 1..Len(session) /\ EventOK(e, s) BY <2>1 DEF CheckoutInv, EventsOK
    <3>2. customer' = customer BY <3>1 DEF CheckoutInv, SessionsOK, SessionOK
    <3>3. provider = "stripe" /\ e = Completed(s, e.of) /\ own.ref # e.of => own'.ref # e.of BY DEF Completed
    <3>4. provider = "stripe" => StripeEventOK(e, s)'
      BY <3>1, <3>2, <3>3 DEF EventOK, StripeEventOK, Completed, Bought
    <3>. QED BY <3>1, <3>4 DEF EventOK
  <2>. QED BY <2>1 DEF EventsOK
<1>. QED BY <1>1, <1>2, <1>3, <1>4 DEF CheckoutInv

OwnRec == [plan : PaidPlans \cup {"free"}, status : {"active", "trialing", "canceled"}, ref : Nat]

\* What an event does to the subscription, by provider.
LEMMA AppliedStripe ==
    ASSUME CheckoutInv, NEW e \in mail, provider = "stripe"
    PROVE  LET a == Applied(Translate(e)) IN
           \/ a = [plan |-> session[e.of].plan, status |-> "active", ref |-> e.of] /\ e.type = "checkout.session.completed"
           \/ e.type # "checkout.session.completed" /\ a \in {own, [own EXCEPT !.status = "active"]}
           \/ e.type # "checkout.session.completed" /\ a = [own EXCEPT !.status = "canceled"] /\ session[e.of].status = "canceled"
<1>1. PICK s : s = session[e.of] OBVIOUS
<1>2. e.of \in 1..Len(session) /\ StripeEventOK(e, s) BY <1>1 DEF CheckoutInv, EventsOK, EventOK
<1>3. customer # 0 /\ e.payer = customer BY <1>2 DEF CheckoutInv, SessionsOK, SessionOK, StripeEventOK
<1>4. Translate(e) = TranslateStripe(e) BY DEF Translate
<1>5. s.plan \in PaidPlans /\ s.plan # "none" /\ e.of # 0
  BY <1>1, <1>2, SessionsTyped, CheckoutAssumption DEF SessionRec
<1>6. PICK t : t = TranslateStripe(e) OBVIOUS
<1>7. CASE e = Completed(s, e.of)
  <2>1. e.type = "checkout.session.completed" /\ e.plan = s.plan BY <1>7 DEF Completed
  <2>2. t.type = "checkout.completed" /\ t.customer = customer /\ t.ref = e.of /\ t.plan = s.plan
    BY <1>3, <1>6, <2>1 DEF TranslateStripe, Event
  <2>3. Applied(t) = OnPlan(t.plan, t.ref) BY <1>3, <1>5, <2>2 DEF Applied, Resolves
  <2>. QED BY <1>1, <1>4, <1>5, <1>6, <2>1, <2>2, <2>3 DEF OnPlan
<1>8. CASE e.type \in {"customer.subscription.created", "customer.subscription.updated"} /\ e.status = "active"
  <2>1. t.type \in {"subscription.created", "subscription.updated"} /\ t.customer = customer /\ t.status = "active"
    BY <1>3, <1>6, <1>8 DEF TranslateStripe, Event
  <2>2. Applied(t) \in {own, [own EXCEPT !.status = "active"]} BY <1>3, <2>1 DEF Applied, Resolves
  <2>. QED BY <1>4, <1>6, <1>8, <2>2
<1>9. CASE e.type = "customer.subscription.deleted" /\ s.status = "canceled"
  <2>1. t.type = "subscription.canceled" /\ t.customer = customer BY <1>3, <1>6, <1>9 DEF TranslateStripe, Event
  <2>2. Applied(t) \in {own, [own EXCEPT !.status = "canceled"]} BY <1>3, <2>1 DEF Applied, Resolves
  <2>. QED BY <1>1, <1>4, <1>6, <1>9, <2>2
<1>. QED BY <1>2, <1>7, <1>8, <1>9 DEF StripeEventOK

LEMMA AppliedElsewhere ==
    ASSUME CheckoutInv, NEW e \in mail, provider # "stripe"
    PROVE  LET a == Applied(Translate(e)) IN
           \/ a = own /\ (provider = "paddle" => e.payer # customer)
           \/ provider = "paddle" /\ a = [plan |-> e.plan, status |-> "active", ref |-> 0] /\ e.plan \in PaidPlans
<1>1. PICK s : s = session[e.of] OBVIOUS
<1>2. e.of \in 1..Len(session) /\ EventOK(e, s) /\ SessionOK(s)
  BY <1>1 DEF CheckoutInv, EventsOK, SessionsOK
<1>3. own.ref = 0 /\ Configured(provider) /\ provider # "manual" BY <1>2 DEF CheckoutInv, CheckoutTypes, OwnOK, SessionOK
<1>4. PICK t : t = Translate(e) OBVIOUS
<1>5. CASE provider = "paddle"
  <2>1. t = Event("checkout.completed", e.payer, 0, e.plan, e.status) BY <1>2, <1>4, <1>5 DEF Translate, TranslatePaddle, EventOK
  <2>2. t.type = "checkout.completed" /\ t.customer = e.payer /\ t.ref = 0 /\ t.plan = e.plan BY <2>1 DEF Event
  <2>3. e.plan \in PaidPlans /\ e.plan # "none" /\ customer # 0
    BY <1>2, <1>5, CheckoutAssumption DEF EventOK, SessionOK
  <2>4. CASE e.payer = customer
    <3>1. Applied(t) = OnPlan(e.plan, 0) BY <2>2, <2>3, <2>4 DEF Applied, Resolves
    <3>. QED BY <1>3, <1>4, <1>5, <2>3, <3>1 DEF OnPlan
  <2>5. CASE e.payer # customer
    <3>1. Applied(t) = own BY <2>2, <2>5 DEF Applied, Resolves
    <3>. QED BY <1>4, <2>5, <3>1
  <2>. QED BY <2>4, <2>5
<1>6. CASE provider = "xendit"
  <2>1. t.customer = 0 /\ t.ref = 0
    BY <1>2, <1>4, <1>6 DEF Translate, TranslateXendit, Event, NotTranslated, EventOK
  <2>2. Applied(t) = own BY <2>1 DEF Applied, Resolves
  <2>. QED BY <1>4, <1>6, <2>2
<1>7. CASE provider = "paymongo"
  <2>1. t.customer = 0 /\ t.ref = 0 BY <1>4, <1>7 DEF Translate, TranslatePaymongo, Event, NotTranslated
  <2>2. Applied(t) = own BY <2>1 DEF Applied, Resolves
  <2>. QED BY <1>4, <1>7, <2>2
<1>. QED BY <1>3, <1>5, <1>6, <1>7 DEF Configured

LEMMA DeliverStep ==
    ASSUME CheckoutInv, NEW e \in mail, Deliver(e)
    PROVE  CheckoutInv'
<1>1. PICK a : a = Applied(Translate(e)) OBVIOUS
<1>2. /\ mail' = mail \ {e} /\ own' = a
      /\ UNCHANGED <<provider, customer, customers, buyer, session, halfChanged, endedHere, ops>>
  BY <1>1 DEF Deliver
<1>3. /\ customers' \in Nat /\ customers <= customers' /\ customer' \in 0..customers' /\ ops' \in 0..MaxOwn
      /\ own \in OwnRec
  BY <1>2 DEF CheckoutInv, CheckoutTypes, OwnRec
<1>4. halfChanged' \in BOOLEAN /\ endedHere' \in BOOLEAN BY <1>2 DEF CheckoutInv, CheckoutTypes
<1>5. PICK s : s = session[e.of] OBVIOUS
<1>6. /\ e.of \in 1..Len(session) /\ EventOK(e, s) /\ SessionOK(s) /\ s \in SessionRec /\ s.plan # "free"
      /\ e.of \in Nat \ {0}
  BY <1>5, SessionsTyped, CheckoutAssumption DEF CheckoutInv, EventsOK, SessionsOK, SessionRec
<1>7. OwnOK /\ ActiveOK BY DEF CheckoutInv
<1>8. \A i : i # e.of \/ e.type \notin {"checkout.session.completed", "transaction.completed"} =>
               (Awaits(i)' <=> Awaits(i))
  BY <1>2 DEF Awaits
<1>9. ASSUME a.status = "active" /\ a.plan # "free" PROVE ActiveOK' BY <1>2, <1>9 DEF ActiveOK
<1>10. CASE provider = "stripe" /\ e.type = "checkout.session.completed"
  <2>1. a = [plan |-> s.plan, status |-> "active", ref |-> e.of] BY <1>1, <1>5, <1>10, AppliedStripe
  <2>2. a \in OwnRec BY <1>6, <2>1 DEF OwnRec, SessionRec
  <2>3. Bought(s) /\ e = Completed(s, e.of) BY <1>6, <1>10 DEF EventOK, StripeEventOK
  <2>4. OwnOK' BY <1>2, <1>5, <1>6, <1>10, <2>1, <2>3 DEF OwnOK, Bought
  <2>5. ActiveOK' BY <1>6, <1>9, <2>1
  <2>6. ASSUME NEW x \in mail', x.of = e.of, x.type = "checkout.session.completed" PROVE FALSE
    <3>1. EventOK(x, s) BY <1>2, <1>5, <2>6 DEF CheckoutInv, EventsOK
    <3>2. x = Completed(s, e.of) BY <1>10, <2>6, <3>1 DEF EventOK, StripeEventOK
    <3>. QED BY <1>2, <2>3, <3>2
  <2>7. \A x \in mail' : x.of = own'.ref => x.of = own.ref \/ x.type # "checkout.session.completed"
    BY <1>2, <2>1, <2>6
  <2>. QED BY <1>2, <1>3, <1>4, <2>2, <2>4, <2>5, <2>7, OwnMoves DEF OwnRec
<1>11. CASE provider = "stripe" /\ e.type # "checkout.session.completed"
  <2>1. \/ a \in {own, [own EXCEPT !.status = "active"]}
        \/ a = [own EXCEPT !.status = "canceled"] /\ s.status = "canceled"
    BY <1>1, <1>5, <1>11, AppliedStripe
  <2>2. /\ a \in OwnRec /\ a.ref = own.ref /\ a.plan = own.plan
        /\ a.status \in {own.status, "active"} \/ s.status = "canceled"
    BY <1>3, <2>1 DEF OwnRec
  <2>3. OwnOK' BY <1>2, <1>7, <2>2 DEF OwnOK, Bought
  <2>4. e.type # "transaction.completed" BY <1>6, <1>11 DEF EventOK, StripeEventOK, Completed
  <2>5. \A i : Awaits(i)' <=> Awaits(i) BY <1>8, <1>11, <2>4
  <2>6. ActiveOK' BY <1>2, <1>5, <1>6, <1>7, <2>2, <2>5 DEF ActiveOK
  <2>7. \A x \in mail' : x.of = own'.ref => x.of = own.ref BY <1>2, <2>2
  <2>. QED BY <1>2, <1>3, <1>4, <2>2, <2>3, <2>6, <2>7, OwnMoves DEF OwnRec
<1>12. CASE provider # "stripe"
  <2>1. \/ a = own /\ (provider = "paddle" => e.payer # customer)
        \/ provider = "paddle" /\ a = [plan |-> e.plan, status |-> "active", ref |-> 0] /\ e.plan \in PaidPlans
    BY <1>1, <1>12, AppliedElsewhere
  <2>2. CASE a = own /\ (provider = "paddle" => e.payer # customer)
    <3>1. OwnOK' BY <1>2, <1>7, <2>2 DEF OwnOK, Bought
    <3>2. ActiveOK'
      <4>1. CASE provider # "paddle" BY <1>2, <1>12, <4>1 DEF ActiveOK
      <4>2. CASE provider = "paddle"
        <5>1. s.payer = Stranger BY <1>6, <2>2, <4>2 DEF EventOK, SessionOK
        <5>2. \A i : i # e.of => (Awaits(i)' <=> Awaits(i)) BY <1>8
        <5>. QED BY <1>2, <1>5, <1>7, <2>2, <5>1, <5>2 DEF ActiveOK
      <4>. QED BY <4>1, <4>2
    <3>. QED BY <1>2, <1>3, <1>4, <1>12, <2>2, <3>1, <3>2, OwnMoves DEF OwnRec
  <2>3. CASE provider = "paddle" /\ a = [plan |-> e.plan, status |-> "active", ref |-> 0] /\ e.plan \in PaidPlans
    <3>1. a \in OwnRec /\ a.ref = 0 /\ a.status = "active" /\ a.plan = e.plan BY <2>3 DEF OwnRec
    <3>2. e.plan # "free" BY <2>3, CheckoutAssumption
    <3>3. OwnOK' BY <1>2, <1>12, <3>1 DEF OwnOK
    <3>4. ActiveOK' BY <1>9, <3>1, <3>2
    <3>. QED BY <1>2, <1>3, <1>4, <1>12, <3>1, <3>3, <3>4, OwnMoves DEF OwnRec
  <2>. QED BY <2>1, <2>2, <2>3
<1>. QED BY <1>10, <1>11, <1>12

LEMMA OwnStepTyped ==
    ASSUME CheckoutInv, OwnStep
    PROVE  /\ ops' \in 0..MaxOwn /\ UNCHANGED <<provider, buyer>>
           /\ customers \in Nat /\ customer \in 0..customers /\ own \in OwnRec
<1>1. MaxOwn \in Nat /\ ops \in 0..MaxOwn BY CheckoutAssumption DEF CheckoutInv, CheckoutTypes
<1>2. ops' \in 0..MaxOwn BY <1>1 DEF OwnStep
<1>. QED BY <1>2 DEF OwnStep, CheckoutInv, CheckoutTypes, OwnRec

\* A plan change we make ourselves, where the provider does not bill.
LEMMA OnPlanHere ==
    ASSUME CheckoutInv, provider # "stripe", NEW plan \in PaidPlans
    PROVE  OnPlan(plan, 0) = [plan |-> plan, status |-> "active", ref |-> 0]
<1>1. own.ref = 0 BY DEF CheckoutInv, OwnOK
<1>. QED BY <1>1 DEF OnPlan

LEMMA ConfirmStep ==
    ASSUME CheckoutInv, NEW plan \in PaidPlans, Confirm(plan)
    PROVE  CheckoutInv'
<1>1. PICK a : a = [plan |-> plan, status |-> "active", ref |-> 0] OBVIOUS
<1>2. /\ OwnStep /\ provider = "manual" /\ own' = a
      /\ customer' = IF customer = 0 THEN customers + 1 ELSE customer
      /\ customers' = IF customer = 0 THEN customers + 1 ELSE customers
      /\ UNCHANGED <<session, mail, halfChanged, endedHere>>
  BY <1>1, OnPlanHere DEF Confirm, ClientConfirm
<1>3. /\ ops' \in 0..MaxOwn /\ UNCHANGED <<provider, buyer>> /\ customers \in Nat /\ customer \in 0..customers
  BY <1>2, OwnStepTyped
<1>4. customers' \in Nat /\ customers <= customers' /\ customer' \in 0..customers' BY <1>2, <1>3
<1>5. a \in OwnRec /\ a.ref = 0 BY <1>1 DEF OwnRec
<1>6. OwnOK' BY <1>2, <1>3, <1>5 DEF OwnOK
<1>7. ActiveOK' BY <1>2, <1>3 DEF ActiveOK
<1>8. halfChanged' \in BOOLEAN /\ endedHere' \in BOOLEAN BY <1>2 DEF CheckoutInv, CheckoutTypes
<1>. QED BY <1>2, <1>3, <1>4, <1>5, <1>6, <1>7, <1>8, OwnMoves DEF OwnRec

LEMMA ChangePlanHereStep ==
    ASSUME CheckoutInv, NEW plan \in PaidPlans, ChangePlanHere(plan)
    PROVE  CheckoutInv'
<1>1. PICK a : a = [plan |-> plan, status |-> "active", ref |-> 0] OBVIOUS
<1>2. /\ OwnStep /\ provider # "stripe" /\ own' = a
      /\ UNCHANGED <<customer, customers, session, mail, halfChanged, endedHere>>
  BY <1>1, OnPlanHere DEF ChangePlanHere, RecurringHosted
<1>3. /\ ops' \in 0..MaxOwn /\ UNCHANGED <<provider, buyer>> /\ customers \in Nat /\ customer \in 0..customers
  BY <1>2, OwnStepTyped
<1>4. customers' \in Nat /\ customers <= customers' /\ customer' \in 0..customers' BY <1>2, <1>3
<1>5. a \in OwnRec /\ a.ref = 0 /\ a.status = "active" /\ a.plan # "free" BY <1>1, CheckoutAssumption DEF OwnRec
<1>6. OwnOK' BY <1>2, <1>3, <1>5 DEF OwnOK
<1>7. ActiveOK' BY <1>2, <1>5 DEF ActiveOK
<1>8. halfChanged' \in BOOLEAN /\ endedHere' \in BOOLEAN BY <1>2 DEF CheckoutInv, CheckoutTypes
<1>. QED BY <1>2, <1>3, <1>4, <1>5, <1>6, <1>7, <1>8, OwnMoves DEF OwnRec

\* A cancel or a trial: the provider does not hear of it.
LEMMA EndedHereStep ==
    ASSUME CheckoutInv, OwnStep, own' \in OwnRec, endedHere' = TRUE,
           UNCHANGED <<customer, customers, session, mail, halfChanged>>,
           own'.ref = 0 \/ (own'.ref = own.ref /\ own'.plan = own.plan)
    PROVE  CheckoutInv'
<1>1. /\ ops' \in 0..MaxOwn /\ UNCHANGED <<provider, buyer>> /\ customers \in Nat /\ customer \in 0..customers
  BY OwnStepTyped
<1>2. customers' \in Nat /\ customers <= customers' /\ customer' \in 0..customers' BY <1>1
<1>3. OwnOK /\ EventsOK /\ Len(session) \in Nat BY SessionsTyped DEF CheckoutInv
<1>4. OwnOK' BY <1>1, <1>3 DEF OwnOK, Bought
<1>5. ActiveOK' BY DEF ActiveOK
<1>6. halfChanged' \in BOOLEAN /\ endedHere' \in BOOLEAN BY DEF CheckoutInv, CheckoutTypes
<1>7. \A e \in mail' : e.of = own'.ref => e.of = own.ref
  <2>1. \A e \in mail : e.of # 0 BY <1>3 DEF EventsOK
  <2>. QED BY <2>1
<1>. QED BY <1>1, <1>2, <1>4, <1>5, <1>6, <1>7, OwnMoves DEF OwnRec

LEMMA CancelHereStep ==
    ASSUME CheckoutInv, CancelHere
    PROVE  CheckoutInv'
<1>1. PICK a : a = [own EXCEPT !.status = "canceled"] OBVIOUS
<1>2. OwnStep /\ own' = a /\ endedHere' = TRUE /\ UNCHANGED <<customer, customers, session, mail, halfChanged>>
  BY <1>1 DEF CancelHere
<1>3. own \in OwnRec BY <1>2, OwnStepTyped
<1>4. a \in OwnRec /\ a.ref = own.ref /\ a.plan = own.plan BY <1>1, <1>3 DEF OwnRec
<1>. QED BY <1>2, <1>4, EndedHereStep

LEMMA TrialHereStep ==
    ASSUME CheckoutInv, NEW plan \in PaidPlans, TrialHere(plan)
    PROVE  CheckoutInv'
<1>1. PICK a : a = [plan |-> plan, status |-> "trialing", ref |-> 0] OBVIOUS
<1>2. OwnStep /\ own' = a /\ endedHere' = TRUE /\ UNCHANGED <<customer, customers, session, mail, halfChanged>>
  BY <1>1 DEF TrialHere
<1>3. a \in OwnRec /\ a.ref = 0 BY <1>1 DEF OwnRec
<1>. QED BY <1>2, <1>3, EndedHereStep

LEMMA ChangePlanThereStep ==
    ASSUME CheckoutInv, NEW plan \in PaidPlans, NEW crash \in BOOLEAN, ChangePlanThere(plan, crash)
    PROVE  CheckoutInv'
<1>1. PICK i, s, n, a : /\ i = own.ref /\ s = session[i] /\ n = [s EXCEPT !.plan = plan]
                        /\ a = [plan |-> plan, status |-> "active", ref |-> i]
  OBVIOUS
<1>2. /\ OwnStep /\ provider = "stripe" /\ i # 0 /\ s.status = "active"
      /\ session' = [session EXCEPT ![i].plan = plan] /\ own' = (IF crash THEN own ELSE a)
      /\ halfChanged' = (halfChanged \/ crash) /\ UNCHANGED <<customer, customers, mail, endedHere>>
  BY <1>1 DEF ChangePlanThere, RecurringHosted, StripeChangePlan, OnPlan
<1>3. /\ ops' \in 0..MaxOwn /\ UNCHANGED <<provider, buyer>> /\ customers \in Nat /\ customer \in 0..customers
      /\ own \in OwnRec
  BY <1>2, OwnStepTyped
<1>4. i \in 1..Len(session) /\ OwnOK /\ ActiveOK BY <1>1, <1>2 DEF CheckoutInv, OwnOK
<1>5. s \in SessionRec /\ session \in Seq(SessionRec) /\ i \in DOMAIN session
  BY <1>1, <1>4, SessionsTyped DEF CheckoutInv, CheckoutTypes
<1>6. n \in SessionRec /\ n.plan = plan /\ n.payer = s.payer /\ n.status = "active" BY <1>1, <1>2, <1>5 DEF SessionRec
<1>7. session' = [session EXCEPT ![i] = n] BY <1>1, <1>2, <1>5
<1>8. /\ session' \in Seq(SessionRec) /\ Len(session') = Len(session)
      /\ \A j \in 1..Len(session) : session'[j] = IF j = i THEN n ELSE session[j]
  BY <1>4, <1>5, <1>6, <1>7, ExceptSeq
<1>9. own' \in OwnRec /\ own'.ref = i BY <1>1, <1>2, <1>3 DEF OwnRec
<1>10. plan # "free" BY CheckoutAssumption
<1>11. CheckoutTypes'
  <2>1. halfChanged' \in BOOLEAN /\ endedHere' \in BOOLEAN BY <1>2 DEF CheckoutInv, CheckoutTypes
  <2>. QED BY <1>2, <1>3, <1>8, <1>9, <2>1 DEF CheckoutInv, CheckoutTypes, OwnRec
<1>12. BuyersOK' BY <1>2, <1>3 DEF CheckoutInv, BuyersOK
<1>13. SessionsOK'
  <2>1. ASSUME NEW j \in 1..Len(session), NEW x, x = session'[j] PROVE SessionOK(x)'
    <3>1. SessionOK(session[j]) BY DEF CheckoutInv, SessionsOK
    <3>2. x.payer = session[j].payer /\ x.status = session[j].status BY <1>1, <1>2, <1>6, <1>8, <2>1
    <3>. QED BY <1>2, <1>3, <3>1, <3>2 DEF SessionOK
  <2>. QED BY <1>8, <2>1 DEF SessionsOK
<1>14. EventsOK'
  <2>1. ASSUME NEW e \in mail, NEW x, x = session'[e.of] PROVE e.of \in 1..Len(session) /\ EventOK(e, x)'
    <3>1. PICK o : o = session[e.of] OBVIOUS
    <3>2. e.of \in 1..Len(session) /\ EventOK(e, o) BY <3>1 DEF CheckoutInv, EventsOK
    <3>3. StripeEventOK(e, o) BY <1>2, <3>2 DEF EventOK
    <3>4. e.of # i => x = o BY <1>8, <2>1, <3>1, <3>2
    <3>5. x.status = o.status BY <1>1, <1>2, <1>6, <1>8, <2>1, <3>1, <3>2
    <3>6. customer' = customer /\ own'.ref = i BY <1>2, <1>9
    <3>7. StripeEventOK(e, x)'
      <4>1. CASE e = Completed(o, e.of) /\ Bought(o) /\ own.ref # e.of
        <5>1. x = o BY <1>1, <3>4, <4>1
        <5>. QED BY <1>1, <3>3, <3>6, <4>1, <5>1 DEF StripeEventOK, Completed, Bought
      <4>2. CASE e.type \in {"customer.subscription.created", "customer.subscription.updated"} /\ e.status = "active"
        BY <3>3, <3>6, <4>2 DEF StripeEventOK
      <4>3. CASE e.type = "customer.subscription.deleted" /\ o.status = "canceled"
        BY <3>3, <3>5, <3>6, <4>3 DEF StripeEventOK
      <4>. QED BY <3>3, <4>1, <4>2, <4>3 DEF StripeEventOK
    <3>. QED BY <1>2, <1>3, <3>2, <3>7 DEF EventOK
  <2>. QED BY <1>2, <1>8, <2>1 DEF EventsOK
<1>15. OwnOK'
  <2>1. session'[i] = n BY <1>4, <1>8
  <2>2. Bought(n) BY <1>6 DEF Bought
  <2>3. ~halfChanged' => own'.plan = n.plan BY <1>1, <1>2, <1>6
  <2>. QED BY <1>2, <1>3, <1>4, <1>8, <1>9, <2>1, <2>2, <2>3 DEF OwnOK, Bought
<1>16. ActiveOK'
  <2>1. \A j \in 1..Len(session) : session'[j].payer = session[j].payer /\ session'[j].status = session[j].status
    BY <1>1, <1>2, <1>6, <1>8
  <2>2. \A j : Awaits(j)' <=> Awaits(j) BY <1>2 DEF Awaits
  <2>3. own' = own \/ (own'.status = "active" /\ own'.plan # "free") BY <1>1, <1>2, <1>10
  <2>. QED BY <1>2, <1>3, <1>4, <1>8, <2>1, <2>2, <2>3 DEF ActiveOK
<1>. QED BY <1>11, <1>12, <1>13, <1>14, <1>15, <1>16 DEF CheckoutInv

\* The invariant of Checkout is inductive.
LEMMA CheckoutStep ==
    ASSUME CheckoutInv, CheckoutNext \/ UNCHANGED checkoutVars
    PROVE  CheckoutInv'
<1>1. CASE UNCHANGED checkoutVars
  <2>1. UNCHANGED <<provider, customer, customers, buyer, session, mail, own, halfChanged, endedHere, ops>>
    BY <1>1 DEF checkoutVars
  <2>2. CheckoutTypes' /\ BuyersOK' /\ SessionsOK' BY <2>1 DEF CheckoutInv, CheckoutTypes, BuyersOK, SessionsOK, SessionOK
  <2>3. EventsOK' /\ OwnOK' /\ ActiveOK'
    BY <2>1 DEF CheckoutInv, EventsOK, EventOK, StripeEventOK, Completed, Bought, OwnOK, ActiveOK, Awaits
  <2>. QED BY <2>2, <2>3 DEF CheckoutInv
<1>2. ASSUME NEW i \in 1..Len(session), \/ StripeMoves(i, "customer.subscription.updated", "active")
                                        \/ StripeMoves(i, "customer.subscription.deleted", "canceled")
      PROVE  CheckoutInv'
  BY <1>2, StripeMovesStep
<1>. QED BY <1>1, <1>2, CheckoutAsCustomerStep, CheckoutAsStrangerStep, InsertCustomerStep, CheckoutFailsStep, PayStep,
            PageExpiresStep, DeliverStep, ConfirmStep, ChangePlanHereStep, TrialHereStep, ChangePlanThereStep,
            CancelHereStep DEF CheckoutNext

LEMMA CheckoutInvSound ==
    CheckoutInv => CheckoutOK /\ PayersKnown /\ NoFreeUpgrade /\ PlansAgree /\ StripeActivates
<1>. SUFFICES ASSUME CheckoutInv PROVE CheckoutOK /\ PayersKnown /\ NoFreeUpgrade /\ PlansAgree /\ StripeActivates
  OBVIOUS
<1>0. Len(session) \in Nat /\ \A i \in 1..Len(session) : session[i] \in SessionRec BY SessionsTyped
<1>1. CheckoutOK
  <2>1. provider \in Providers /\ customer \in 0..customers /\ ops \in 0..MaxOwn /\ customers \in Nat
    BY DEF CheckoutInv, CheckoutTypes
  <2>2. buyer \in [Buyers -> [at : {"idle", "insert"}, plan : PaidPlans \cup {"free"}, as : 0..customers]]
    <3>1. buyer \in [Buyers -> [at : {"idle", "insert"}, plan : PaidPlans \cup {"free"}, as : Nat]]
      BY DEF CheckoutInv, CheckoutTypes
    <3>2. ASSUME NEW b \in Buyers, NEW q, q = buyer[b]
          PROVE  q \in [at : {"idle", "insert"}, plan : PaidPlans \cup {"free"}, as : 0..customers]
      <4>1. q.as <= customers BY <3>2 DEF CheckoutInv, BuyersOK
      <4>2. q \in [at : {"idle", "insert"}, plan : PaidPlans \cup {"free"}, as : Nat] BY <3>1, <3>2
      <4>. QED BY <2>1, <4>1, <4>2
    <3>. QED BY <3>1, <3>2
  <2>3. ASSUME NEW i \in 1..Len(session), NEW s, s = session[i]
        PROVE  s \in [plan : PaidPlans, payer : {0, Stranger} \cup 1..customers,
                      status : {"open", "active", "canceled", "expired"}]
    <3>1. SessionOK(s) BY <2>3 DEF CheckoutInv, SessionsOK
    <3>2. s \in SessionRec BY <1>0, <2>3
    <3>. QED BY <3>1, <3>2 DEF SessionOK, SessionRec
  <2>4. own \in [plan : PaidPlans \cup {"free"}, status : {"active", "trialing", "canceled"}, ref : 0..Len(session)]
    <3>1. own \in [plan : PaidPlans \cup {"free"}, status : {"active", "trialing", "canceled"}, ref : Nat]
      BY DEF CheckoutInv, CheckoutTypes
    <3>2. own.ref \in 0..Len(session) BY <1>0, <3>1 DEF CheckoutInv, OwnOK
    <3>. QED BY <3>1, <3>2
  <2>. QED BY <2>1, <2>2, <2>3, <2>4 DEF CheckoutOK
<1>2. PayersKnown BY DEF CheckoutInv, SessionsOK, SessionOK, PayersKnown
<1>3. NoFreeUpgrade BY DEF CheckoutInv, OwnOK, Bought, NoFreeUpgrade
<1>4. PlansAgree BY DEF CheckoutInv, OwnOK, PlansAgree
<1>5. StripeActivates BY DEF CheckoutInv, ActiveOK, Awaits, StripeActivates, BoughtIsActive
<1>. QED BY <1>1, <1>2, <1>3, <1>4, <1>5

LEMMA SubsInvSound == SubsInv => SubscriptionsOK /\ BilledAsEntitled
<1>. SUFFICES ASSUME SubsInv PROVE SubscriptionsOK /\ BilledAsEntitled OBVIOUS
<1>1. BilledAsEntitled BY DEF SubsInv
<1>2. \A i \in 1..Len(subRows) : subRows[i] \in SubRow BY RowOfSubs
<1>3. OneRow(subRows) BY DEF SubsInv
<1>4. PICK M : M = {i \in 1..Len(subRows) : Occupies(subRows[i].status)} OBVIOUS
<1>5. M = {} \/ \E i \in M : M = {i} BY <1>3, <1>4 DEF OneRow
<1>6. Cardinality(M) = 0 \/ Cardinality(M) = 1 BY <1>5, FS_EmptySet, FS_Singleton
<1>7. Cardinality(M) <= 1 BY <1>6
<1>8. SubscriptionsOK BY <1>2, <1>4, <1>7 DEF SubscriptionsOK, SubRow, Snap
<1>. QED BY <1>1, <1>8

\* An organization is on the plan it pays for (billing/service.py, billing/webhooks.py and
\* the providers, subscriptions/service.py): whatever checkouts, events, plan changes,
\* crashes, cancels and trials come in whatever order.
THEOREM PlansArePaidFor == Spec => []PlansSound
<1>1. Init => CheckoutInv /\ SubsInv BY CheckoutInitially, SubsInitially DEF Init
<1>2. CheckoutInv /\ SubsInv /\ [Next]_serviceVars => (CheckoutInv /\ SubsInv)'
  <2>. SUFFICES ASSUME CheckoutInv, SubsInv, [Next]_serviceVars PROVE CheckoutInv' /\ SubsInv' OBVIOUS
  <2>1. CheckoutNext \/ UNCHANGED checkoutVars BY DEF Next, serviceVars
  <2>2. SubsNext \/ UNCHANGED subsVars BY DEF Next, serviceVars
  <2>. QED BY <2>1, <2>2, CheckoutStep, SubsStep
<1>3. CheckoutInv /\ SubsInv => PlansSound BY CheckoutInvSound, SubsInvSound DEF PlansSound
<1>. QED BY <1>1, <1>2, <1>3, PTL DEF Spec

-----------------------------------------------------------------------------
(***************************************************************************)
(* SignIn.  A code belongs to one attempt and is spent once, so only one   *)
(* request holds the claims of an attempt; what a request decided to do    *)
(* stays right until it commits; an account's subject proved its address   *)
(* or created it; and requests that hold claims of one subject with        *)
(* different addresses have marked it.                                     *)
(***************************************************************************)
Claims == [attempt : Attempts \cup {Nil}, sub : Subjects, email : Emails, email_verified : BOOLEAN]

Owns(s, e) == <<s, e>> \in proven \/ (Exists(e) /\ users[e].author = s)

\* Unless it is marked, the subject of claims c has at most the account they name.
AtMostNamed(c) == c.sub \notin moved => BySubject(c.sub) \subseteq {c.email}

Decided(r, c) ==
    /\ r.email \in Emails
    /\ \/ r.how = "found" /\ Owns(c.sub, r.email)
       \/ r.how = "link" /\ r.email = c.email /\ c.email_verified /\ Exists(c.email) /\ AtMostNamed(c)
       \/ r.how = "create" /\ r.email = c.email /\ AtMostNamed(c)

HoldsClaims(q) ==
    /\ q.claims \in Claims /\ q.attempt = q.claims.attempt
    /\ q.attempt # Nil => q.claims \in spent
    /\ q.claims.email_verified => <<q.claims.sub, q.claims.email>> \in proven

TabOK(q) ==
    \/ q = NotBusy
    \/ q.at = "register" /\ q.email \in Emails
    \/ q.at = "exchange" /\ q.attempt \in Attempts /\ q.code \in codes
    \/ q.at = "link" /\ HoldsClaims(q)
    \/ q.at = "commit" /\ HoldsClaims(q) /\ Decided(q.does, q.claims)
    \/ q.at = "patch" /\ q.merged = prefs \cup {q.key} /\ IsFiniteSet(q.merged) /\ Cardinality(q.merged) <= MaxStored

Holding(q) == q.at \in {"link", "commit"}

\* Two requests at the same time.
Compatible(p, q) ==
    /\ Holding(p) /\ Holding(q) =>
         /\ p.attempt # Nil => p.attempt # q.attempt
         /\ p.claims.sub = q.claims.sub /\ p.claims.sub \notin moved => p.claims.email = q.claims.email
    /\ ~(p.at = "patch" /\ q.at = "patch")

TabsInv ==
    /\ DOMAIN tab = Tabs
    /\ \A t \in Tabs : \A q \in {tab[t]} : TabOK(q)
    /\ \A t, u \in Tabs : t # u => \A p \in {tab[t]}, q \in {tab[u]} : Compatible(p, q)

CodesInv ==
    /\ codes \subseteq Claims /\ spent \subseteq codes
    /\ \A c, d \in codes : c.attempt = d.attempt => c = d
    /\ \A c \in codes : c.email_verified => <<c.sub, c.email>> \in proven

AccountsInv ==
    /\ users \in [Emails -> User \cup {NoUser}]
    /\ \A e \in Emails : Exists(e) /\ users[e].provider = "keycloak" => \A w \in {users[e].subject} : Owns(w, e)
    /\ \A s \in Subjects : s \notin moved => \A e, f \in BySubject(s) : e = f

SignedInv ==
    /\ \A g \in signed : /\ g[3] = g[4] /\ g[2] \in Emails /\ Owns(g[1], g[2])
                         /\ g[3] # Nil => /\ \E c \in spent : c.attempt = g[3]
                                          /\ \A t \in Tabs : Holding(tab[t]) => tab[t].attempt # g[3]
    /\ \A g, h \in signed : (g[3] = h[3] /\ g[3] # Nil) => g = h

PrefsInv == wrote \subseteq prefs /\ IsFiniteSet(prefs) /\ Cardinality(prefs) <= MaxStored

SignInv == TabsInv /\ CodesInv /\ AccountsInv /\ SignedInv /\ PrefsInv

LEMMA SignInInitially == SignInInit => SignInv
<1>. SUFFICES ASSUME SignInInit PROVE SignInv OBVIOUS
<1>1. TabsInv BY DEF SignInInit, TabsInv, TabOK, Compatible, Holding, NotBusy
<1>2. CodesInv BY DEF SignInInit, CodesInv
<1>3. AccountsInv BY DEF SignInInit, AccountsInv, Exists, BySubject
<1>4. SignedInv BY DEF SignInInit, SignedInv
<1>5. PrefsInv BY FS_EmptySet, SignInAssumption DEF SignInInit, PrefsInv
<1>. QED BY <1>1, <1>2, <1>3, <1>4, <1>5 DEF SignInv

\* What no step takes back.
Persists ==
    /\ codes \subseteq codes' /\ spent \subseteq spent' /\ proven \subseteq proven' /\ moved \subseteq moved'
    /\ \A e \in Emails : Exists(e) => Exists(e)' /\ users'[e].author = users[e].author

LEMMA OwnsStays ==
    ASSUME Persists, NEW s, NEW e \in Emails, Owns(s, e)
    PROVE  Owns(s, e)'
BY DEF Persists, Owns

\* A request that rests, while others move.
LEMMA TabKept ==
    ASSUME Persists, NEW q, TabOK(q), q.at = "patch" => prefs' = prefs,
           q.at = "commit" /\ q.claims.sub \notin moved' =>
             BySubject(q.claims.sub)' \subseteq BySubject(q.claims.sub) \cup {q.claims.email}
    PROVE  TabOK(q)'
<1>1. CASE q = NotBusy BY <1>1 DEF TabOK
<1>2. CASE q.at = "register" /\ q.email \in Emails BY <1>2 DEF TabOK
<1>3. CASE q.at = "exchange" /\ q.attempt \in Attempts /\ q.code \in codes BY <1>3 DEF TabOK, Persists
<1>4. HoldsClaims(q) => HoldsClaims(q)' BY DEF HoldsClaims, Persists
<1>5. CASE q.at = "link" /\ HoldsClaims(q) BY <1>4, <1>5 DEF TabOK
<1>6. CASE q.at = "commit" /\ HoldsClaims(q) /\ Decided(q.does, q.claims)
  <2>1. PICK r, c : r = q.does /\ c = q.claims OBVIOUS
  <2>2. Decided(r, c) /\ c \in Claims /\ r.email \in Emails BY <1>6, <2>1 DEF HoldsClaims, Decided
  <2>3. Owns(c.sub, r.email) => Owns(c.sub, r.email)' BY <2>2, OwnsStays
  <2>4. AtMostNamed(c) => AtMostNamed(c)' BY <1>6, <2>1 DEF AtMostNamed, Persists
  <2>5. Exists(c.email) => Exists(c.email)' BY <2>2 DEF Persists, Claims
  <2>6. Decided(r, c)' BY <2>2, <2>3, <2>4, <2>5 DEF Decided
  <2>. QED BY <1>4, <1>6, <2>1, <2>6 DEF TabOK
<1>7. CASE q.at = "patch" /\ q.merged = prefs \cup {q.key} /\ IsFiniteSet(q.merged) /\ Cardinality(q.merged) <= MaxStored
  BY <1>7 DEF TabOK
<1>. QED BY <1>1, <1>2, <1>3, <1>5, <1>6, <1>7 DEF TabOK

\* Request t goes on to n, and the others rest.
LEMMA TabMoves ==
    ASSUME SignInv, Persists, NEW t \in Tabs, NEW n, tab' = [tab EXCEPT ![t] = n], TabOK(n)',
           \A u \in Tabs : u # t => \A q \in {tab[u]} : Compatible(n, q)' /\ Compatible(q, n)',
           tab[t].at = "patch" \/ prefs' = prefs,
           \A u \in Tabs : u # t => \A q \in {tab[u]} : q.at = "commit" /\ q.claims.sub \notin moved' =>
             BySubject(q.claims.sub)' \subseteq BySubject(q.claims.sub) \cup {q.claims.email}
    PROVE  TabsInv'
<1>1. DOMAIN tab = Tabs BY DEF SignInv, TabsInv
<1>2. DOMAIN tab' = Tabs /\ \A u \in Tabs : tab'[u] = IF u = t THEN n ELSE tab[u] BY <1>1
<1>3. ASSUME NEW u \in Tabs, NEW q, q = tab'[u] PROVE TabOK(q)'
  <2>1. CASE u = t BY <1>2, <1>3, <2>1
  <2>2. CASE u # t
    <3>1. q = tab[u] BY <1>2, <1>3, <2>2
    <3>2. TabOK(q) BY <3>1 DEF SignInv, TabsInv
    <3>3. q.at = "patch" => prefs' = prefs
      <4>1. Compatible(tab[t], q) BY <2>2, <3>1 DEF SignInv, TabsInv
      <4>. QED BY <4>1 DEF Compatible
    <3>. QED BY <2>2, <3>1, <3>2, <3>3, TabKept
  <2>. QED BY <2>1, <2>2
<1>4. ASSUME NEW u \in Tabs, NEW v \in Tabs, u # v, NEW p, NEW q, p = tab'[u], q = tab'[v] PROVE Compatible(p, q)'
  <2>1. CASE u = t BY <1>2, <1>4, <2>1
  <2>2. CASE v = t BY <1>2, <1>4, <2>2
  <2>3. CASE u # t /\ v # t
    <3>1. p = tab[u] /\ q = tab[v] BY <1>2, <1>4, <2>3
    <3>2. Compatible(p, q) BY <1>4, <3>1 DEF SignInv, TabsInv
    <3>. QED BY <3>2 DEF Compatible, Holding, Persists
  <2>. QED BY <2>1, <2>2, <2>3
<1>. QED BY <1>2, <1>3, <1>4 DEF TabsInv

\* Nothing about accounts and sessions changes.
LEMMA RestKept ==
    ASSUME SignInv, Persists, UNCHANGED <<users, signed>>,
           \A t \in Tabs : Holding(tab'[t]) => \/ Holding(tab[t]) /\ tab'[t].attempt = tab[t].attempt
                                               \/ \A c \in spent : c.attempt # Nil => c.attempt # tab'[t].attempt
                                               \/ tab'[t].attempt = Nil
    PROVE  AccountsInv' /\ SignedInv'
<1>1. users \in [Emails -> User \cup {NoUser}] BY DEF SignInv, AccountsInv
<1>2. \A s : BySubject(s)' = BySubject(s) BY DEF BySubject, Exists
<1>3. \A s, e : Owns(s, e) => Owns(s, e)' BY DEF Owns, Exists, Persists
<1>4. \A e : Exists(e)' <=> Exists(e) BY DEF Exists
<1>5. AccountsInv' BY <1>2, <1>3, <1>4 DEF SignInv, AccountsInv, Persists
<1>6. ASSUME NEW g \in signed, g[3] # Nil
      PROVE  (\E c \in spent' : c.attempt = g[3]) /\ \A t \in Tabs : Holding(tab'[t]) => tab'[t].attempt # g[3]
  <2>1. PICK c \in spent : c.attempt = g[3] BY <1>6 DEF SignInv, SignedInv
  <2>2. \A t \in Tabs : Holding(tab[t]) => tab[t].attempt # g[3] BY <1>6 DEF SignInv, SignedInv
  <2>. QED BY <1>6, <2>1, <2>2 DEF Persists
<1>7. SignedInv' BY <1>3, <1>6 DEF SignInv, SignedInv, Holding
<1>. QED BY <1>5, <1>7

\* A request starts or ends without claims and without the lock on preferences.
LEMMA PlainMove ==
    ASSUME SignInv, NEW t \in Tabs, NEW n, tab' = [tab EXCEPT ![t] = n], TabOK(n), n.at \in {"rest", "register", "exchange"},
           UNCHANGED <<users, codes, spent, proven, signed, moved, prefs, wrote>>
    PROVE  SignInv'
<1>1. Persists BY DEF Persists, Exists
<1>2. TabOK(n)' BY <1>1, TabKept
<1>3. \A q : Compatible(n, q)' /\ Compatible(q, n)' BY DEF Compatible, Holding
<1>4. \A s : BySubject(s)' = BySubject(s) BY DEF BySubject, Exists
<1>5. TabsInv' BY <1>1, <1>2, <1>3, <1>4, TabMoves
<1>6. \A u \in Tabs : Holding(tab'[u]) => Holding(tab[u]) /\ tab'[u].attempt = tab[u].attempt
  BY DEF SignInv, TabsInv, Holding
<1>7. AccountsInv' /\ SignedInv' BY <1>1, <1>6, RestKept
<1>8. CodesInv' /\ PrefsInv' BY DEF SignInv, CodesInv, PrefsInv
<1>. QED BY <1>5, <1>7, <1>8 DEF SignInv

LEMMA RestsWell == TabOK(NotBusy) /\ TabOK(NotBusy)' /\ NotBusy.at = "rest"
BY DEF TabOK, NotBusy

LEMMA RegisterStep ==
    ASSUME SignInv, NEW t \in Tabs, NEW e \in Emails, Register(t, e)
    PROVE  SignInv'
<1>1. PICK n : n = [at |-> "register", email |-> e] OBVIOUS
<1>2. tab' = [tab EXCEPT ![t] = n] /\ UNCHANGED <<users, state, codes, spent, proven, signed, moved, prefs, wrote>>
  BY <1>1 DEF Register, Moves
<1>3. TabOK(n) /\ n.at = "register" BY <1>1 DEF TabOK
<1>. QED BY <1>2, <1>3, PlainMove

LEMMA CallbackReadsStep ==
    ASSUME SignInv, NEW t \in Tabs, NEW a \in Attempts, NEW c \in codes, CallbackReads(t, a, c)
    PROVE  SignInv'
<1>1. PICK n : n = [at |-> "exchange", attempt |-> a, code |-> c] OBVIOUS
<1>2. tab' = [tab EXCEPT ![t] = n] /\ UNCHANGED <<users, state, codes, spent, proven, signed, moved, prefs, wrote>>
  BY <1>1 DEF CallbackReads, Moves
<1>3. TabOK(n) /\ n.at = "exchange" BY <1>1 DEF TabOK
<1>. QED BY <1>2, <1>3, PlainMove

\* No request moves.
LEMMA TabsRest ==
    ASSUME SignInv, Persists, UNCHANGED <<tab, users, moved, prefs, wrote, signed>>
    PROVE  TabsInv' /\ AccountsInv' /\ SignedInv' /\ PrefsInv'
<1>1. \A s : BySubject(s)' = BySubject(s) BY DEF BySubject, Exists
<1>2. ASSUME NEW t \in Tabs, NEW q, q = tab[t] PROVE TabOK(q)'
  <2>1. TabOK(q) BY <1>2 DEF SignInv, TabsInv
  <2>. QED BY <1>1, <2>1, TabKept
<1>3. TabsInv' BY <1>2 DEF SignInv, TabsInv, Compatible, Holding
<1>4. AccountsInv' /\ SignedInv' BY RestKept
<1>5. PrefsInv' BY DEF SignInv, PrefsInv
<1>. QED BY <1>3, <1>4, <1>5

LEMMA ProviderStep ==
    ASSUME SignInv, NEW a \in Attempts, NEW s \in Subjects, NEW e \in Emails, NEW v \in BOOLEAN,
           ProviderAuthenticates(a, s, e, v)
    PROVE  SignInv'
<1>1. PICK c : c = [attempt |-> a, sub |-> s, email |-> e, email_verified |-> v] OBVIOUS
<1>2. /\ codes' = codes \cup {c} /\ (\A d \in codes : d.attempt # a)
      /\ proven' = IF v THEN proven \cup {<<s, e>>} ELSE proven
      /\ UNCHANGED <<users, state, spent, tab, signed, moved, prefs, wrote, begun>>
  BY <1>1 DEF ProviderAuthenticates
<1>3. Persists BY <1>2 DEF Persists, Exists
<1>4. c \in Claims /\ c.attempt = a /\ c.sub = s /\ c.email = e /\ c.email_verified = v BY <1>1 DEF Claims
<1>5. CodesInv' BY <1>2, <1>4 DEF SignInv, CodesInv
<1>. QED BY <1>2, <1>3, <1>5, TabsRest DEF SignInv

LEMMA StatesStep ==
    ASSUME SignInv, UNCHANGED <<users, codes, spent, tab, proven, signed, moved, prefs, wrote>>
    PROVE  SignInv'
<1>1. Persists BY DEF Persists, Exists
<1>2. CodesInv' BY DEF SignInv, CodesInv
<1>. QED BY <1>1, <1>2, TabsRest DEF SignInv

\* Claims that a request now holds; the other requests that hold claims of the subject
\* with another address have marked it.
LEMMA ClaimsHeld ==
    ASSUME SignInv, NEW t \in Tabs, NEW c \in Claims, NEW a, a = c.attempt, NEW n, n = [at |-> "link", claims |-> c, attempt |-> a],
           tab' = [tab EXCEPT ![t] = n], ~Holding(tab[t]), tab[t].at # "patch",
           moved' = IF Overlapping(t, c) = {} THEN moved ELSE moved \cup {c.sub},
           codes' = codes, spent \subseteq spent', spent' \subseteq codes, proven \subseteq proven',
           UNCHANGED <<users, signed, prefs, wrote>>,
           a # Nil => c \in spent' /\ c \notin spent /\ c \in codes,
           c.email_verified => <<c.sub, c.email>> \in proven'
    PROVE  SignInv'
<1>1. Persists BY DEF Persists, Exists
<1>2. n.at = "link" /\ n.claims = c /\ n.attempt = a BY Zenon
<1>3. TabOK(n)' BY <1>2 DEF TabOK, HoldsClaims
<1>4. a # Nil => \A d \in spent : d.attempt # a BY DEF SignInv, CodesInv
<1>5. ASSUME NEW u \in Tabs, u # t, NEW q, q = tab[u] PROVE Compatible(n, q)' /\ Compatible(q, n)'
  <2>1. q.at # "patch" \/ n.at # "patch" BY <1>2
  <2>2. ASSUME Holding(q), a # Nil PROVE q.attempt # a
    <3>1. HoldsClaims(q)
      <4>1. TabOK(q) BY <1>5 DEF SignInv, TabsInv
      <4>. QED BY <2>2, <4>1 DEF TabOK, Holding, NotBusy
    <3>. QED BY <1>4, <2>2, <3>1 DEF HoldsClaims
  <2>3. ASSUME Holding(q), q.claims.sub = c.sub, c.sub \notin moved' PROVE q.claims.email = c.email
    <3>1. Overlapping(t, c) = {} BY <2>3
    <3>. QED BY <1>5, <2>3, <3>1 DEF Overlapping, Holding
  <2>. QED BY <1>2, <2>2, <2>3 DEF Compatible, Holding
<1>6. \A s : BySubject(s)' = BySubject(s) BY DEF BySubject, Exists
<1>7. TabsInv' BY <1>1, <1>3, <1>5, <1>6, TabMoves
<1>8. ASSUME NEW u \in Tabs, Holding(tab'[u])
      PROVE  \/ Holding(tab[u]) /\ tab'[u].attempt = tab[u].attempt
             \/ \A d \in spent : d.attempt # Nil => d.attempt # tab'[u].attempt
             \/ tab'[u].attempt = Nil
  <2>1. CASE u = t
    <3>1. tab'[u] = n BY <2>1 DEF SignInv, TabsInv
    <3>. QED BY <1>2, <1>4, <3>1
  <2>2. CASE u # t
    <3>1. tab'[u] = tab[u] BY <2>2 DEF SignInv, TabsInv
    <3>. QED BY <1>8, <3>1
  <2>. QED BY <2>1, <2>2
<1>9. AccountsInv' /\ SignedInv' BY <1>1, <1>8, RestKept
<1>10. CodesInv' /\ PrefsInv' BY DEF SignInv, CodesInv, PrefsInv
<1>. QED BY <1>7, <1>9, <1>10 DEF SignInv

LEMMA CallbackExchangesStep ==
    ASSUME SignInv, NEW t \in Tabs, CallbackExchanges(t)
    PROVE  SignInv'
<1>1. PICK q, a, c : q = tab[t] /\ a = q.attempt /\ c = q.code OBVIOUS
<1>2. q.at = "exchange" BY <1>1 DEF CallbackExchanges
<1>3. c \in codes /\ a \in Attempts
  <2>1. TabOK(q) BY <1>1 DEF SignInv, TabsInv
  <2>. QED BY <1>1, <1>2, <2>1 DEF TabOK, NotBusy
<1>4. CASE Exchangeable(c, a)
  <2>1. PICK n : n = [at |-> "link", claims |-> c, attempt |-> a] OBVIOUS
  <2>2. /\ spent' = spent \cup {c} /\ tab' = [tab EXCEPT ![t] = n]
        /\ moved' = (IF Overlapping(t, c) = {} THEN moved ELSE moved \cup {c.sub})
        /\ UNCHANGED <<users, codes, proven, signed, prefs, wrote, begun>>
    BY <1>1, <1>4, <2>1 DEF CallbackExchanges, Moves
  <2>3. c \in Claims /\ c \notin spent /\ c.attempt = a /\ spent' \subseteq codes
    BY <1>3, <1>4, <2>2 DEF SignInv, CodesInv, Exchangeable
  <2>4. c.email_verified => <<c.sub, c.email>> \in proven' BY <1>3, <2>2 DEF SignInv, CodesInv
  <2>. QED BY <1>1, <1>2, <1>3, <2>1, <2>2, <2>3, <2>4, ClaimsHeld DEF Holding
<1>5. CASE ~Exchangeable(c, a)
  <2>1. tab' = [tab EXCEPT ![t] = NotBusy] /\ UNCHANGED <<users, codes, spent, proven, signed, moved, prefs, wrote>>
    BY <1>1, <1>5 DEF CallbackExchanges, Moves
  <2>. QED BY <2>1, RestsWell, PlainMove
<1>. QED BY <1>4, <1>5

LEMMA PasswordGrantStep ==
    ASSUME SignInv, NEW t \in Tabs, NEW e \in Emails, NEW s \in Subjects, NEW v \in BOOLEAN, PasswordGrant(t, e, s, v)
    PROVE  SignInv'
<1>1. PICK c : c = [attempt |-> Nil, sub |-> s, email |-> e, email_verified |-> v] OBVIOUS
<1>2. PICK n : n = [at |-> "link", claims |-> c, attempt |-> Nil] OBVIOUS
<1>3. /\ tab' = [tab EXCEPT ![t] = n] /\ tab[t] = NotBusy
      /\ proven' = (IF v THEN proven \cup {<<s, e>>} ELSE proven)
      /\ moved' = (IF Overlapping(t, c) = {} THEN moved ELSE moved \cup {s})
      /\ UNCHANGED <<users, state, codes, spent, signed, prefs, wrote>>
  BY <1>1, <1>2 DEF PasswordGrant, Moves, Begins
<1>4. c \in Claims /\ c.attempt = Nil /\ c.sub = s /\ c.email = e /\ c.email_verified = v BY <1>1 DEF Claims
<1>5. ~Holding(tab[t]) /\ tab[t].at # "patch" BY <1>3 DEF Holding, NotBusy
<1>6. spent \subseteq codes BY DEF SignInv, CodesInv
<1>. QED BY <1>2, <1>3, <1>4, <1>5, <1>6, ClaimsHeld

\* The decision is right when it is made.
LEMMA ResolutionRight ==
    ASSUME SignInv, NEW c \in Claims, Resolution(c).how # "refuse"
    PROVE  Decided(Resolution(c), c)
<1>1. PICK r, B : r = Resolution(c) /\ B = BySubject(c.sub) OBVIOUS
<1>2. c.email \in Emails /\ c.sub \in Subjects BY DEF Claims
<1>3. CASE B # {}
  <2>1. r = [how |-> "found", email |-> CHOOSE e \in B : TRUE] BY <1>1, <1>3 DEF Resolution
  <2>2. r.email \in B /\ r.how = "found" BY <1>3, <2>1
  <2>3. /\ r.email \in Emails /\ Exists(r.email) /\ users[r.email].provider = "keycloak"
        /\ users[r.email].subject = c.sub
    BY <1>1, <2>2 DEF BySubject
  <2>4. Owns(c.sub, r.email) BY <2>3 DEF SignInv, AccountsInv
  <2>. QED BY <1>1, <2>2, <2>3, <2>4 DEF Decided
<1>4. CASE B = {} /\ ByEmail(c) # {}
  <2>1. Cardinality(B) = 0 BY <1>4, FS_EmptySet
  <2>2. r = [how |-> "link", email |-> c.email] BY <1>1, <1>4, <2>1 DEF Resolution
  <2>3. c.email_verified /\ Exists(c.email) BY <1>4 DEF ByEmail
  <2>4. AtMostNamed(c) BY <1>1, <1>4 DEF AtMostNamed
  <2>. QED BY <1>1, <1>2, <2>2, <2>3, <2>4 DEF Decided
<1>5. CASE B = {} /\ ByEmail(c) = {}
  <2>1. Cardinality(B) = 0 BY <1>5, FS_EmptySet
  <2>2. r = [how |-> "create", email |-> c.email] BY <1>1, <1>5, <2>1 DEF Resolution
  <2>3. AtMostNamed(c) BY <1>1, <1>5 DEF AtMostNamed
  <2>. QED BY <1>1, <1>2, <2>2, <2>3 DEF Decided
<1>. QED BY <1>3, <1>4, <1>5

LEMMA LinkReadsStep ==
    ASSUME SignInv, NEW t \in Tabs, LinkReads(t)
    PROVE  SignInv'
<1>1. PICK q, c, r : q = tab[t] /\ c = q.claims /\ r = Resolution(c) OBVIOUS
<1>2. q.at = "link" /\ UNCHANGED <<users, codes, spent, proven, signed, moved, prefs, wrote>> BY <1>1 DEF LinkReads
<1>3. HoldsClaims(q)
  <2>1. TabOK(q) BY <1>1 DEF SignInv, TabsInv
  <2>. QED BY <1>2, <2>1 DEF TabOK, NotBusy
<1>4. CASE r.how = "refuse"
  <2>1. tab' = [tab EXCEPT ![t] = NotBusy] BY <1>1, <1>4 DEF LinkReads, Moves
  <2>. QED BY <1>2, <2>1, RestsWell, PlainMove
<1>5. CASE r.how # "refuse"
  <2>1. PICK n : n = [at |-> "commit", claims |-> c, attempt |-> q.attempt, does |-> r] OBVIOUS
  <2>2. tab' = [tab EXCEPT ![t] = n] BY <1>1, <1>5, <2>1 DEF LinkReads, Moves
  <2>3. n.at = "commit" /\ n.claims = c /\ n.attempt = q.attempt /\ n.does = r BY <2>1
  <2>4. Persists BY <1>2 DEF Persists, Exists
  <2>5. \A s : BySubject(s)' = BySubject(s) BY <1>2 DEF BySubject, Exists
  <2>6. Decided(r, c) BY <1>1, <1>3, <1>5, ResolutionRight DEF HoldsClaims
  <2>7. TabOK(n) BY <1>1, <1>3, <2>3, <2>6 DEF TabOK, HoldsClaims
  <2>8. TabOK(n)' BY <1>2, <2>4, <2>5, <2>7, TabKept
  <2>9. ASSUME NEW u \in Tabs, u # t, NEW p, p = tab[u] PROVE Compatible(n, p)' /\ Compatible(p, n)'
    <3>1. Compatible(q, p) /\ Compatible(p, q) BY <1>1, <2>9 DEF SignInv, TabsInv
    <3>. QED BY <1>1, <1>2, <2>3, <3>1 DEF Compatible, Holding
  <2>10. TabsInv' BY <1>2, <2>2, <2>4, <2>5, <2>8, <2>9, TabMoves
  <2>11. ASSUME NEW u \in Tabs, Holding(tab'[u]) PROVE Holding(tab[u]) /\ tab'[u].attempt = tab[u].attempt
    <3>1. CASE u = t
      <4>1. tab'[u] = n BY <2>2, <3>1 DEF SignInv, TabsInv
      <4>. QED BY <1>1, <1>2, <2>3, <3>1, <4>1 DEF Holding
    <3>2. CASE u # t
      <4>1. tab'[u] = tab[u] BY <2>2, <3>2 DEF SignInv, TabsInv
      <4>. QED BY <2>11, <4>1
    <3>. QED BY <3>1, <3>2
  <2>12. AccountsInv' /\ SignedInv' BY <1>2, <2>4, <2>11, RestKept
  <2>13. CodesInv' /\ PrefsInv' BY <1>2 DEF SignInv, CodesInv, PrefsInv
  <2>. QED BY <2>10, <2>12, <2>13 DEF SignInv
<1>. QED BY <1>4, <1>5

\* One account is added, or linked to a subject.
LEMMA AccountChanges ==
    ASSUME SignInv, NEW e \in Emails, NEW n \in User, users' = [users EXCEPT ![e] = n],
           Exists(e) => n.author = users[e].author,
           UNCHANGED <<codes, spent, proven, moved>>
    PROVE  /\ Persists /\ users' \in [Emails -> User \cup {NoUser}]
           /\ \A f \in Emails : Exists(f)' <=> Exists(f) \/ f = e
           /\ \A s : BySubject(s)' \subseteq BySubject(s) \cup
                IF n.provider = "keycloak" /\ n.subject = s THEN {e} ELSE {}
<1>1. users \in [Emails -> User \cup {NoUser}] BY DEF SignInv, AccountsInv
<1>2. n # NoUser BY DEF User, NoUser
<1>3. \A f \in Emails : users'[f] = IF f = e THEN n ELSE users[f] BY <1>1
<1>4. users' \in [Emails -> User \cup {NoUser}] BY <1>1
<1>5. \A f \in Emails : Exists(f)' <=> Exists(f) \/ f = e BY <1>2, <1>3 DEF Exists
<1>6. Persists BY <1>3, <1>5 DEF Persists
<1>7. \A s : BySubject(s)' \subseteq BySubject(s) \cup IF n.provider = "keycloak" /\ n.subject = s THEN {e} ELSE {}
  BY <1>3, <1>5 DEF BySubject, Exists
<1>. QED BY <1>4, <1>5, <1>6, <1>7

LEMMA CommitRegisterStep ==
    ASSUME SignInv, NEW t \in Tabs, CommitRegister(t)
    PROVE  SignInv'
<1>1. PICK q, e, n : q = tab[t] /\ e = q.email /\ n = Account("local", Nil, TRUE, Nil) OBVIOUS
<1>2. /\ q.at = "register" /\ tab' = [tab EXCEPT ![t] = NotBusy]
      /\ users' = (IF Exists(e) THEN users ELSE [users EXCEPT ![e] = n])
      /\ UNCHANGED <<state, codes, spent, proven, signed, moved, prefs, wrote, begun>>
  BY <1>1 DEF CommitRegister, Moves
<1>3. e \in Emails
  <2>1. TabOK(q) BY <1>1 DEF SignInv, TabsInv
  <2>. QED BY <1>1, <1>2, <2>1 DEF TabOK, NotBusy
<1>4. CASE Exists(e) BY <1>2, <1>4, RestsWell, PlainMove
<1>5. CASE ~Exists(e)
  <2>1. n \in User /\ n.provider = "local" BY <1>1 DEF User, Account
  <2>2. users' = [users EXCEPT ![e] = n] BY <1>2, <1>5
  <2>3. /\ Persists /\ users' \in [Emails -> User \cup {NoUser}]
        /\ \A f \in Emails : Exists(f)' <=> Exists(f) \/ f = e
        /\ \A s : BySubject(s)' \subseteq BySubject(s) \cup
             IF n.provider = "keycloak" /\ n.subject = s THEN {e} ELSE {}
    BY <1>2, <1>3, <1>5, <2>1, <2>2, AccountChanges
  <2>4. \A s : BySubject(s)' \subseteq BySubject(s) BY <2>1, <2>3
  <2>5. \A p : Compatible(NotBusy, p)' /\ Compatible(p, NotBusy)' BY DEF Compatible, Holding, NotBusy
  <2>6. TabsInv' BY <1>2, <2>3, <2>4, <2>5, RestsWell, TabMoves
  <2>7. \A s, f : f \in Emails /\ Owns(s, f) => Owns(s, f)' BY <2>3, OwnsStays
  <2>8. users \in [Emails -> User \cup {NoUser}] BY DEF SignInv, AccountsInv
  <2>9. AccountsInv'
    <3>1. ASSUME NEW f \in Emails, NEW w, w = users'[f].subject, Exists(f)', users'[f].provider = "keycloak"
          PROVE  Owns(w, f)'
      <4>1. users'[f] = users[f] /\ Exists(f) BY <2>1, <2>2, <2>3, <2>8, <3>1
      <4>2. Owns(w, f) BY <3>1, <4>1 DEF SignInv, AccountsInv
      <4>. QED BY <2>7, <4>2
    <3>2. \A f \in Emails : Exists(f)' /\ users'[f].provider = "keycloak" =>
             \A w \in {users'[f].subject} : Owns(w, f)'
      BY <3>1
    <3>3. \A s \in Subjects : s \notin moved' => \A x, y \in BySubject(s)' : x = y
      BY <1>2, <2>4 DEF SignInv, AccountsInv
    <3>. QED BY <2>3, <3>2, <3>3 DEF AccountsInv
  <2>10. \A u \in Tabs : Holding(tab'[u]) => Holding(tab[u]) /\ tab'[u].attempt = tab[u].attempt
    BY <1>2 DEF SignInv, TabsInv, Holding, NotBusy
  <2>11. ASSUME NEW g \in signed PROVE Owns(g[1], g[2])'
    <3>1. Owns(g[1], g[2]) /\ g[2] \in Emails BY DEF SignInv, SignedInv
    <3>. QED BY <2>7, <3>1
  <2>12. SignedInv' BY <1>2, <2>10, <2>11 DEF SignInv, SignedInv, Holding
  <2>13. CodesInv' /\ PrefsInv' BY <1>2 DEF SignInv, CodesInv, PrefsInv
  <2>. QED BY <2>6, <2>9, <2>12, <2>13 DEF SignInv
<1>. QED BY <1>4, <1>5

\* The session that a commit issues, for an account the subject owns.
LEMMA SessionIssued ==
    ASSUME SignInv, NEW t \in Tabs, tab' = [tab EXCEPT ![t] = NotBusy], NEW c, NEW e \in Emails, NEW q, q = tab[t],
           q.at = "commit", HoldsClaims(q), c = q.claims, Persists, UNCHANGED spent,
           signed' = signed \cup {<<c.sub, e, q.attempt, c.attempt>>}, Owns(c.sub, e)'
    PROVE  SignedInv'
<1>1. PICK k : k = <<c.sub, e, q.attempt, c.attempt>> OBVIOUS
<1>2. k[1] = c.sub /\ k[2] = e /\ k[3] = q.attempt /\ k[4] = c.attempt BY <1>1
<1>3. q.attempt = c.attempt /\ (q.attempt # Nil => c \in spent) BY DEF HoldsClaims
<1>4. \A u \in Tabs : Holding(tab'[u]) => u # t /\ tab'[u] = tab[u]
  BY DEF SignInv, TabsInv, Holding, NotBusy
<1>5. Holding(q) BY DEF Holding
<1>6. ASSUME NEW u \in Tabs, Holding(tab'[u]), q.attempt # Nil PROVE tab'[u].attempt # q.attempt
  <2>1. u # t /\ tab'[u] = tab[u] BY <1>4, <1>6
  <2>2. Compatible(q, tab[u]) BY <2>1 DEF SignInv, TabsInv
  <2>. QED BY <1>5, <1>6, <2>1, <2>2 DEF Compatible
<1>7. ASSUME NEW g \in signed'
      PROVE  /\ g[3] = g[4] /\ g[2] \in Emails /\ Owns(g[1], g[2])'
             /\ g[3] # Nil => /\ \E d \in spent' : d.attempt = g[3]
                              /\ \A u \in Tabs : Holding(tab'[u]) => tab'[u].attempt # g[3]
  <2>1. CASE g = k BY <1>2, <1>3, <1>6, <2>1
  <2>2. CASE g \in signed
    <3>1. /\ g[3] = g[4] /\ g[2] \in Emails /\ Owns(g[1], g[2])
          /\ g[3] # Nil => /\ \E d \in spent : d.attempt = g[3]
                           /\ \A u \in Tabs : Holding(tab[u]) => tab[u].attempt # g[3]
      BY <2>2 DEF SignInv, SignedInv
    <3>2. Owns(g[1], g[2])' BY <3>1, OwnsStays
    <3>. QED BY <1>4, <3>1, <3>2
  <2>. QED BY <1>1, <2>1, <2>2
<1>8. ASSUME NEW g \in signed', NEW h \in signed', g[3] = h[3], g[3] # Nil PROVE g = h
  <2>1. \A x \in signed : x[3] # Nil => x[3] # q.attempt BY <1>5 DEF SignInv, SignedInv
  <2>2. CASE g = k /\ h = k BY <2>2
  <2>3. CASE g \in signed /\ h \in signed BY <1>8, <2>3 DEF SignInv, SignedInv
  <2>. QED BY <1>1, <1>2, <1>8, <2>1, <2>2, <2>3
<1>. QED BY <1>7, <1>8 DEF SignedInv, Holding

LEMMA CommitLinkStep ==
    ASSUME SignInv, NEW t \in Tabs, CommitLink(t)
    PROVE  SignInv'
<1>1. PICK q, r, c : q = tab[t] /\ r = q.does /\ c = q.claims OBVIOUS
<1>2. /\ q.at = "commit" /\ tab' = [tab EXCEPT ![t] = NotBusy]
      /\ UNCHANGED <<state, codes, spent, proven, moved, prefs, wrote, begun>>
  BY <1>1 DEF CommitLink, Moves
<1>3. HoldsClaims(q) /\ Decided(r, c) /\ c \in Claims
  <2>1. TabOK(q) BY <1>1 DEF SignInv, TabsInv
  <2>. QED BY <1>1, <1>2, <2>1 DEF TabOK, NotBusy, HoldsClaims
<1>4. r.email \in Emails /\ c.sub \in Subjects /\ c.email \in Emails BY <1>3 DEF Decided, Claims
<1>5. \A p : Compatible(NotBusy, p)' /\ Compatible(p, NotBusy)' BY DEF Compatible, Holding, NotBusy
<1>6. CodesInv' /\ PrefsInv' BY <1>2 DEF SignInv, CodesInv, PrefsInv
<1>7. users \in [Emails -> User \cup {NoUser}] BY DEF SignInv, AccountsInv
<1>8. CASE r.how = "create" /\ Exists(r.email)
  <2>1. UNCHANGED <<users, signed>> BY <1>1, <1>8 DEF CommitLink
  <2>. QED BY <1>2, <2>1, RestsWell, PlainMove
<1>9. CASE r.how = "found"
  <2>1. users' = users /\ signed' = signed \cup {<<c.sub, r.email, q.attempt, c.attempt>>}
    BY <1>1, <1>9 DEF CommitLink
  <2>2. Persists BY <1>2, <2>1 DEF Persists, Exists
  <2>3. Owns(c.sub, r.email)' BY <1>3, <1>4, <1>9, <2>2, OwnsStays DEF Decided
  <2>4. SignedInv' BY <1>1, <1>2, <1>3, <1>4, <2>1, <2>2, <2>3, SessionIssued
  <2>5. \A s : BySubject(s)' = BySubject(s) BY <2>1 DEF BySubject, Exists
  <2>6. TabsInv' BY <1>2, <1>5, <2>2, <2>5, RestsWell, TabMoves
  <2>7. \A w : \A e \in Emails : Owns(w, e) => Owns(w, e)' BY <2>2, OwnsStays
  <2>8. AccountsInv' BY <1>2, <2>1, <2>5, <2>7 DEF SignInv, AccountsInv, Exists
  <2>. QED BY <1>6, <2>4, <2>6, <2>8 DEF SignInv
<1>10. CASE (r.how = "link") \/ (r.how = "create" /\ ~Exists(r.email))
  <2>1. r.email = c.email /\ AtMostNamed(c) BY <1>3, <1>10 DEF Decided
  <2>2. PICK u : u = users[c.email] OBVIOUS
  <2>3. PICK n : n = IF r.how = "link" THEN [u EXCEPT !.provider = "keycloak", !.subject = c.sub]
                     ELSE Account("keycloak", c.sub, FALSE, c.sub)
    OBVIOUS
  <2>4. r.how = "link" => u \in User /\ Exists(c.email) /\ <<c.sub, c.email>> \in proven
    BY <1>1, <1>3, <1>4, <1>7, <2>2 DEF Decided, Exists, HoldsClaims
  <2>5. /\ n \in User /\ n.provider = "keycloak" /\ n.subject = c.sub
        /\ r.how = "link" => n.author = u.author
        /\ r.how = "create" => n.author = c.sub
    BY <1>4, <1>10, <2>3, <2>4 DEF User, Account
  <2>6. users' = [users EXCEPT ![c.email] = n]
    <3>1. CASE r.how = "link"
      <4>1. users' = [users EXCEPT ![r.email].provider = "keycloak", ![r.email].subject = c.sub]
        BY <1>1, <3>1 DEF CommitLink
      <4>. QED BY <1>4, <1>7, <2>1, <2>2, <2>3, <3>1, <4>1
    <3>2. CASE r.how = "create" /\ ~Exists(r.email)
      BY <1>1, <2>1, <2>3, <3>2 DEF CommitLink
    <3>. QED BY <1>10, <3>1, <3>2
  <2>7. signed' = signed \cup {<<c.sub, r.email, q.attempt, c.attempt>>} BY <1>1, <1>10 DEF CommitLink
  <2>8. /\ Persists /\ users' \in [Emails -> User \cup {NoUser}]
        /\ \A f \in Emails : Exists(f)' <=> Exists(f) \/ f = c.email
        /\ \A s : BySubject(s)' \subseteq BySubject(s) \cup
             IF n.provider = "keycloak" /\ n.subject = s THEN {c.email} ELSE {}
    <3>1. Exists(c.email) => n.author = users[c.email].author BY <1>10, <2>1, <2>2, <2>5
    <3>. QED BY <1>2, <1>4, <2>5, <2>6, <3>1, AccountChanges
  <2>9. \A s : BySubject(s)' \subseteq BySubject(s) \cup IF s = c.sub THEN {c.email} ELSE {} BY <2>5, <2>8
  <2>10. Owns(c.sub, c.email)'
    <3>1. CASE r.how = "link" BY <1>2, <2>4, <3>1 DEF Owns
    <3>2. CASE r.how = "create"
      <4>1. users'[c.email] = n /\ Exists(c.email)' BY <1>4, <1>7, <2>6, <2>8
      <4>. QED BY <2>5, <3>2, <4>1 DEF Owns
    <3>. QED BY <1>10, <3>1, <3>2
  <2>11. SignedInv' BY <1>1, <1>2, <1>3, <1>4, <2>1, <2>7, <2>8, <2>10, SessionIssued
  <2>12. TabsInv'
    <3>1. ASSUME NEW v \in Tabs, v # t, NEW p, p = tab[v], p.at = "commit", p.claims.sub \notin moved'
          PROVE  BySubject(p.claims.sub)' \subseteq BySubject(p.claims.sub) \cup {p.claims.email}
      <4>1. CASE p.claims.sub # c.sub BY <2>9, <4>1
      <4>2. CASE p.claims.sub = c.sub
        <5>1. Compatible(p, q) BY <1>1, <3>1 DEF SignInv, TabsInv
        <5>2. p.claims.email = c.email BY <1>1, <1>2, <3>1, <4>2, <5>1 DEF Compatible, Holding
        <5>. QED BY <2>9, <4>2, <5>2
      <4>. QED BY <4>1, <4>2
    <3>. QED BY <1>2, <1>5, <2>8, <3>1, RestsWell, TabMoves
  <2>13. AccountsInv'
    <3>1. ASSUME NEW f \in Emails, NEW w, w = users'[f].subject, Exists(f)', users'[f].provider = "keycloak"
          PROVE  Owns(w, f)'
      <4>1. CASE f = c.email
        <5>1. users'[f] = n BY <1>4, <1>7, <2>6, <4>1
        <5>. QED BY <2>5, <2>10, <3>1, <4>1, <5>1
      <4>2. CASE f # c.email
        <5>1. users'[f] = users[f] /\ Exists(f) BY <1>7, <2>6, <2>8, <3>1, <4>2
        <5>2. Owns(w, f) BY <3>1, <5>1 DEF SignInv, AccountsInv
        <5>. QED BY <2>8, <5>2, OwnsStays
      <4>. QED BY <4>1, <4>2
    <3>2. \A f \in Emails : Exists(f)' /\ users'[f].provider = "keycloak" =>
             \A w \in {users'[f].subject} : Owns(w, f)'
      BY <3>1
    <3>3. ASSUME NEW s \in Subjects, s \notin moved', NEW x \in BySubject(s)', NEW y \in BySubject(s)' PROVE x = y
      <4>1. CASE s = c.sub
        <5>1. BySubject(s) \subseteq {c.email} BY <1>2, <2>1, <3>3, <4>1 DEF AtMostNamed
        <5>2. BySubject(s)' \subseteq {c.email} BY <2>9, <4>1, <5>1
        <5>. QED BY <3>3, <5>2
      <4>2. CASE s # c.sub
        <5>1. x \in BySubject(s) /\ y \in BySubject(s) BY <2>9, <3>3, <4>2
        <5>. QED BY <1>2, <3>3, <5>1 DEF SignInv, AccountsInv
      <4>. QED BY <4>1, <4>2
    <3>. QED BY <2>8, <3>2, <3>3 DEF AccountsInv
  <2>. QED BY <1>6, <2>11, <2>12, <2>13 DEF SignInv
<1>. QED BY <1>3, <1>8, <1>9, <1>10 DEF Decided

LEMMA PatchReadsStep ==
    ASSUME SignInv, NEW t \in Tabs, NEW k \in Settings, PatchReads(t, k)
    PROVE  SignInv'
<1>1. UNCHANGED <<users, state, codes, spent, proven, signed, moved, prefs, wrote>> /\ tab[t] = NotBusy
  BY DEF PatchReads, Begins
<1>2. CASE Cardinality(prefs \cup {k}) > MaxStored
  <2>1. tab' = tab BY <1>2 DEF PatchReads
  <2>. QED BY <1>1, <2>1, StatesStep
<1>3. CASE ~(Cardinality(prefs \cup {k}) > MaxStored)
  <2>1. PICK n : n = [at |-> "patch", key |-> k, merged |-> prefs \cup {k}] OBVIOUS
  <2>2. tab' = [tab EXCEPT ![t] = n] BY <1>3, <2>1 DEF PatchReads, Moves
  <2>3. IsFiniteSet(prefs \cup {k}) BY FS_AddElement DEF SignInv, PrefsInv
  <2>4. Cardinality(prefs \cup {k}) \in Nat BY <2>3, FS_CardinalityType
  <2>5. Cardinality(prefs \cup {k}) <= MaxStored BY <1>3, <2>4, SignInAssumption
  <2>6. n.at = "patch" /\ n.key = k /\ n.merged = prefs \cup {k} BY <2>1
  <2>7. TabOK(n) /\ TabOK(n)' BY <1>1, <2>3, <2>5, <2>6 DEF TabOK
  <2>8. Persists BY <1>1 DEF Persists, Exists
  <2>9. \A u \in Tabs : tab[u].at # "patch" BY DEF PatchReads, RowIsFree
  <2>10. \A u \in Tabs : u # t => \A p \in {tab[u]} : Compatible(n, p)' /\ Compatible(p, n)'
    BY <2>6, <2>9 DEF Compatible, Holding
  <2>11. \A s : BySubject(s)' = BySubject(s) BY <1>1 DEF BySubject, Exists
  <2>12. TabsInv' BY <1>1, <2>2, <2>7, <2>8, <2>10, <2>11, TabMoves
  <2>13. \A u \in Tabs : Holding(tab'[u]) => Holding(tab[u]) /\ tab'[u].attempt = tab[u].attempt
    BY <2>2, <2>6 DEF SignInv, TabsInv, Holding
  <2>14. AccountsInv' /\ SignedInv' BY <1>1, <2>8, <2>13, RestKept
  <2>15. CodesInv' /\ PrefsInv' BY <1>1 DEF SignInv, CodesInv, PrefsInv
  <2>. QED BY <2>12, <2>14, <2>15 DEF SignInv
<1>. QED BY <1>2, <1>3

LEMMA CommitPatchStep ==
    ASSUME SignInv, NEW t \in Tabs, CommitPatch(t)
    PROVE  SignInv'
<1>1. PICK q : q = tab[t] OBVIOUS
<1>2. /\ q.at = "patch" /\ tab' = [tab EXCEPT ![t] = NotBusy] /\ prefs' = q.merged /\ wrote' = wrote \cup {q.key}
      /\ UNCHANGED <<users, state, codes, spent, proven, signed, moved, begun>>
  BY <1>1 DEF CommitPatch, Moves
<1>3. q.merged = prefs \cup {q.key} /\ IsFiniteSet(q.merged) /\ Cardinality(q.merged) <= MaxStored
  <2>1. TabOK(q) BY <1>1 DEF SignInv, TabsInv
  <2>. QED BY <1>2, <2>1 DEF TabOK, NotBusy
<1>4. PrefsInv' BY <1>2, <1>3 DEF SignInv, PrefsInv
<1>5. Persists BY <1>2 DEF Persists, Exists
<1>6. \A s : BySubject(s)' = BySubject(s) BY <1>2 DEF BySubject, Exists
<1>7. \A p : Compatible(NotBusy, p)' /\ Compatible(p, NotBusy)' BY DEF Compatible, Holding, NotBusy
<1>8. TabsInv' BY <1>1, <1>2, <1>5, <1>6, <1>7, RestsWell, TabMoves
<1>9. \A u \in Tabs : Holding(tab'[u]) => Holding(tab[u]) /\ tab'[u].attempt = tab[u].attempt
  BY <1>2 DEF SignInv, TabsInv, Holding, NotBusy
<1>10. AccountsInv' /\ SignedInv' BY <1>2, <1>5, <1>9, RestKept
<1>11. CodesInv' BY <1>2 DEF SignInv, CodesInv
<1>. QED BY <1>4, <1>8, <1>10, <1>11 DEF SignInv

\* The invariant of SignIn is inductive.
LEMMA SignInStep ==
    ASSUME SignInv, SignInNext \/ UNCHANGED signVars
    PROVE  SignInv'
<1>1. CASE UNCHANGED signVars BY <1>1, StatesStep DEF signVars
<1>2. ASSUME NEW a \in Attempts, OidcStart(a) \/ StateExpires(a) PROVE SignInv'
  BY <1>2, StatesStep DEF OidcStart, StateExpires
<1>. QED BY <1>1, <1>2, RegisterStep, PasswordGrantStep, CallbackReadsStep, PatchReadsStep, CommitRegisterStep,
            CallbackExchangesStep, LinkReadsStep, CommitLinkStep, CommitPatchStep, ProviderStep DEF SignInNext

LEMMA SignInvSound == SignInv => SignInSound
<1>. SUFFICES ASSUME SignInv PROVE SignInSound OBVIOUS
<1>1. PatchesMerge BY DEF SignInv, AccountsInv, PrefsInv, PatchesMerge
<1>2. NoTakeover BY DEF SignInv, SignedInv, Owns, NoTakeover
<1>3. OneSessionPerAttempt BY DEF SignInv, SignedInv, OneSessionPerAttempt
<1>4. ASSUME NEW s \in Subjects, s \notin moved PROVE ~(Cardinality(BySubject(s)) > 1)
  <2>1. PICK M : M = BySubject(s) OBVIOUS
  <2>2. M = {} \/ \E e \in M : M = {e} BY <1>4, <2>1 DEF SignInv, AccountsInv
  <2>3. Cardinality(M) = 0 \/ Cardinality(M) = 1 BY <2>2, FS_EmptySet, FS_Singleton
  <2>4. ~(Cardinality(M) > 1) BY <2>3
  <2>. QED BY <2>1, <2>4
<1>5. OneAccountPerSubject BY <1>4 DEF OneAccountPerSubject
<1>. QED BY <1>1, <1>2, <1>3, <1>5 DEF SignInSound

\* Accounts and sessions end up with the person they belong to (identity/service.py,
\* identity/router.py): for any number of sign-ins, callbacks and tabs that overlap.
THEOREM SignInIsSound == Spec => []SignInSound
<1>1. Init => SignInv BY SignInInitially DEF Init
<1>2. SignInv /\ [Next]_serviceVars => SignInv'
  <2>. SUFFICES ASSUME SignInv, [Next]_serviceVars PROVE SignInv' OBVIOUS
  <2>1. SignInNext \/ UNCHANGED signVars BY DEF Next, serviceVars
  <2>. QED BY <2>1, SignInStep
<1>. QED BY <1>1, <1>2, SignInvSound, PTL DEF Spec

-----------------------------------------------------------------------------
\* Whatever order the rows of grants come in, the strongest live grant decides a feature and
\* a cap is one that was granted; a lapsed grant is announced once; a rollout of 0 % or 100 %
\* is one, and two overrides of the organization break no other answer (resolve_effective,
\* expire_entitlements, FeatureFlagService._evaluate).
THEOREM AccessIsSound == Spec => []AccessSound
<1>1. Init => EntInv /\ FlagInv BY EntInitially, FlagInitially DEF Init
<1>2. EntInv /\ FlagInv /\ [Next]_serviceVars => (EntInv /\ FlagInv)'
  <2>. SUFFICES ASSUME EntInv, FlagInv, [Next]_serviceVars PROVE (EntInv /\ FlagInv)' OBVIOUS
  <2>1. EntNext \/ UNCHANGED entVars BY DEF Next, serviceVars
  <2>2. FlagNext \/ UNCHANGED flagVars BY DEF Next, serviceVars
  <2>. QED BY <2>1, <2>2, EntStep, FlagStep
<1>3. EntInv /\ FlagInv => AccessSound
  <2>. SUFFICES ASSUME EntInv, FlagInv PROVE AccessSound OBVIOUS
  <2>1. EntitlementsOK BY EntInvTypes
  <2>. QED BY <2>1, StrongestGrantDecides, CapsGranted, RolloutEnds, OverridesKeepAnswer DEF AccessSound
<1>. QED BY <1>1, <1>2, <1>3, PTL DEF Spec

-----------------------------------------------------------------------------
\* What is billed, queued and accrued is what was used, up to the rounding of each change
\* (change_plan with arrears_adjustment_cents, _renew_locally_billed).
THEOREM MoneyIsExact == Spec => []MoneyExact
<1>1. Init => MoneyInv BY MoneyInitially DEF Init
<1>2. MoneyInv /\ [Next]_serviceVars => MoneyInv'
  <2>. SUFFICES ASSUME MoneyInv, [Next]_serviceVars PROVE MoneyInv' OBVIOUS
  <2>1. MoneyNext \/ UNCHANGED moneyVars BY DEF Next, serviceVars
  <2>. QED BY <2>1, MoneyStep
<1>. QED BY <1>1, <1>2, MoneyInvExact, PTL DEF Spec

-----------------------------------------------------------------------------
\* What the steps of Subscriptions, FeatureFlags and Agents keep at once.
KeptInv == SubsInv /\ FlagInv /\ AgentsInv

LEMMA KeptInvHolds ==
    ASSUME KeptInv, [Next]_serviceVars
    PROVE  KeptInv' 
<1>1. SubsNext \/ UNCHANGED subsVars BY DEF Next, serviceVars
<1>2. FlagNext \/ UNCHANGED flagVars BY DEF Next, serviceVars
<1>3. AgentsNext \/ UNCHANGED agentVars BY DEF Next, serviceVars
<1>. QED BY <1>1, <1>2, <1>3, SubsStep, FlagStep, AgentsStep DEF KeptInv

SnapshotsKept ==
    \A i \in 1..Len(subRows) : subRows'[i].snap # subRows[i].snap =>
        \E t \in Tenants : req[t].op = "change" /\ req[t].row = i /\ req'[t] = Resting

EndsKept ==
    \A i \in 1..Len(subRows) : subRows[i].ending /\ ~subRows'[i].ending =>
        \E t \in Tenants : req[t].op \in {"change", "resume"} /\ req[t].row = i /\ req[t].loaded.ending

AnswersKept ==
    ( /\ flag.exists /\ flag.rollout # NoRollout /\ flag'.rollout # NoRollout
      /\ UNCHANGED overrides ) =>
      \A u \in FlagUsers :
        /\ flag.rollout <= flag'.rollout /\ Evaluate(u) = "on" => Evaluate(u)' = "on"
        /\ flag.rollout >= flag'.rollout /\ Evaluate(u) = "off" => Evaluate(u)' = "off"

DeletionsKept ==
    \A s \in Slugs : (agents[s] # NoAgent /\ agents[s].deleted) =>
        (agents'[s] # NoAgent /\ agents'[s].deleted)

\* No step of any service rewrites a snapshot, takes a cancellation back that it had not
\* seen, takes a feature away by raising its rollout, or restores a deleted agent
\* (billing/service.py, feature_flags/service.py, agents/service.py): for any number of
\* requests that overlap.
THEOREM NothingIsRewritten == Spec => NothingRewritten
<1>1. Init => KeptInv BY SubsInitially, FlagInitially, AgentsInitially DEF Init, KeptInv
<1>2. KeptInv /\ [Next]_serviceVars => KeptInv' BY KeptInvHolds
<1>3. KeptInv /\ [Next]_serviceVars => [SnapshotsKept]_subsVars
  <2>. SUFFICES ASSUME KeptInv, [Next]_serviceVars, ~UNCHANGED subsVars PROVE SnapshotsKept OBVIOUS
  <2>1. SubsNext BY DEF Next, serviceVars
  <2>. QED BY <2>1, RowsNotRewritten DEF KeptInv, SnapshotsKept
<1>4. KeptInv /\ [Next]_serviceVars => [EndsKept]_subsVars
  <2>. SUFFICES ASSUME KeptInv, [Next]_serviceVars, ~UNCHANGED subsVars PROVE EndsKept OBVIOUS
  <2>1. SubsNext BY DEF Next, serviceVars
  <2>. QED BY <2>1, RowsNotRewritten DEF KeptInv, EndsKept
<1>5. KeptInv /\ [Next]_serviceVars => [AnswersKept]_flagVars
  <2>. SUFFICES ASSUME KeptInv, [Next]_serviceVars, ~UNCHANGED flagVars PROVE AnswersKept OBVIOUS
  <2>1. FlagNext BY DEF Next, serviceVars
  <2>. QED BY <2>1, AnswersFollowRollout DEF KeptInv, AnswersKept
<1>6. KeptInv /\ [Next]_serviceVars => [DeletionsKept]_agentVars
  <2>. SUFFICES ASSUME KeptInv, [Next]_serviceVars, ~UNCHANGED agentVars PROVE DeletionsKept OBVIOUS
  <2>1. AgentsNext BY DEF Next, serviceVars
  <2>. QED BY <2>1, DeletedAgentStays DEF KeptInv, DeletionsKept
<1>. QED BY <1>1, <1>2, <1>3, <1>4, <1>5, <1>6, PTL
         DEF Spec, NothingRewritten, HistoryKept, CancelNotLost, RolloutGrows, DeletedStays,
             SnapshotsKept, EndsKept, AnswersKept, DeletionsKept


----------------------------------------------------------------------------
\* A request sees all rows of its tenant and none of another's, and success is reported
\* only for committed rows (core/context.py, core/repository.py, core/db.py,
\* core/commit_before_send.py): for any pool and any requests that overlap on it.
THEOREM TenantsAreIsolated == Spec => []TenantScopeSound
<1>1. Init => ScopeInv BY ScopeInitially DEF Init
<1>2. ScopeInv /\ [Next]_serviceVars => ScopeInv'
  <2>. SUFFICES ASSUME ScopeInv, [Next]_serviceVars PROVE ScopeInv' OBVIOUS
  <2>1. TenantScopeNext \/ UNCHANGED scopeVars BY DEF Next, serviceVars
  <2>2. CASE UNCHANGED scopeVars BY <2>2, ScopeUnchanged DEF scopeVars
  <2>. QED BY <2>1, <2>2, ScopeStep
<1>. QED BY <1>1, <1>2, ScopeInvSound, PTL DEF Spec
=============================================================================
