------------------------------- MODULE SignIn -------------------------------
(***************************************************************************)
(* How a person becomes a user (identity/service.py, identity/router.py,   *)
(* identity/provider.py): registration, the single sign-on round trip with *)
(* its one-shot state, the password grant, and the preferences two tabs    *)
(* write.  A request reads the users table and commits later; only the     *)
(* address is unique in it.                                                *)
(***************************************************************************)
EXTENDS Naturals, FiniteSets

CONSTANTS Emails, Subjects,   \* addresses; accounts at the identity provider
          Nil,                \* NULL
          Attempts,           \* login attempts, each with its state, verifier and nonce
          Tabs,               \* overlapping requests
          Settings,           \* top-level preference keys
          MaxStored,          \* MAX_STORED_KEYS
          MaxBegun            \* bound: requests in a behaviour

ASSUME SignInAssumption == MaxStored \in Nat

VARIABLES users,              \* email -> its account, or NoUser
          state,              \* attempt -> "new", "stored" in the cache, or "gone"
          codes,              \* authorization codes the provider handed out
          spent,              \* codes the provider has exchanged
          tab,                \* request -> its progress
          proven,             \* <<subject, email>> the provider verified
          signed,             \* <<subject, email, attempt>> of every session issued by SSO
          moved,              \* subjects whose overlapping sign-ins carried different addresses
          prefs, wrote,       \* preference keys of one account; keys of its committed patches
          begun               \* requests so far

signVars == <<users, state, codes, spent, tab, proven, signed, moved, prefs, wrote, begun>>

NoUser == [provider |-> "none"]
User == [provider : {"local", "keycloak"}, subject : Subjects \cup {Nil}, password : BOOLEAN,
         author : Subjects \cup {Nil}]
NotBusy == [at |-> "rest"]

SignInInit ==
    /\ users = [e \in Emails |-> NoUser]
    /\ state = [a \in Attempts |-> "new"] /\ codes = {} /\ spent = {}
    /\ tab = [t \in Tabs |-> NotBusy]
    /\ proven = {} /\ signed = {} /\ moved = {} /\ prefs = {} /\ wrote = {} /\ begun = 0

Exists(e) == users[e] # NoUser
Begins(t) == tab[t] = NotBusy /\ begun < MaxBegun /\ begun' = begun + 1
Moves(t, next) == tab' = [tab EXCEPT ![t] = next]

\* register: the address must be free; the unique constraint decides a race.
Register(t, e) ==
    /\ Begins(t) /\ ~Exists(e) /\ Moves(t, [at |-> "register", email |-> e])
    /\ UNCHANGED <<users, state, codes, spent, proven, signed, moved, prefs, wrote>>

Account(p, s, pw, by) == [provider |-> p, subject |-> s, password |-> pw, author |-> by]

CommitRegister(t) ==
    LET e == tab[t].email IN
    /\ tab[t].at = "register" /\ Moves(t, NotBusy)
    /\ users' = IF Exists(e) THEN users ELSE [users EXCEPT ![e] = Account("local", Nil, TRUE, Nil)]
    /\ UNCHANGED <<state, codes, spent, proven, signed, moved, prefs, wrote, begun>>

\* oidc_start stores verifier and nonce under the state.
OidcStart(a) ==
    /\ state[a] = "new" /\ state' = [state EXCEPT ![a] = "stored"]
    /\ UNCHANGED <<users, codes, spent, tab, proven, signed, moved, prefs, wrote, begun>>

StateExpires(a) ==
    /\ state[a] = "stored" /\ state' = [state EXCEPT ![a] = "gone"]
    /\ UNCHANGED <<users, codes, spent, tab, proven, signed, moved, prefs, wrote, begun>>

\* The provider authenticates somebody in the browser of attempt a and returns a
\* code that is bound to the attempt's challenge and nonce.
ProviderAuthenticates(a, s, e, verified) ==
    /\ state[a] # "new" /\ \A c \in codes : c.attempt # a
    /\ codes' = codes \cup {[attempt |-> a, sub |-> s, email |-> e, email_verified |-> verified]}
    /\ proven' = IF verified THEN proven \cup {<<s, e>>} ELSE proven
    /\ UNCHANGED <<users, state, spent, tab, signed, moved, prefs, wrote, begun>>

\* oidc_callback reads the state and then deletes it: two callbacks can both read it.
CallbackReads(t, a, c) ==
    /\ Begins(t) /\ state[a] = "stored"
    /\ Moves(t, [at |-> "exchange", attempt |-> a, code |-> c])
    /\ UNCHANGED <<users, state, codes, spent, proven, signed, moved, prefs, wrote>>

\* Mutant: the code is exchanged without the verifier and the nonce of the state.
ExchangeableUnbound(c, a) == c \notin spent
\* The provider takes a code once and with its verifier; the nonce must match too.
Exchangeable(c, a) == c \notin spent /\ c.attempt = a

\* Other requests that hold claims of the same subject with another address.
Overlapping(t, c) == {u \in Tabs \ {t} : tab[u].at \in {"link", "commit"} /\ tab[u].claims.sub = c.sub
                                         /\ tab[u].claims.email # c.email}

CallbackExchanges(t) ==
    LET a == tab[t].attempt  c == tab[t].code IN
    /\ tab[t].at = "exchange"
    /\ state' = [state EXCEPT ![a] = "gone"]
    /\ IF Exchangeable(c, a)
       THEN /\ spent' = spent \cup {c} /\ Moves(t, [at |-> "link", claims |-> c, attempt |-> a])
            /\ moved' = IF Overlapping(t, c) = {} THEN moved ELSE moved \cup {c.sub}
       ELSE Moves(t, NotBusy) /\ UNCHANGED <<spent, moved>>
    /\ UNCHANGED <<users, codes, proven, signed, prefs, wrote, begun>>

\* The account that is linked to a subject.
BySubject(s) == {e \in Emails : Exists(e) /\ users[e].provider = "keycloak" /\ users[e].subject = s}

\* An existing account is found by address only when the provider verified it.
ByEmail(c) == IF c.email_verified /\ Exists(c.email) THEN {c.email} ELSE {}

\* link_or_create_oidc_user: by subject, else by verified address, else a new
\* account, unless the address is taken.
Resolution(c) ==
    IF Cardinality(BySubject(c.sub)) > 1 THEN [how |-> "refuse", email |-> c.email]
    ELSE IF BySubject(c.sub) # {} THEN [how |-> "found", email |-> CHOOSE e \in BySubject(c.sub) : TRUE]
    ELSE IF ByEmail(c) # {} THEN [how |-> "link", email |-> c.email]
    ELSE IF Exists(c.email) THEN [how |-> "refuse", email |-> c.email]
    ELSE [how |-> "create", email |-> c.email]

LinkReads(t) ==
    LET r == Resolution(tab[t].claims) IN
    /\ tab[t].at = "link"
    /\ IF r.how = "refuse" THEN Moves(t, NotBusy)
       ELSE Moves(t, [at |-> "commit", claims |-> tab[t].claims, attempt |-> tab[t].attempt, does |-> r])
    /\ UNCHANGED <<users, state, codes, spent, proven, signed, moved, prefs, wrote, begun>>

\* The commit: the link overwrites provider and subject, the insert runs into the
\* unique address; the session is issued in the same transaction.
CommitLink(t) ==
    LET r == tab[t].does  c == tab[t].claims
        fails == r.how = "create" /\ Exists(r.email) IN
    /\ tab[t].at = "commit" /\ Moves(t, NotBusy)
    /\ users' = CASE fails \/ r.how = "found" -> users
                  [] r.how = "link" -> [users EXCEPT ![r.email].provider = "keycloak", ![r.email].subject = c.sub]
                  [] OTHER -> [users EXCEPT ![r.email] = Account("keycloak", c.sub, FALSE, c.sub)]
    /\ signed' = IF fails THEN signed ELSE signed \cup {<<c.sub, r.email, tab[t].attempt, c.attempt>>}
    /\ UNCHANGED <<state, codes, spent, proven, moved, prefs, wrote, begun>>

\* The password form with the opt-in grant: for an unknown address or an account
\* without a password, the provider checks the credentials and returns claims.
PasswordGrant(t, e, s, verified) ==
    LET c == [attempt |-> Nil, sub |-> s, email |-> e, email_verified |-> verified] IN
    /\ Begins(t) /\ (Exists(e) => users[e].provider # "local" /\ ~users[e].password)
    /\ Moves(t, [at |-> "link", claims |-> c, attempt |-> Nil])
    /\ proven' = IF verified THEN proven \cup {<<s, e>>} ELSE proven
    /\ moved' = IF Overlapping(t, c) = {} THEN moved ELSE moved \cup {s}
    /\ UNCHANGED <<users, state, codes, spent, signed, prefs, wrote>>

RowIsFree == \A t \in Tabs : tab[t].at # "patch"

\* update_preferences locks and re-reads the row, merges, and checks the cap.
PatchReads(t, k) ==
    /\ Begins(t) /\ RowIsFree
    /\ IF Cardinality(prefs \cup {k}) > MaxStored THEN UNCHANGED tab
       ELSE Moves(t, [at |-> "patch", key |-> k, merged |-> prefs \cup {k}])
    /\ UNCHANGED <<users, state, codes, spent, proven, signed, moved, prefs, wrote>>

CommitPatch(t) ==
    /\ tab[t].at = "patch" /\ Moves(t, NotBusy)
    /\ prefs' = tab[t].merged /\ wrote' = wrote \cup {tab[t].key}
    /\ UNCHANGED <<users, state, codes, spent, proven, signed, moved, begun>>

SignInNext ==
    \/ \E t \in Tabs :
          \/ \E e \in Emails : \/ Register(t, e)
                               \/ \E s \in Subjects, v \in BOOLEAN : PasswordGrant(t, e, s, v)
          \/ \E a \in Attempts, c \in codes : CallbackReads(t, a, c)
          \/ \E k \in Settings : PatchReads(t, k)
          \/ CommitRegister(t) \/ CallbackExchanges(t) \/ LinkReads(t) \/ CommitLink(t) \/ CommitPatch(t)
    \/ \E a \in Attempts :
          \/ OidcStart(a) \/ StateExpires(a)
          \/ \E s \in Subjects, e \in Emails, v \in BOOLEAN : ProviderAuthenticates(a, s, e, v)

----------------------------------------------------------------------------
\* Accounts and patches have their types, and no patch is lost: two tabs that write
\* different preferences at the same time both find theirs stored.
PatchesMerge ==
    /\ users \in [Emails -> User \cup {NoUser}]
    /\ wrote \subseteq prefs /\ Cardinality(prefs) <= MaxStored

\* An unverified address takes nothing over: whoever is signed in to an account by
\* single sign-on created it or once proved its address to the provider.
NoTakeover == \A g \in signed : <<g[1], g[2]>> \in proven \/ (Exists(g[2]) /\ users[g[2]].author = g[1])

\* A session belongs to the login attempt it was started in, also when callbacks
\* overlap or codes and states are mixed up, and each attempt signs in once.
OneSessionPerAttempt ==
    /\ \A g \in signed : g[3] = g[4]
    /\ \A g, h \in signed : (g[3] = h[3] /\ g[3] # Nil) => g = h

\* An identity resolves to one account, however its address changes, unless two of
\* its sign-ins overlapped and carried different addresses.
OneAccountPerSubject == \A s \in Subjects : Cardinality(BySubject(s)) > 1 => s \in moved

\* Accounts and sessions end up with the person they belong to, whatever sign-ins,
\* callbacks and tabs overlap.
SignInSound == PatchesMerge /\ NoTakeover /\ OneSessionPerAttempt /\ OneAccountPerSubject
====
