----------------------------- MODULE RateLimit -----------------------------
(***************************************************************************)
(* The limiter of the credential endpoints (core/rate_limit.py,            *)
(* identity/rate_limit.py): one counter for the client's address and one   *)
(* for the account, in Redis with an expiry, or in the process without     *)
(* Redis.  The counter and its expiry are two commands, so a crash in      *)
(* between leaves a counter that no time removes until the next attempt.   *)
(* A counter is followed up to one past its limit, which is all that a     *)
(* check can tell apart.                                                   *)
(***************************************************************************)
EXTENDS Integers

CONSTANTS Limit,            \* bucket -> attempts per window ("ip" and "id")
          Window,           \* seconds of a window
          Logins            \* overlapping attempts

ASSUME LimitAssumption ==
    /\ {"ip", "id"} \subseteq DOMAIN Limit /\ Limit \in [DOMAIN Limit -> Nat]
    /\ Window \in Nat \ {0}

VARIABLES distributed,      \* Redis is configured
          count, ttl,       \* bucket -> counter (0: no key) and its expiry
          fresh, phase,     \* bucket -> its window is the current one; time within a window
          try,              \* attempt -> its progress
          passed,           \* bucket -> attempts counted and let through since the window began
          refused           \* buckets that refused someone since the window began

limitVars == <<distributed, count, ttl, fresh, phase, try, passed, refused>>

Buckets == DOMAIN Limit
NoTtl == -1
NotTrying == [at |-> "rest"]

LimitInit ==
    /\ distributed \in BOOLEAN
    /\ count = [b \in Buckets |-> 0] /\ ttl = [b \in Buckets |-> NoTtl]
    /\ fresh = [b \in Buckets |-> FALSE] /\ phase = 0
    /\ try = [a \in Logins |-> NotTrying]
    /\ passed = [b \in Buckets |-> 0] /\ refused = {}

Saturated(b, n) == IF n > Limit[b] + 1 THEN Limit[b] + 1 ELSE n

\* Mutant: the attempt after the last allowed one is let through.
TooManyLate(b, n) == n > Limit[b] + 1
TooMany(b, n) == n > Limit[b]

\* The address is checked on every route, then the account where the route names
\* one; an attempt that passed both reaches the handler.
After(b, hasIdentity) == IF b = "ip" /\ hasIdentity THEN [at |-> "check", bucket |-> "id", identity |-> FALSE] ELSE NotTrying

StartAttempt(a) ==
    /\ try[a] = NotTrying
    /\ \E i \in BOOLEAN : try' = [try EXCEPT ![a] = [at |-> "check", bucket |-> "ip", identity |-> i]]
    /\ UNCHANGED <<distributed, count, ttl, fresh, phase, passed, refused>>

\* The verdict of a check whose counter reached n; when the key ran out before the
\* EXPIRE, the refusal locks nobody out.
KeyGone(a, b) == try[a].at = "expire" /\ count[b] = 0
Decide(a, b, n) ==
    IF TooMany(b, n)
    THEN /\ refused' = IF KeyGone(a, b) THEN refused ELSE refused \cup {b}
         /\ try' = [try EXCEPT ![a] = NotTrying]
    ELSE /\ UNCHANGED refused /\ try' = [try EXCEPT ![a] = After(b, try[a].identity)]

\* An attempt counted as the n-th is let through, now or after the expiry is set.
Counted(b, n) == [passed EXCEPT ![b] = IF TooMany(b, n) THEN @ ELSE @ + 1]

\* Mutant: the expiry is set by the attempt that created the counter.
NeedsExpiryFirst(b, n) == n = 1
\* The expiry is set by whoever finds none.
NeedsExpiry(b, n) == ttl[b] = NoTtl

\* INCR and TTL, in one transaction of Redis.
CheckRedis(a) ==
    /\ distributed /\ try[a].at = "check"
    /\ LET b == try[a].bucket  n == Saturated(b, count[b] + 1) IN
       /\ count' = [count EXCEPT ![b] = n] /\ passed' = Counted(b, n)
       /\ IF NeedsExpiry(b, n)
          THEN /\ try' = [try EXCEPT ![a] = [at |-> "expire", bucket |-> b, identity |-> try[a].identity, n |-> n]]
               /\ UNCHANGED refused
          ELSE Decide(a, b, n)
    /\ UNCHANGED <<distributed, ttl, fresh, phase>>

\* EXPIRE does nothing when the key is gone.
Expire(a) ==
    /\ try[a].at = "expire"
    /\ LET b == try[a].bucket IN
       /\ ttl' = [ttl EXCEPT ![b] = IF count[b] = 0 THEN NoTtl ELSE Window]
       /\ Decide(a, b, try[a].n)
    /\ UNCHANGED <<distributed, count, fresh, phase, passed>>

\* The process dies between the two commands.
Dies(a) ==
    /\ try[a].at = "expire" /\ try' = [try EXCEPT ![a] = NotTrying]
    /\ UNCHANGED <<distributed, count, ttl, fresh, phase, passed, refused>>

\* Redis fails at either command: the attempt goes on as if it had passed.
Degraded(a) ==
    /\ distributed /\ try[a].at \in {"check", "expire"}
    /\ try' = [try EXCEPT ![a] = After(try[a].bucket, try[a].identity)]
    /\ UNCHANGED <<distributed, count, ttl, fresh, phase, passed, refused>>

\* Without Redis: a counter of the current window in the process.
CheckLocal(a) ==
    /\ ~distributed /\ try[a].at = "check"
    /\ LET b == try[a].bucket
           n == Saturated(b, (IF fresh[b] THEN count[b] ELSE 0) + 1) IN
       /\ count' = [count EXCEPT ![b] = n] /\ fresh' = [fresh EXCEPT ![b] = TRUE]
       /\ passed' = Counted(b, n)
       /\ Decide(a, b, n)
    /\ UNCHANGED <<distributed, ttl, phase>>

Expiring == {b \in Buckets : ttl[b] = 1}

\* A second passes: keys of Redis run out, and the process's clock may enter the
\* next window.
SecondPasses ==
    LET Over == IF distributed THEN Expiring ELSE IF phase = Window - 1 THEN Buckets ELSE {} IN
    /\ phase' = (phase + 1) % Window
    /\ ttl' = [b \in Buckets |-> IF ttl[b] <= 1 THEN NoTtl ELSE ttl[b] - 1]
    /\ count' = [b \in Buckets |-> IF b \in Expiring THEN 0 ELSE count[b]]
    /\ fresh' = [b \in Buckets |-> fresh[b] /\ b \notin Over]
    /\ passed' = [b \in Buckets |-> IF b \in Over THEN 0 ELSE passed[b]]
    /\ refused' = refused \ Over
    /\ UNCHANGED <<distributed, try>>

LimitNext ==
    \/ SecondPasses
    \/ \E a \in Logins : StartAttempt(a) \/ CheckRedis(a) \/ Expire(a) \/ Dies(a) \/ Degraded(a) \/ CheckLocal(a)

LimitSpec == LimitInit /\ [][LimitNext]_limitVars

\* Time passes.
LimitFairness == WF_limitVars(SecondPasses)

----------------------------------------------------------------------------
\* No life of a counter admits more attempts than its limit, with attempts that
\* overlap, a key that runs out between INCR and EXPIRE, or a crash there.  Those
\* that only a failure of Redis let through are in nobody's count.
WithinLimit ==
    /\ ttl \in [Buckets -> {NoTtl} \cup 1..Window]
    /\ \A b \in Buckets : passed[b] <= Limit[b]

\* A refusal is not for ever: the window of a bucket that refused someone ends by
\* itself, also when a process died before it could set the expiry.
LockoutEnds == \A b \in Buckets : b \in refused ~> b \notin refused
====
