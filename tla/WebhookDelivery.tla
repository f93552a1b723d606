-------------------------- MODULE WebhookDelivery --------------------------
(***************************************************************************)
(* deliver_webhooks: worker processes claim due deliveries with FOR UPDATE *)
(* SKIP LOCKED, POST them one after the other and commit once at the end   *)
(* of the batch.  Together with the retry button of the API, which loads a *)
(* delivery in one transaction and writes the columns it changed when that *)
(* transaction commits.                                                    *)
(***************************************************************************)
EXTENDS Integers, FiniteSets

CONSTANTS
    MaxDelivery,   \* deliveries are 1..MaxDelivery, in the order of created_at
    Undecryptable, \* deliveries whose endpoint's secret may no longer decrypt
    Posters,       \* worker processes that run deliver_webhooks
    DeliveryBatch, \* DELIVERY_BATCH
    MaxTries,      \* min(delivery.max_attempts, MAX_DELIVERY_ATTEMPTS)
    Answers,       \* HTTP status codes endpoints answer with; 0: an httpx.HTTPError
    MaxDeaths,     \* bound: crashes of worker processes
    MaxCount,      \* bound: the histories posts and acks stop counting here
    MaxRetries     \* bound: calls of POST /deliveries/{id}/retry

Deliveries == 1..MaxDelivery
NoRetry == 0

ASSUME DeliveryAssumption == MaxDelivery \in Nat /\ Undecryptable \subseteq Deliveries
ASSUME DeliveryBounds ==
    /\ DeliveryBatch \in Nat \ {0} /\ MaxTries \in Nat \ {0} /\ MaxDeaths \in Nat /\ MaxRetries \in Nat
    /\ MaxCount \in Nat \ {0} /\ Answers \subseteq Nat

VARIABLES
    deliveryStatus, \* webhook_deliveries.status
    tries,        \* webhook_deliveries.attempts
    deliveryDue,  \* next_attempt_at <= now()
    \* each worker
    posting, toPost,
    ok, ko,       \* deliveries of the batch answered with 2xx, and not
    \* the retry request in flight: the delivery and the columns it loaded
    retrying, loaded,
    \* history
    posts,        \* HTTP requests sent for a delivery
    acks,         \* of those, how many were answered with 2xx
    settled,      \* outcomes that were committed
    deaths, retries,
    unreadable    \* the deliveries whose endpoint's secret does not decrypt (after a key rotation)

deliveryRows == <<deliveryStatus, tries, deliveryDue>>
posterVars == <<posting, toPost, ok, ko>>
retryVars == <<retrying, loaded, retries, unreadable>>
deliveryVars == <<deliveryRows, posterVars, retryVars, posts, acks, settled, deaths>>

HeldRows(w) == toPost[w] \cup ok[w] \cup ko[w]
Earliest(S, n) == {d \in S : Cardinality({f \in S : f < d}) < n}

DeliveryInit ==
    /\ deliveryStatus = [d \in Deliveries |-> "pending"]
    /\ tries = [d \in Deliveries |-> 0]
    /\ deliveryDue = [d \in Deliveries |-> TRUE]
    /\ posting = [w \in Posters |-> "idle"]
    /\ toPost = [w \in Posters |-> {}]
    /\ ok = [w \in Posters |-> {}]
    /\ ko = [w \in Posters |-> {}]
    /\ retrying = NoRetry
    /\ loaded = [status |-> "pending", attempts |-> 0]
    /\ posts = [d \in Deliveries |-> 0]
    /\ acks = [d \in Deliveries |-> 0]
    /\ settled = [d \in Deliveries |-> 0]
    /\ deaths = 0
    /\ retries = 0
    /\ unreadable \in {{}, Undecryptable}

----------------------------------------------------------------------------
\* Mutant: the claim does not skip rows another worker holds.
ClaimableDeliveriesAll(w) == {d \in Deliveries : deliveryStatus[d] = "pending" /\ deliveryDue[d]}
ClaimableDeliveries(w) ==
    {d \in Deliveries : /\ deliveryStatus[d] = "pending" /\ deliveryDue[d]
                        /\ \A v \in Posters \ {w} : d \notin HeldRows(v)}

ClaimDeliveries(w) ==
    /\ posting[w] = "idle"
    /\ ClaimableDeliveries(w) # {}
    /\ toPost' = [toPost EXCEPT ![w] = Earliest(ClaimableDeliveries(w), DeliveryBatch)]
    /\ posting' = [posting EXCEPT ![w] = "post"]
    /\ UNCHANGED <<deliveryRows, ok, ko, retryVars, posts, acks, settled, deaths>>

NextDelivery(w) == CHOOSE d \in toPost[w] : \A f \in toPost[w] : d <= f

More(n) == IF n < MaxCount THEN n + 1 ELSE n

\* decrypt_secret succeeds, so the body can be signed.
Signs(d) == d \notin unreadable

Success(code) == 200 <= code /\ code < 300

Post(w) ==
    LET d == NextDelivery(w) IN
    /\ posts' = [posts EXCEPT ![d] = More(@)]
    /\ toPost' = [toPost EXCEPT ![w] = @ \ {d}]
    /\ \E code \in Answers :
          /\ acks' = IF code \in 200..299 THEN [acks EXCEPT ![d] = More(@)] ELSE acks
          /\ ok' = IF Success(code) THEN [ok EXCEPT ![w] = @ \cup {d}] ELSE ok
          /\ ko' = IF Success(code) THEN ko ELSE [ko EXCEPT ![w] = @ \cup {d}]
    /\ UNCHANGED <<deliveryRows, posting, retryVars, settled, deaths>>

\* The transaction of the batch is rolled back.
Abandon(w) ==
    /\ posting' = [posting EXCEPT ![w] = "idle"]
    /\ toPost' = [toPost EXCEPT ![w] = {}]
    /\ ok' = [ok EXCEPT ![w] = {}]
    /\ ko' = [ko EXCEPT ![w] = {}]
    /\ UNCHANGED <<deliveryRows, retryVars, posts, acks, settled>>

\* decrypt_secret raises outside deliver's try block: the exception leaves the job.
Abort(w) == Abandon(w) /\ UNCHANGED deaths

\* deliver(): the next delivery of the batch.
Deliver(w) ==
    /\ posting[w] = "post" /\ toPost[w] # {}
    /\ IF Signs(NextDelivery(w)) THEN Post(w) ELSE Abort(w)

CrashPosting(w) ==
    /\ posting[w] # "idle" /\ deaths < MaxDeaths
    /\ deaths' = deaths + 1
    /\ Abandon(w)

\* _mark_failure: the status after n attempts.
AfterFailure(n) == IF n >= MaxTries THEN "exhausted" ELSE "pending"

\* Mutant: a failure is not counted.
TriesForgotten(w, d) == tries[d]
\* The attempts of a delivery at the end of the batch.
TriesAfter(w, d) == tries[d] + IF d \in ko[w] THEN 1 ELSE 0

CommitBatch(w) ==
    /\ posting[w] = "post" /\ toPost[w] = {}
    /\ deliveryStatus' = [d \in Deliveries |-> IF d \in ok[w] THEN "delivered"
                                               ELSE IF d \in ko[w] THEN AfterFailure(TriesAfter(w, d))
                                               ELSE deliveryStatus[d]]
    /\ tries' = [d \in Deliveries |-> TriesAfter(w, d)]
    /\ deliveryDue' = [d \in Deliveries |-> deliveryDue[d] /\ ~(d \in ko[w] /\ TriesAfter(w, d) < MaxTries)]
    /\ settled' = [d \in Deliveries |-> IF d \in ok[w] \cup ko[w] THEN More(settled[d]) ELSE settled[d]]
    /\ posting' = [posting EXCEPT ![w] = "idle"]
    /\ ok' = [ok EXCEPT ![w] = {}]
    /\ ko' = [ko EXCEPT ![w] = {}]
    /\ UNCHANGED <<toPost, retryVars, posts, acks, deaths>>

DeliveryBackoffElapses(d) ==
    /\ ~deliveryDue[d]
    /\ deliveryDue' = [deliveryDue EXCEPT ![d] = TRUE]
    /\ UNCHANGED <<deliveryStatus, tries, posterVars, retryVars, posts, acks, settled, deaths>>

----------------------------------------------------------------------------
\* retry_delivery: session.get, no lock.
RetryLoad(d) ==
    /\ retrying = NoRetry /\ retries < MaxRetries
    /\ retrying' = d
    /\ loaded' = [status |-> deliveryStatus[d], attempts |-> tries[d]]
    /\ retries' = retries + 1
    /\ UNCHANGED <<deliveryRows, posterVars, posts, acks, settled, deaths, unreadable>>

\* The request commits once no worker holds the row; the UPDATE names only the
\* columns whose value differs from the loaded one.
RetryCommit ==
    /\ retrying # NoRetry
    /\ \A w \in Posters : retrying \notin HeldRows(w)
    /\ deliveryStatus' = [deliveryStatus EXCEPT ![retrying] = IF loaded.status = "pending" THEN @ ELSE "pending"]
    /\ tries' = [tries EXCEPT ![retrying] = IF loaded.attempts = 0 THEN @ ELSE 0]
    /\ deliveryDue' = [deliveryDue EXCEPT ![retrying] = TRUE]
    /\ retrying' = NoRetry
    /\ UNCHANGED <<posterVars, loaded, posts, acks, settled, deaths, retries, unreadable>>

PosterStep(w) == ClaimDeliveries(w) \/ Deliver(w) \/ CommitBatch(w)

DeliveryNext ==
    \/ \E w \in Posters : PosterStep(w) \/ CrashPosting(w)
    \/ \E d \in Deliveries : DeliveryBackoffElapses(d) \/ RetryLoad(d)
    \/ RetryCommit

DeliverySpec == DeliveryInit /\ [][DeliveryNext]_deliveryVars

\* The cron starts deliver_webhooks every fifteen seconds, time passes, and a
\* request that was accepted ends.
DeliveryFairness ==
    /\ \A w \in Posters : WF_deliveryVars(PosterStep(w))
    /\ \A d \in Deliveries : WF_deliveryVars(DeliveryBackoffElapses(d))
    /\ WF_deliveryVars(RetryCommit)

FairDeliverySpec == DeliverySpec /\ DeliveryFairness

----------------------------------------------------------------------------
DeliveriesOK ==
    /\ deliveryStatus \in [Deliveries -> {"pending", "delivered", "exhausted"}]
    /\ tries \in [Deliveries -> 0..MaxTries]
    /\ deliveryDue \in [Deliveries -> BOOLEAN]
    /\ posting \in [Posters -> {"idle", "post"}]
    /\ toPost \in [Posters -> SUBSET Deliveries]
    /\ ok \in [Posters -> SUBSET Deliveries] /\ ko \in [Posters -> SUBSET Deliveries]
    /\ retrying \in Deliveries \cup {NoRetry}
    /\ loaded \in [status : {"pending", "delivered", "exhausted"}, attempts : 0..MaxTries]
    /\ posts \in [Deliveries -> Nat] /\ acks \in [Deliveries -> Nat]
    /\ settled \in [Deliveries -> Nat]
    /\ deaths \in 0..MaxDeaths /\ retries \in 0..MaxRetries
    /\ unreadable \subseteq Undecryptable

InFlight(d) == \E w \in Posters : d \in ok[w] \cup ko[w]

\* A POST is followed by its committed outcome unless a process died in between:
\* overlapping workers send nothing twice.  A secret that does not decrypt is the
\* exception: it aborts every batch it is in, after the POSTs before it.
PostsAccounted ==
    unreadable = {} =>
        \A d \in Deliveries : posts[d] <= settled[d] + deaths + IF InFlight(d) THEN 1 ELSE 0

\* An endpoint is bothered with at most MaxTries requests per delivery, one
\* more per crash, and another round per retry the customer asked for, as long as
\* every secret decrypts.
AttemptsBounded ==
    unreadable = {} => \A d \in Deliveries : posts[d] <= MaxTries * (retries + 1) + deaths

\* The status column tells the truth whatever crashes, aborts, overlaps and retries
\* happen: a "delivered" row was acknowledged with 2xx.
DeliveredMeansAcked == \A d \in Deliveries : deliveryStatus[d] = "delivered" => acks[d] >= 1

\* "Deliveries retry with backoff until exhausted": none stays pending for ever,
\* as long as every secret decrypts.
DeliveriesSettle ==
    \A d \in Deliveries : (deliveryStatus[d] = "pending" /\ unreadable = {}) ~> deliveryStatus[d] # "pending"

\* What the endpoint sees and what the row says agree, whatever overlaps, crashes and
\* is retried: POSTs are accounted for and bounded, "delivered" was acknowledged.
PostsHonest == DeliveriesOK /\ PostsAccounted /\ AttemptsBounded /\ DeliveredMeansAcked
====
