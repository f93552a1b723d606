------------------------------ MODULE Checkout ------------------------------
(***************************************************************************)
(* How an organization gets onto a paid plan, for each of the five billing *)
(* providers: POST /billing/checkout, the hosted page (external), the      *)
(* provider's webhook, POST /billing/checkout/confirm, and the plan        *)
(* changes, cancellations and trials that work on the same subscription.   *)
(*                                                                         *)
(* Requests that create the customer overlap; a webhook is handled in one  *)
(* step here (BillingWebhooks looks inside it) and events arrive in any    *)
(* order.                                                                  *)
(***************************************************************************)
EXTENDS Integers, Sequences, FiniteSets

CONSTANTS
    Providers,      \* the providers a deployment may be configured with
    Buyers,         \* requests of POST /billing/checkout that may overlap
    PaidPlans,
    MaxSessions,    \* bound: checkout sessions answered to a buyer
    MaxOwn          \* bound: plan changes, cancels, trials, confirmations, crashes

ASSUME CheckoutAssumption == "free" \notin PaidPlans /\ "none" \notin PaidPlans /\ MaxOwn \in Nat

VARIABLES
    provider,       \* settings.billing_provider
    customer,       \* billing_customers.provider_customer_id (0: no row)
    customers,      \* customers created at the provider
    buyer,          \* [Buyers -> where a checkout request is]
    session,        \* the checkouts the provider holds, and what became of them
    mail,           \* events the provider has no answer for
    own,            \* the organization's subscription: plan, status and ref
    halfChanged,    \* the provider changed a plan and we crashed before we did
    endedHere,      \* a cancel or a trial the provider does not know of
    ops             \* operations used up
checkoutVars == <<provider, customer, customers, buyer, session, mail, own,
                  halfChanged, endedHere, ops>>

Stranger == 99      \* a customer of the provider that is not one of ours

(* The capabilities services look at. *)
ClientConfirm(p) == p = "manual"
RecurringHosted(p) == p = "stripe"
Configured(p) == p \in {"manual", "stripe", "xendit", "paymongo", "paddle"}

Idle == [at |-> "idle", plan |-> "free", as |-> 0]

CheckoutInit ==
    /\ provider \in {p \in Providers : Configured(p)}
    /\ customer = 0 /\ customers = 0
    /\ buyer = [b \in Buyers |-> Idle]
    /\ session = <<>> /\ mail = {}
    /\ own = [plan |-> "free", status |-> "active", ref |-> 0]
    /\ halfChanged = FALSE /\ endedHere = FALSE /\ ops = 0

-----------------------------------------------------------------------------
(* What create_checkout hands to the provider: who pays, and for what.  Only *)
(* Stripe is told the customer; Xendit gets the plan in a free text only.    *)
StripeCheckout(plan, c)   == [plan |-> plan, payer |-> c, status |-> "open"]
PaddleCheckout(plan, c)   == [plan |-> plan, payer |-> 0, status |-> "open"]
XenditCheckout(plan, c)   == [plan |-> plan, payer |-> 0, status |-> "open"]
PaymongoCheckout(plan, c) == [plan |-> plan, payer |-> 0, status |-> "open"]

CreateCheckout(plan, c) ==
    CASE provider = "stripe"   -> StripeCheckout(plan, c)
      [] provider = "paddle"   -> PaddleCheckout(plan, c)
      [] provider = "xendit"   -> XenditCheckout(plan, c)
      [] provider = "paymongo" -> PaymongoCheckout(plan, c)

\* The URL is answered after the commit; a manual checkout has no session, only
\* instructions to confirm.
Answered(plan, c) ==
    IF provider = "manual" THEN session
    ELSE Append(session, CreateCheckout(plan, c))

\* ensure_customer finds the row and the checkout is created for it.
CheckoutAsCustomer(b, plan) ==
    /\ buyer[b].at = "idle" /\ customer # 0 /\ Len(session) < MaxSessions
    /\ session' = Answered(plan, customer)
    /\ UNCHANGED <<provider, customer, customers, buyer, mail, own, halfChanged, endedHere, ops>>

\* It finds none, and asks the provider for a customer (Manual and PayMongo
\* mint the id here).
CheckoutAsStranger(b, plan) ==
    /\ buyer[b].at = "idle" /\ customer = 0 /\ Len(session) < MaxSessions
    /\ customers < MaxSessions
    /\ customers' = customers + 1
    /\ buyer' = [buyer EXCEPT ![b] = [at |-> "insert", plan |-> plan, as |-> customers + 1]]
    /\ UNCHANGED <<provider, customer, session, mail, own, halfChanged, endedHere, ops>>

\* Mutant: the organization may have several customers, and the last one counts.
RowFreeAlways == TRUE
\* billing_customers.organization_id is unique.
RowFree == customer = 0

\* INSERT the customer, create the checkout, commit, answer.
InsertCustomer(b) ==
    /\ buyer[b].at = "insert" /\ RowFree /\ Len(session) < MaxSessions
    /\ customer' = buyer[b].as
    /\ session' = Answered(buyer[b].plan, buyer[b].as)
    /\ buyer' = [buyer EXCEPT ![b] = Idle]
    /\ UNCHANGED <<provider, customers, mail, own, halfChanged, endedHere, ops>>

\* The insert meets the row of an overlapping request, or the provider refuses
\* the checkout: 500 or 502, everything rolled back but the provider's customer.
CheckoutFails(b) ==
    /\ buyer[b].at = "insert"
    /\ ~RowFree \/ ops < MaxOwn
    /\ ops' = IF RowFree THEN ops + 1 ELSE ops
    /\ buyer' = [buyer EXCEPT ![b] = Idle]
    /\ UNCHANGED <<provider, customer, customers, session, mail, own, halfChanged, endedHere>>

-----------------------------------------------------------------------------
(* The hosted page and the provider's own life of a subscription (external). *)

RawEvent(i, type, who, status) ==
    [type |-> type, of |-> i, payer |-> who, plan |-> session[i].plan, status |-> status]

\* The payer pays.  A page that was not told the customer learns one from the
\* payer, who may be known under our customer's e-mail or another (Paddle), or
\* does not tell (Xendit, PayMongo).
Pay(i, who) ==
    /\ session[i].status = "open"
    /\ who \in CASE provider = "stripe" -> {session[i].payer}
                 [] provider = "paddle" -> {customer, Stranger}
                 [] OTHER -> {0}
    /\ session' = [session EXCEPT ![i].status = "active", ![i].payer = who]
    /\ mail' = mail \cup
         CASE provider = "stripe"   -> {RawEvent(i, "checkout.session.completed", who, "complete"),
                                        RawEvent(i, "customer.subscription.created", who, "active")}
           [] provider = "paddle"   -> {RawEvent(i, "transaction.completed", who, "completed")}
           [] provider = "xendit"   -> {RawEvent(i, "PAID", who, "PAID")}
           [] provider = "paymongo" -> {RawEvent(i, "checkout_session.completed", who, "paid")}
    /\ UNCHANGED <<provider, customer, customers, buyer, own, halfChanged, endedHere, ops>>

\* The page times out: only Xendit says so.
PageExpires(i) ==
    /\ session[i].status = "open"
    /\ session' = [session EXCEPT ![i].status = "expired"]
    /\ mail' = IF provider = "xendit" THEN mail \cup {RawEvent(i, "EXPIRED", 0, "EXPIRED")} ELSE mail
    /\ UNCHANGED <<provider, customer, customers, buyer, own, halfChanged, endedHere, ops>>

\* Stripe renews a subscription, or ends it.
StripeMoves(i, type, status) ==
    /\ provider = "stripe" /\ session[i].status = "active" /\ ops < MaxOwn
    /\ session' = [session EXCEPT ![i].status = status]
    /\ mail' = mail \cup {RawEvent(i, type, session[i].payer, status)}
    /\ ops' = ops + 1
    /\ UNCHANGED <<provider, customer, customers, buyer, own, halfChanged, endedHere>>

-----------------------------------------------------------------------------
(* translate_webhook of each provider: type, customer, subscription, plan.  *)

Event(type, c, ref, plan, status) ==
    [type |-> type, customer |-> c, ref |-> ref, plan |-> plan, status |-> status]
NotTranslated == Event("ignored", 0, 0, "none", "none")

\* metadata[plan_key] is on the checkout session, not on its subscription.
TranslateStripe(e) ==
    CASE e.type = "checkout.session.completed"    -> Event("checkout.completed", e.payer, e.of, e.plan, "none")
      [] e.type = "customer.subscription.created" -> Event("subscription.created", e.payer, e.of, "none", e.status)
      [] e.type = "customer.subscription.updated" -> Event("subscription.updated", e.payer, e.of, "none", e.status)
      [] e.type = "customer.subscription.deleted" -> Event("subscription.canceled", e.payer, e.of, "none", e.status)
      [] OTHER -> NotTranslated

\* A one-off transaction: there is no subscription to name.
TranslatePaddle(e) ==
    IF e.type = "transaction.completed" THEN Event("checkout.completed", e.payer, 0, e.plan, e.status)
    ELSE NotTranslated

TranslateXendit(e) ==
    CASE e.type = "PAID"    -> Event("invoice.paid", e.payer, 0, "none", "none")
      [] e.type = "EXPIRED" -> Event("invoice.failed", e.payer, 0, "none", "none")
      [] OTHER -> NotTranslated

\* No customer and no subscription, whatever the payload says.
TranslatePaymongo(e) ==
    IF e.type = "checkout_session.completed" THEN Event("checkout.completed", 0, 0, e.plan, "none")
    ELSE NotTranslated

Translate(e) ==
    CASE provider = "stripe"   -> TranslateStripe(e)
      [] provider = "paddle"   -> TranslatePaddle(e)
      [] provider = "xendit"   -> TranslateXendit(e)
      [] provider = "paymongo" -> TranslatePaymongo(e)

\* synapse_org_for_provider_ref: the organization that has the customer, or a
\* subscription with that reference.
Resolves(n) == \/ n.customer # 0 /\ n.customer = customer
               \/ n.ref # 0 /\ n.ref = own.ref

Occupied == own.status \in {"active", "trialing", "past_due"}

\* SubscriptionService.change_plan; without a reference the row keeps its own,
\* unless it is a new row.
OnPlan(plan, ref) ==
    [plan |-> plan, status |-> "active",
     ref |-> IF ref # 0 THEN ref ELSE IF Occupied THEN own.ref ELSE 0]

\* _apply: a status event moves the current subscription whatever its
\* reference; every transition out of an occupying status that comes up here is
\* allowed.  An event nobody can place is dropped, and answered with 200.
Applied(n) ==
    IF ~Resolves(n) THEN own
    ELSE CASE n.type = "checkout.completed" -> IF n.plan = "none" THEN own ELSE OnPlan(n.plan, n.ref)
           [] n.type = "subscription.created" /\ Occupied -> [own EXCEPT !.status = "active"]
           [] n.type = "subscription.updated" /\ Occupied -> [own EXCEPT !.status = n.status]
           [] n.type = "subscription.canceled" /\ Occupied -> [own EXCEPT !.status = "canceled"]
           [] OTHER -> own

Deliver(e) ==
    /\ mail' = mail \ {e}
    /\ own' = Applied(Translate(e))
    /\ UNCHANGED <<provider, customer, customers, buyer, session, halfChanged, endedHere, ops>>

-----------------------------------------------------------------------------
(* What the tenant does here. *)

OwnStep == ops < MaxOwn /\ ops' = ops + 1 /\ UNCHANGED <<provider, buyer>>

\* POST /billing/checkout/confirm: 409 where the provider knows about payments.
Confirm(plan) ==
    /\ OwnStep /\ ClientConfirm(provider)
    /\ customer' = IF customer = 0 THEN customers + 1 ELSE customer
    /\ customers' = IF customer = 0 THEN customers + 1 ELSE customers
    /\ own' = OnPlan(plan, 0)
    /\ UNCHANGED <<session, mail, halfChanged, endedHere>>

\* POST /subscriptions/change-plan where we bill: applied here, in arrears.
ChangePlanHere(plan) ==
    /\ OwnStep /\ ~RecurringHosted(provider)
    /\ own' = OnPlan(plan, 0)
    /\ UNCHANGED <<customer, customers, session, mail, halfChanged, endedHere>>

\* The item of the subscription gets the price of the plan.
StripeChangePlan(ref, plan) == [session EXCEPT ![ref].plan = plan]

\* Where Stripe bills it must be a subscription bought there (409
\* checkout_required); Stripe changes it first, then we do, if we get that far.
ChangePlanThere(plan, crash) ==
    /\ OwnStep /\ RecurringHosted(provider)
    /\ Occupied /\ own.ref # 0
    /\ session[own.ref].status = "active"
    /\ session' = StripeChangePlan(own.ref, plan)
    /\ own' = IF crash THEN own ELSE OnPlan(plan, own.ref)
    /\ halfChanged' = (halfChanged \/ crash)
    /\ UNCHANGED <<customer, customers, mail, endedHere>>

\* POST /subscriptions/cancel (now) and /subscriptions/trial (over whatever is
\* there): neither calls the provider's cancel_subscription.
CancelHere ==
    /\ OwnStep /\ Occupied
    /\ own' = [own EXCEPT !.status = "canceled"]
    /\ endedHere' = TRUE
    /\ UNCHANGED <<customer, customers, session, mail, halfChanged>>

TrialHere(plan) ==
    /\ OwnStep /\ own.status # "trialing"
    /\ own' = [plan |-> plan, status |-> "trialing", ref |-> 0]
    /\ endedHere' = TRUE
    /\ UNCHANGED <<customer, customers, session, mail, halfChanged>>

CheckoutNext ==
    \/ \E b \in Buyers :
         \/ \E plan \in PaidPlans : CheckoutAsCustomer(b, plan) \/ CheckoutAsStranger(b, plan)
         \/ InsertCustomer(b) \/ CheckoutFails(b)
    \/ \E i \in 1..Len(session) :
         \/ \E who \in {0, Stranger} \cup 1..customers : Pay(i, who)
         \/ PageExpires(i)
         \/ StripeMoves(i, "customer.subscription.updated", "active")
         \/ StripeMoves(i, "customer.subscription.deleted", "canceled")
    \/ \E e \in mail : Deliver(e)
    \/ \E plan \in PaidPlans :
         \/ Confirm(plan) \/ ChangePlanHere(plan) \/ TrialHere(plan)
         \/ \E crash \in BOOLEAN : ChangePlanThere(plan, crash)
    \/ CancelHere

CheckoutSpec == CheckoutInit /\ [][CheckoutNext]_checkoutVars

-----------------------------------------------------------------------------
\* Requests, checkouts and the subscription are well typed.
CheckoutOK ==
    /\ provider \in Providers /\ customer \in 0..customers
    /\ buyer \in [Buyers -> [at : {"idle", "insert"}, plan : PaidPlans \cup {"free"}, as : 0..customers]]
    /\ \A i \in 1..Len(session) :
         session[i] \in [plan : PaidPlans, payer : {0, Stranger} \cup 1..customers,
                        status : {"open", "active", "canceled", "expired"}]
    /\ own \in [plan : PaidPlans \cup {"free"}, status : {"active", "trialing", "canceled"},
                ref : 0..Len(session)]
    /\ ops \in 0..MaxOwn

\* Requests that overlap while the organization has no customer yet may leave
\* customers behind at Stripe, but whoever pays a checkout pays as the customer
\* whose events find the organization.
PayersKnown == provider = "stripe" =>
    \A i \in 1..Len(session) : session[i].payer = customer

\* "otherwise POST /billing/checkout/confirm is a free upgrade": where Stripe
\* knows about payments, a paid plan is active only with a subscription that was
\* paid for.  A trial over a bought subscription is the exception: the next
\* renewal event of that subscription activates the trial's plan.
NoFreeUpgrade ==
    provider = "stripe" /\ own.status = "active" /\ own.plan # "free" /\ ~endedHere
      => own.ref # 0 /\ session[own.ref].status \in {"active", "canceled"}

\* What we grant is what Stripe bills: the subscription we hold a reference of is
\* on our plan there, unless we crashed between its change and ours.
PlansAgree ==
    provider = "stripe" /\ own.ref # 0 /\ ~halfChanged => session[own.ref].plan = own.plan

\* A checkout that was paid, all of whose events are answered, put the
\* organization on a paid plan, unless a subscription ended there or here.
BoughtIsActive(P) ==
    ( /\ provider \in P /\ mail = {} /\ ~endedHere
      /\ \E i \in 1..Len(session) : session[i].status = "active" /\ session[i].payer # Stranger
      /\ \A i \in 1..Len(session) : session[i].status # "canceled" )
      => own.status = "active" /\ own.plan # "free"

\* It does with Stripe, and with Paddle for a payer it knows as our customer.
StripeActivates == BoughtIsActive({"stripe", "paddle"})

\* "hosted checkouts activate via webhook", with every hosted provider.
HostedActivates == BoughtIsActive(Providers)
====
