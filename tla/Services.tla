------------------------------ MODULE Services ------------------------------
(***************************************************************************)
(* The request-driven services that share the API process and the database *)
(* but no row: each has its own tables, and what one of them promises does *)
(* not depend on a step of another.  A behaviour looks at one of them      *)
(* while the others rest.                                                  *)
(***************************************************************************)
EXTENDS Checkout, Subscriptions, Entitlements, Proration, FeatureFlags, SignIn, TenantScope, Agents,
        Notifications

VARIABLE service      \* the service this behaviour looks at

serviceVars == <<service, checkoutVars, subsVars, entVars, moneyVars, flagVars, signVars, scopeVars,
                 agentVars, mailVars>>

\* A service that rests starts in one of its initial states only.
OneStart ==
    /\ service # "checkout" => provider = CHOOSE p \in Providers : Configured(p)
    /\ service # "entitlements" => subStatus = "none"
    /\ service # "proration" => price = CHOOSE p \in PriceList : TRUE
    /\ service # "scope" => rls /\ subject /\ belongs = {}
    /\ service # "mail" => transport = "smtp" /\ ~hosted

Init ==
    /\ service \in {"checkout", "subscriptions", "entitlements", "proration", "flags", "sign-in", "scope", "agents",
                   "mail"}
    /\ CheckoutInit /\ SubsInit /\ EntInit /\ MoneyInit /\ FlagInit /\ SignInInit /\ TenantScopeInit /\ AgentsInit
    /\ MailInit
    /\ OneStart

Next ==
    /\ UNCHANGED service
    /\ \/ service = "checkout" /\ CheckoutNext
          /\ UNCHANGED <<subsVars, entVars, moneyVars, flagVars, signVars, scopeVars, agentVars, mailVars>>
       \/ service = "subscriptions" /\ SubsNext
          /\ UNCHANGED <<checkoutVars, entVars, moneyVars, flagVars, signVars, scopeVars, agentVars, mailVars>>
       \/ service = "entitlements" /\ EntNext
          /\ UNCHANGED <<checkoutVars, subsVars, moneyVars, flagVars, signVars, scopeVars, agentVars, mailVars>>
       \/ service = "proration" /\ MoneyNext
          /\ UNCHANGED <<checkoutVars, subsVars, entVars, flagVars, signVars, scopeVars, agentVars, mailVars>>
       \/ service = "flags" /\ FlagNext
          /\ UNCHANGED <<checkoutVars, subsVars, entVars, moneyVars, signVars, scopeVars, agentVars, mailVars>>
       \/ service = "sign-in" /\ SignInNext
          /\ UNCHANGED <<checkoutVars, subsVars, entVars, moneyVars, flagVars, scopeVars, agentVars, mailVars>>
       \/ service = "scope" /\ TenantScopeNext
          /\ UNCHANGED <<checkoutVars, subsVars, entVars, moneyVars, flagVars, signVars, agentVars, mailVars>>
       \/ service = "agents" /\ AgentsNext
          /\ UNCHANGED <<checkoutVars, subsVars, entVars, moneyVars, flagVars, signVars, scopeVars, mailVars>>
       \/ service = "mail" /\ MailNext
          /\ UNCHANGED <<checkoutVars, subsVars, entVars, moneyVars, flagVars, signVars, scopeVars, agentVars>>

Spec == Init /\ [][Next]_serviceVars

----------------------------------------------------------------------------
\* An organization is on the plan it pays for: whoever pays is known, a paid plan was
\* paid for and becomes active, and provider, subscription and snapshot agree on it.
PlansSound ==
    /\ CheckoutOK /\ PayersKnown /\ NoFreeUpgrade /\ PlansAgree /\ StripeActivates
    /\ SubscriptionsOK /\ BilledAsEntitled

\* What an organization may use does not depend on the order of rows: grants, caps,
\* overrides and rollouts decide as they are ranked.
AccessSound ==
    /\ EntitlementsOK /\ StrongestDecides /\ CapIsGranted
    /\ RolloutBounds /\ OthersKeepAnswer

\* What the system says is true when it says it: events about agents, and mails about
\* money, their recipients included.
NewsSound == NewsTrue /\ NoMailDropped /\ RightRecipient /\ PaymentConfirmed /\ SettingsMerge

\* No step takes back what an earlier one settled: the price a subscription was bought
\* at, a cancellation, a feature that was rolled out, a deleted agent.
NothingRewritten == HistoryKept /\ CancelNotLost /\ RolloutGrows /\ DeletedStays
====
