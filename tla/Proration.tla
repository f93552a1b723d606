------------------------------ MODULE Proration ------------------------------
(***************************************************************************)
(* Money over a period with plan changes in it, where we bill in arrears:  *)
(* BillingService.change_plan keeps the period of a paid plan and queues   *)
(* the correction arrears_adjustment_cents computes; the renewal bills the *)
(* whole period at the price of its end, plus the corrections.             *)
(* (Invoicing is about the same rows under concurrency, in half periods.)  *)
(*                                                                         *)
(* A fraction is an integer in units of 1/Quantum, as Decimal.quantize     *)
(* leaves it; money is in cents.                                           *)
(***************************************************************************)
EXTENDS Integers

CONSTANTS
    PriceList,      \* plan prices; 0 is a free plan
    PeriodLength,   \* seconds of a period
    Quantum,        \* 1000000: six decimals
    LastSecond,     \* bound: seconds that pass
    MaxSwitches     \* bound: plan changes

ASSUME ProrationAssumption ==
    /\ PriceList \subseteq Nat /\ PeriodLength \in Nat \ {0} /\ Quantum \in Nat \ {0}
    /\ \E p \in PriceList : \A q \in PriceList : q <= p

VARIABLES
    second,
    since,          \* current_period_start
    price,          \* plan_snapshot["price_cents"]
    pending,        \* sum of pending_adjustments
    billed,         \* sum of the finalized invoices
    switches,
    \* history
    worth,          \* what was used so far: price times seconds
    skipped         \* a plan changed after its period ended and before the renewal
moneyVars == <<second, since, price, pending, billed, switches, worth, skipped>>

MoneyInit ==
    /\ second = 0 /\ since = 0 /\ pending = 0 /\ billed = 0 /\ switches = 0 /\ worth = 0
    /\ price \in PriceList
    /\ skipped = FALSE

-----------------------------------------------------------------------------
(* Rounding.  n may be negative, d is positive. *)

Magnitude(n) == IF n < 0 THEN -n ELSE n
Clamp(n, low, high) == IF n < low THEN low ELSE IF n > high THEN high ELSE n

\* quantize with the default context: half to even; n >= 0
HalfEven(n, d) ==
    LET q == n \div d
        r == 2 * (n % d)
    IN IF r > d \/ (r = d /\ q % 2 = 1) THEN q + 1 ELSE q

\* ROUND_HALF_UP: half away from zero
HalfUp(n, d) ==
    LET q == (2 * Magnitude(n) + d) \div (2 * d) IN IF n < 0 THEN -q ELSE q

\* Mutant: int() without rounding.
CentsTruncated(amount, fraction) ==
    IF amount < 0 THEN -((Magnitude(amount) * fraction) \div Quantum) ELSE (amount * fraction) \div Quantum
\* _cents
Cents(amount, fraction) == HalfUp(amount * fraction, Quantum)

\* prorate(...).fraction_remaining, of a period that is never empty
FractionRemaining == HalfEven(Clamp(since + PeriodLength - second, 0, PeriodLength) * Quantum, PeriodLength)

\* arrears_adjustment_cents
ArrearsAdjustment(old, new) == Cents(old - new, Quantum - FractionRemaining)

-----------------------------------------------------------------------------
PeriodIsLive == second < since + PeriodLength

\* keep_period, of a paid plan, and there is a period to keep
KeepsPeriod == price > 0 /\ PeriodIsLive

SwitchPlan(p) ==
    /\ switches < MaxSwitches
    /\ switches' = switches + 1
    /\ price' = p
    /\ IF KeepsPeriod
       THEN pending' = pending + ArrearsAdjustment(price, p) /\ UNCHANGED since
       ELSE since' = second /\ UNCHANGED pending
    /\ skipped' = (skipped \/ (price > 0 /\ ~PeriodIsLive))
    /\ UNCHANGED <<second, billed, worth>>

\* _renew_locally_billed: plan line and corrections; a credit that is larger is
\* carried over.
RenewPeriod ==
    /\ ~PeriodIsLive
    /\ billed' = billed + (IF price + pending > 0 THEN price + pending ELSE 0)
    /\ pending' = IF price + pending > 0 THEN 0 ELSE price + pending
    /\ since' = since + PeriodLength
    /\ UNCHANGED <<second, price, switches, worth, skipped>>

\* Time; the hourly job may be late, but by less than a period.
SecondPasses ==
    /\ second < LastSecond /\ second < since + 2 * PeriodLength
    /\ second' = second + 1
    /\ worth' = worth + price
    /\ UNCHANGED <<since, price, pending, billed, switches, skipped>>

MoneyNext == SecondPasses \/ RenewPeriod \/ \E p \in PriceList : SwitchPlan(p)

-----------------------------------------------------------------------------
HighestPrice == CHOOSE p \in PriceList : \A q \in PriceList : q <= p

\* What we made of the period so far: billed, queued, and accrued at the price of now.
Ours == (billed + pending) * PeriodLength + price * (second - since)

\* "new_price + adjustment == old*elapsed + new*remaining", summed over any
\* number of changes and periods: what is billed, queued and accrued is what was
\* used, up to what rounding adds for each change: half a cent, and half of the
\* sixth decimal of the fraction.  The periods that a change found ended but not
\* yet renewed are the exception, and are never billed.
MoneyExact ==
    ~skipped => 2 * Quantum * Magnitude(Ours - worth) <= switches * (PeriodLength * (Quantum + HighestPrice))
====
