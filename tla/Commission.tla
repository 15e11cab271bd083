----------------------------- MODULE Commission -----------------------------
(***************************************************************************)
(* How the proxy splits the money it collects for a request between the    *)
(* share's provider, the market and the router (src/src/proxy.rs,          *)
(* transfer_collected_usage_amount, commission_amount, commission_split).  *)
(*                                                                         *)
(* An amount is a natural number of "grains".  The code rounds commissions *)
(* to 8 decimal places but the amounts it splits are products of token     *)
(* counts and prices that are not rounded, so one 8-decimal unit is Grain  *)
(* grains: Grain = 1 is the case where every amount has 8 decimals.        *)
(***************************************************************************)
EXTENDS Integers

CONSTANT Grain

ASSUME GrainAssumption == Grain \in Nat \ {0}

FullBps == 10000

MinOf(a, b) == IF a <= b THEN a ELSE b
MaxOf(a, b) == IF a >= b THEN a ELSE b

\* num / den to the nearest integer, a tie to the even one: Decimal::round_dp.
RoundHalfEven(num, den) ==
    LET q == num \div den
        r == num % den
    IN  IF 2 * r > den \/ (2 * r = den /\ q % 2 = 1) THEN q + 1 ELSE q

CommissionAmount(amount, bps) ==
    IF bps <= 0 THEN 0
    ELSE IF bps >= FullBps THEN amount
    ELSE Grain * RoundHalfEven(amount * bps, FullBps * Grain)

\* The market's part and what is left of the total commission for the router.
CommissionSplit(amount, marketBps, routerBps) ==
    LET totalBps == MinOf(MaxOf(marketBps + routerBps, 0), FullBps)
        total    == CommissionAmount(amount, totalBps)
        market   == MinOf(CommissionAmount(amount, marketBps), total)
    IN  [market |-> market, router |-> total - market]

\* Seeded fault: the provider's part is rounded on its own.
Collect_ProviderRoundedApart(amount, marketBps, routerBps) ==
    LET split == CommissionSplit(amount, marketBps, routerBps)
    IN  [provider |-> CommissionAmount(amount, FullBps - marketBps - routerBps),
         market   |-> split.market,
         router   |-> split.router]

(***************************************************************************)
(* The ledger entries of one collected amount: an entry is only written    *)
(* when its part is positive, so a negative remainder leaves the provider  *)
(* with nothing while the commissions are still taken.                     *)
(***************************************************************************)
Collect(amount, marketBps, routerBps) ==
    LET split    == CommissionSplit(amount, marketBps, routerBps)
        provider == amount - split.market - split.router
    IN  [provider |-> MaxOf(provider, 0),
         market   |-> split.market,
         router   |-> split.router]

\* What a collection takes from the account it is paid from.
Outflow(parts) == parts.provider + parts.market + parts.router

-----------------------------------------------------------------------------
Distance(a, b) == MaxOf(a - b, b - a)

\* A part is the multiple of the 8-decimal unit that is nearest to bps of the amount.
Nearest(part, amount, bps) ==
    /\ part % Grain = 0 \/ bps = FullBps
    /\ 2 * Distance(part * FullBps, amount * bps) <= FullBps * Grain

(***************************************************************************)
(* Every grain taken from the user lands in exactly one of the provider's, *)
(* the market's and the router's accounts, and no part is negative: what   *)
(* transfer_collected_usage_amount moves is the amount it was asked to     *)
(* move (plan.md:756).  The two commissions together are the multiple of   *)
(* the 8-decimal unit nearest to their exact product, and so is the        *)
(* market's, unless it had to give way to the rounded total.               *)
(***************************************************************************)
ExactSplit(amount, marketBps, routerBps) ==
    LET parts == Collect(amount, marketBps, routerBps)
    IN  /\ Outflow(parts) = amount
        /\ parts.provider >= 0 /\ parts.market >= 0 /\ parts.router >= 0
        /\ Nearest(parts.market + parts.router, amount, marketBps + routerBps)
        /\ Nearest(parts.market, amount, marketBps) \/ parts.router = 0
=============================================================================
