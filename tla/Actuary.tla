------------------------------ MODULE Actuary ------------------------------
(***************************************************************************)
(* Which quotes of a chain are usable, which pairs of them are offered as  *)
(* put credit spreads, and which are discarded: operators on a set of      *)
(* quotes.                                                                 *)
(*                                                                         *)
(* A quote has its underlying, strike and days to expiry, bid and ask in   *)
(* the unit of the strikes, the size of its delta in percent, a liquidity  *)
(* score in percent, and the faults that make a figure of it unusable.     *)
(* Ratios are multiplied out, and the rounding of the code is left out.    *)
(***************************************************************************)
EXTENDS Integers, FiniteSets

CONSTANT Thresholds     \* ActuaryThresholds, ratios in percent

ASSUME ThresholdsAssumption ==
    Thresholds \in [dteMin : Nat, dteMax : Nat, widthMin : Nat, widthMax : Nat,
                    deltaMin : Nat, deltaMax : Nat, spread : Nat, ctwMin : Nat,
                    ctwMax : Nat, edge : Nat, liquidity : Nat]

\* What can be wrong with a quote beside its prices: it is not tradable, or its
\* volatility, delta or vega is missing or makes no sense.
QuoteFaults == {"NOT_TRADABLE", "MISSING_IV", "MISSING_GREEKS"}

(***************************************************************************)
(* One quote                                                               *)
(***************************************************************************)
Within(x, low, high) == low <= x /\ x <= high

\* The bid/ask spread is at most this share of the midpoint.
Tight(q, percent) == 200 * (q.ask - q.bid) <= percent * (q.bid + q.ask)

\* validate_quote finds nothing, and the expiry is in the window.
Usable(q) ==
    /\ Within(q.dte, Thresholds.dteMin, Thresholds.dteMax)
    /\ q.faults = {}
    /\ q.bid > 0 /\ q.ask > q.bid
    /\ Tight(q, Thresholds.spread)

\* short_delta_in_band
ShortDeltaInBand(q) == Within(q.delta, Thresholds.deltaMin, Thresholds.deltaMax)

(***************************************************************************)
(* One pair                                                                *)
(***************************************************************************)
Width(short, long) == short.strike - long.strike

\* The pairs the two loops reach, over any usable quotes.
Paired(short, long) ==
    /\ ShortDeltaInBand(short)
    /\ long.underlying = short.underlying
    /\ long.dte = short.dte
    /\ long.strike < short.strike
    /\ Within(Width(short, long), Thresholds.widthMin, Thresholds.widthMax)

\* Sold at the bid and bought at the ask.
NetCredit(short, long) == short.bid - long.ask
MaxLoss(short, long) == Width(short, long) - NetCredit(short, long)

\* A hundred times the expected value: the losing branch loses all of it.
ExpectedValue(short, long) ==
    (100 - short.delta) * NetCredit(short, long) - short.delta * MaxLoss(short, long)

Lesser(a, b) == IF a < b THEN a ELSE b

\* A spread is only as liquid as its worse leg.
Liquidity(short, long) == Lesser(short.liquidity, long.liquidity)

\* Mutant: the long leg may be as illiquid as it likes.
AcceptedOnItsShortLeg(short, long) ==
    /\ NetCredit(short, long) > 0
    /\ NetCredit(short, long) < Width(short, long)
    /\ short.delta <= 100
    /\ Within(100 * NetCredit(short, long), Thresholds.ctwMin * Width(short, long),
              Thresholds.ctwMax * Width(short, long))
    /\ ExpectedValue(short, long) >= Thresholds.edge * MaxLoss(short, long)
    /\ short.liquidity >= Thresholds.liquidity

\* _price_one finds figures for the pair, and they clear the thresholds.
Accepted(short, long) ==
    /\ NetCredit(short, long) > 0
    /\ NetCredit(short, long) < Width(short, long)
    /\ short.delta <= 100
    /\ Within(100 * NetCredit(short, long), Thresholds.ctwMin * Width(short, long),
              Thresholds.ctwMax * Width(short, long))
    /\ ExpectedValue(short, long) >= Thresholds.edge * MaxLoss(short, long)
    /\ Liquidity(short, long) >= Thresholds.liquidity

(***************************************************************************)
(* A chain                                                                 *)
(***************************************************************************)
UsableQuotes(quotes) == {q \in quotes : Usable(q)}

Pairs(quotes) ==
    {p \in UsableQuotes(quotes) \X UsableQuotes(quotes) : Paired(p[1], p[2])}

\* One UnderwritingProposal; `hash` is the snapshot's.  Of the two legs it keeps
\* the symbols and the wider of their spreads, here the quotes themselves.
Proposal(short, long, hash) ==
    [underlying |-> short.underlying, dte |-> short.dte, short |-> short.strike,
     long |-> long.strike, credit |-> NetCredit(short, long),
     maxLoss |-> MaxLoss(short, long), delta |-> short.delta,
     value |-> ExpectedValue(short, long), liquidity |-> Liquidity(short, long),
     legs |-> <<short, long>>, snapshot |-> hash]

\* price_put_credit_spreads, without the order of the result.
PricePutCreditSpreads(quotes, hash) ==
    {Proposal(p[1], p[2], hash) : p \in {r \in Pairs(quotes) : Accepted(r[1], r[2])}}
=============================================================================
