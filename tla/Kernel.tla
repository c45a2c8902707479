------------------------------- MODULE Kernel -------------------------------
(***************************************************************************)
(* The Solvency Kernel: the rule table, position sizing and the verdict,   *)
(* as pure operators on a proposal and a context.  Nothing here has state; *)
(* Portfolio and Simulation give the Kernel something to adjudicate.       *)
(*                                                                         *)
(* Amounts are integers per spread, the 100-share multiplier folded in.  A *)
(* limit that is a share of NAV is in percent, and a comparison with one   *)
(* is multiplied out instead of divided.                                   *)
(***************************************************************************)
EXTENDS Integers, FiniteSets, FiniteSetsExt, Functions

CONSTANT Limits     \* KernelLimits: percentages, and the two Greek limits

ASSUME LimitsAssumption ==
    Limits \in [deployed : Nat, position : Nat, policies : Nat,
                concentration : Nat, portfolio : Nat, dailyLoss : Nat,
                drawdown : Nat, delta : Nat, vega : Nat, calibration : Nat]

\* calibration_multiplier is 1.0 wherever it is set, and meant to stay under it.
ASSUME CalibrationAssumption == Limits.calibration <= 100

(***************************************************************************)
(* The context's derived figures                                           *)
(***************************************************************************)
Reserved(policies) == SumFunction([o \in policies |-> o.reserve])

TotalReserve(c) == Reserved(c.open)
ReserveFor(c, u) == Reserved({o \in c.open : o.underlying = u})
PortfolioMaxLoss(c) == SumFunction([o \in c.open |-> o.maxLoss])
TotalAssignmentCost(c) ==
    SumFunction([o \in c.open |-> o.short * o.contracts])

\* Drawdown is measured against peak equity, and is zero when there is none.
DrawdownExceeds(c, percent) ==
    c.peak > 0 /\ 100 * (c.peak - c.equity) > percent * c.peak

(***************************************************************************)
(* The rule table, one operator for each rule: TRUE means it passes        *)
(***************************************************************************)
Closing(p) == p.action = "CLOSE"

SK001(p, c) ==
    Closing(p) \/ 100 * (TotalReserve(c) + p.reserve) <= c.nav * Limits.deployed
SK002(p, c) == Closing(p) \/ p.reserve = p.maxLoss
SK003(p, c) == Closing(p) \/ 100 * p.maxLoss <= c.nav * Limits.position

\* Mutant: a close is held to the portfolio limit.
PortfolioRiskOfCloses(p, c) ==
    100 * (PortfolioMaxLoss(c) + p.maxLoss) <= c.nav * Limits.portfolio

SK007(p, c) ==
    \/ Closing(p)
    \/ 100 * (PortfolioMaxLoss(c) + p.maxLoss) <= c.nav * Limits.portfolio

\* A long leg covers a short one of its right, at no earlier expiry, and, for
\* puts, from below.
Covers(long, short) ==
    /\ long.right = short.right
    /\ long.expiry >= short.expiry
    /\ short.right = "PUT" => long.strike < short.strike

SK004(p, c) ==
    LET shorts == {leg \in p.legs : leg.side = "SELL"}
        longs == {leg \in p.legs : leg.side = "BUY"}
    IN  /\ shorts # {}
        /\ \A short \in shorts : \E long \in longs : Covers(long, short)
        /\ p.maxLoss > 0

SK005(p, c) ==
    Cardinality(c.open) + (IF Closing(p) THEN 0 ELSE 1) <= Limits.policies

\* The base is the deployable ceiling, not what is deployed now.
SK006(p, c) ==
    \/ Closing(p)
    \/ 10000 * (ReserveFor(c, p.underlying) + p.reserve)
          <= c.nav * Limits.deployed * Limits.concentration

SK012(p, c) == Closing(p) \/ TotalAssignmentCost(c) + p.short <= c.buyingPower
SK013(p, c) == Closing(p) \/ p.underlying \notin c.breached

\* Same underlying, strikes and expiry; there is only one structure.
Identical(o, p) ==
    /\ o.underlying = p.underlying
    /\ o.short = p.short
    /\ o.long = p.long
    /\ o.expiry = p.expiry

SK021(p, c) ==
    /\ \A o \in c.open : ~Identical(o, p)
    /\ p.hash \notin c.orderIds

Magnitude(x) == IF x < 0 THEN -x ELSE x
Positive(x) == IF x < 0 THEN 0 ELSE x

SK008(p, c) ==
    10000 * Magnitude(c.netDelta + p.netDelta) <= Limits.delta * Positive(c.nav)
SK009(p, c) ==
    100000 * Magnitude(c.netVega + p.netVega) <= Limits.vega * Positive(c.nav)

SK010(p, c) == 100 * c.dailyPnl >= -(c.nav * Limits.dailyLoss)
SK022(p, c) == ~DrawdownExceeds(c, Limits.drawdown)

SK023(p, c) ==
    /\ ~c.killSwitch
    /\ c.mode # "HALT"
    /\ c.mode = "ACTIVE" \/ Closing(p)

\* Entry quality: each compares one figure of the proposal with one limit, so
\* a proposal carries the set of those it fails.
SK011(p, c) == Closing(p) \/ "DTE_TOO_SHORT" \notin p.faults
SK014(p, c) == Closing(p) \/ "ILLIQUID" \notin p.faults

\* Mutant: the width of a quote holds a close back.
LegSpreadOfCloses(p, c) == "WIDE_SPREAD" \notin p.faults

SK015(p, c) == Closing(p) \/ "WIDE_SPREAD" \notin p.faults
SK016(p, c) == Closing(p) \/ "INSUFFICIENT_EDGE" \notin p.faults
SK019(p, c) == "MISSING_GREEKS" \notin p.faults

\* The session is open, in one of its blackout windows, or closed.
SK017(p, c) == c.session = "open" \/ (c.session = "blackout" /\ Closing(p))
SK018(p, c) == ~c.stale
SK024(p, c) == p.candidate \in c.candidates
SK025(p, c) == c.readOk

\* RULES: what every rule answers.  All of them are evaluated, every time.
Answers(p, c) ==
    [SK001 |-> SK001(p, c), SK002 |-> SK002(p, c), SK003 |-> SK003(p, c),
     SK004 |-> SK004(p, c), SK005 |-> SK005(p, c), SK006 |-> SK006(p, c),
     SK007 |-> SK007(p, c), SK008 |-> SK008(p, c), SK009 |-> SK009(p, c),
     SK010 |-> SK010(p, c), SK011 |-> SK011(p, c), SK012 |-> SK012(p, c),
     SK013 |-> SK013(p, c), SK014 |-> SK014(p, c), SK015 |-> SK015(p, c),
     SK016 |-> SK016(p, c), SK017 |-> SK017(p, c), SK018 |-> SK018(p, c),
     SK019 |-> SK019(p, c), SK021 |-> SK021(p, c), SK022 |-> SK022(p, c),
     SK023 |-> SK023(p, c), SK024 |-> SK024(p, c), SK025 |-> SK025(p, c)]

SoftRules == {"SK008", "SK009"}
RuleIds ==
    {"SK001", "SK002", "SK003", "SK004", "SK005", "SK006", "SK007", "SK008",
     "SK009", "SK010", "SK011", "SK012", "SK013", "SK014", "SK015", "SK016",
     "SK017", "SK018", "SK019", "SK021", "SK022", "SK023", "SK024", "SK025"}

\* Mutant: a rule that raises has said nothing against the proposal.
HardFailuresThatAnswered(p, c) ==
    LET answers == Answers(p, c) IN
    {r \in DOMAIN answers \ (SoftRules \cup p.raising) : ~answers[r]}

\* _guarded: a rule that raises is a HARD failure, whatever its severity.
HardFailures(p, c) ==
    LET answers == Answers(p, c) IN
    {r \in DOMAIN answers : r \in p.raising \/ (r \notin SoftRules /\ ~answers[r])}

SoftFailures(p, c) == {r \in SoftRules \ p.raising : ~Answers(p, c)[r]}

(***************************************************************************)
(* Sizing                                                                  *)
(***************************************************************************)

\* Mutant: the rest of a division counts as a contract.
CeilDiv(room, cost) ==
    IF cost <= 0 \/ room <= 0 THEN 0 ELSE (room + cost - 1) \div cost

\* Whole contracts, rounded down; none if there is no room.
FloorDiv(room, cost) == IF cost <= 0 \/ room <= 0 THEN 0 ELSE room \div cost

\* Mutant: the portfolio's room is left out of the minimum.
SizesWithoutPortfolio(p, c) ==
    LET deployable == c.nav * Limits.deployed IN
    {FloorDiv(c.nav * Limits.position, 100 * p.maxLoss),
     FloorDiv(deployable * Limits.concentration
                 - 10000 * ReserveFor(c, p.underlying), 10000 * p.maxLoss),
     FloorDiv(deployable - 100 * TotalReserve(c), 100 * p.maxLoss),
     FloorDiv(c.buyingPower - TotalAssignmentCost(c), p.short)}

\* compute_sizing: position risk, portfolio room, concentration, deployed
\* capital and assignment cost, each as a number of contracts.
Sizes(p, c) ==
    LET deployable == c.nav * Limits.deployed IN
    {FloorDiv(c.nav * Limits.position, 100 * p.maxLoss),
     FloorDiv(c.nav * Limits.portfolio - 100 * PortfolioMaxLoss(c),
              100 * p.maxLoss),
     FloorDiv(deployable * Limits.concentration
                 - 10000 * ReserveFor(c, p.underlying), 10000 * p.maxLoss),
     FloorDiv(deployable - 100 * TotalReserve(c), 100 * p.maxLoss),
     FloorDiv(c.buyingPower - TotalAssignmentCost(c), p.short)}

\* A close is bounded by the position it closes, not by capital.
Permitted(p, n, c) == IF Closing(p) THEN Positive(n) ELSE Min(Sizes(p, c))

\* soft_multiplier, inverted: each soft failure halves the size.
SoftDivisor(p, c) ==
    LET failed == SoftFailures(p, c) IN
    IF failed = {} THEN 1 ELSE IF failed = SoftRules THEN 4 ELSE 2

\* Mutant: the request is not a bound.
ApprovedAsPermitted(p, n, c) ==
    (Permitted(p, n, c) * Limits.calibration) \div (100 * SoftDivisor(p, c))

\* What is left of the request, rounded down to whole contracts.
Approved(p, n, c) ==
    LET raw == Min({Positive(n), Permitted(p, n, c)}) IN
    (raw * Limits.calibration) \div (100 * SoftDivisor(p, c))

(***************************************************************************)
(* The verdict                                                             *)
(***************************************************************************)

\* Mutant: the size floor is forgotten.
FailuresWithoutFloor(p, n, c) == HardFailures(p, c)

\* The hard failures of the table, and SK-020, the size floor.
Failures(p, n, c) ==
    HardFailures(p, c) \cup (IF Approved(p, n, c) >= 1 THEN {} ELSE {"SK020"})

\* evaluate: always a verdict.  When sizing or hashing raises, the verdict is an
\* unsigned rejection on SK-999.
Evaluate(p, n, c) ==
    LET failures == IF "evaluate" \in p.raising THEN {"SK999"}
                    ELSE Failures(p, n, c)
    IN  [hash |-> p.hash,
         decision |-> IF failures = {} THEN "APPROVE" ELSE "REJECT",
         contracts |-> IF failures = {} THEN Approved(p, n, c) ELSE 0,
         failures |-> failures]
=============================================================================
