----------------------------- MODULE Simulation -----------------------------
(***************************************************************************)
(* POST /kernel/simulate: a client describes a hypothetical proposal and   *)
(* account, the Kernel adjudicates it against an empty book, and nothing   *)
(* is executed.  It is the one caller that reaches the rules on account    *)
(* state which the running desk never supplies: losses, drawdown, stale    *)
(* data and a closed market.                                               *)
(***************************************************************************)
EXTENDS Kernel

CONSTANTS
    MaxLosses,      \* max_loss, for one spread
    Reserves,       \* capital_reserve
    Strikes,        \* short strikes
    Navs,           \* nav, which is also the equity unless it is given
    Peaks,          \* peak_equity
    Pnls,           \* daily_realized_pnl
    BuyingPowers,   \* buying_power
    Greeks,         \* net_delta, net_vega
    FaultSets,      \* which entry-quality limits the figures miss
    RaisingSets,    \* which rules raise, through a fault of their own
    Requests        \* requested_contracts

ASSUME RaisingAssumption == \A S \in RaisingSets : S \subseteq RuleIds \cup {"evaluate"}
ASSUME FiguresAssumption ==
    /\ MaxLosses \cup Strikes \cup Navs \cup BuyingPowers \subseteq Int
    /\ Requests \subseteq Int

VARIABLES
    asked,          \* the request being answered: proposal, contracts, context
    verdict         \* the Kernel's answer to it

simVars == <<asked, verdict>>

Nothing == [none |-> TRUE]

\* _build_proposal: a put spread, or its short leg alone.
SimulatedLegs(naked, short) ==
    {[side |-> "SELL", right |-> "PUT", strike |-> short, expiry |-> 1]} \cup
    IF naked THEN {}
    ELSE {[side |-> "BUY", right |-> "PUT", strike |-> short - 1, expiry |-> 1]}

SimInit == asked = Nothing /\ verdict = Nothing

\* simulate, with _build_proposal and _build_context: the book, its Greeks,
\* breaches and order ids keep their defaults.
Simulate ==
    /\ asked = Nothing
    /\ \E action \in {"OPEN", "CLOSE"}, naked \in BOOLEAN, known \in BOOLEAN,
          maxLoss \in MaxLosses, reserve \in Reserves, short \in Strikes,
          delta \in Greeks, vega \in Greeks,
          faults \in FaultSets, raising \in RaisingSets,
          n \in Requests, nav \in Navs, power \in BuyingPowers,
          peak \in Peaks, pnl \in Pnls,
          mode \in {"ACTIVE", "MANAGE_ONLY", "HALT"}, kill \in BOOLEAN,
          session \in {"open", "closed"}, stale \in BOOLEAN :
       LET p == [hash |-> "simulation", candidate |-> "sim", action |-> action,
                 underlying |-> "SPY", short |-> short, long |-> short - 1,
                 expiry |-> 1, legs |-> SimulatedLegs(naked, short),
                 maxLoss |-> maxLoss, reserve |-> reserve,
                 netDelta |-> delta, netVega |-> vega,
                 faults |-> faults, raising |-> raising]
           c == [open |-> {}, nav |-> nav, equity |-> nav, peak |-> peak,
                 buyingPower |-> power, dailyPnl |-> pnl, readOk |-> TRUE,
                 mode |-> mode, killSwitch |-> kill, session |-> session,
                 stale |-> stale, netDelta |-> 0, netVega |-> 0,
                 candidates |-> IF known THEN {"sim"} ELSE {},
                 breached |-> {}, orderIds |-> {}]
       IN  /\ asked' = [proposal |-> p, contracts |-> n, context |-> c]
           /\ verdict' = Evaluate(p, n, c)

Reply ==
    /\ asked # Nothing
    /\ asked' = Nothing
    /\ verdict' = Nothing

SimNext == Simulate \/ Reply

SimSpec == SimInit /\ [][SimNext]_simVars

(***************************************************************************)
(* Properties                                                              *)
(***************************************************************************)

\* A request is answered by a verdict that approves at least one contract for
\* no failed rule, or rejects with none and at least one reason.
SimTypeOK ==
    verdict # Nothing =>
        /\ asked # Nothing
        /\ verdict.hash = asked.proposal.hash
        /\ \/ /\ verdict.decision = "APPROVE"
              /\ verdict.contracts \in Nat \ {0}
              /\ verdict.failures = {}
           \/ /\ verdict.decision = "REJECT"
              /\ verdict.contracts = 0
              /\ verdict.failures # {}

CapitalRules == {"SK001", "SK002", "SK003", "SK005", "SK006", "SK007", "SK012",
                 "SK013"}
EntryRules == {"SK011", "SK014", "SK015", "SK016"}

\* A close is never refused on capital grounds, nor for being illiquid, wide or
\* without edge (SK-000, DEV-03, DEV-10), unless the rule itself raised.
ClosesAreNotHeldBack ==
    verdict # Nothing /\ asked.proposal.action = "CLOSE" =>
        verdict.failures \cap (CapitalRules \cup EntryRules)
            \subseteq asked.proposal.raising

\* A rule that raises is never permission: whichever rule it is, soft rules and
\* rules a close is exempt from included, nothing is approved (SK-P2).
RaisingFailsClosed ==
    verdict # Nothing /\ asked.proposal.raising # {} =>
        verdict.decision = "REJECT"

\* Whatever is approved to open is covered, fully reserved, and affordable at
\* its approved size under every capital limit at once.
ApprovedOpeningsFit ==
    verdict # Nothing /\ verdict.decision = "APPROVE"
        /\ asked.proposal.action = "OPEN" =>
        LET loss == verdict.contracts * asked.proposal.maxLoss
            nav == asked.context.nav
        IN  /\ 100 * loss <= nav * Limits.position
            /\ 100 * loss <= nav * Limits.portfolio
            /\ 10000 * loss <= nav * Limits.deployed * Limits.concentration
            /\ verdict.contracts * asked.proposal.short
                  <= asked.context.buyingPower
            /\ verdict.contracts <= asked.contracts
            /\ Cardinality(asked.proposal.legs) = 2
            /\ asked.proposal.reserve = asked.proposal.maxLoss
=============================================================================
