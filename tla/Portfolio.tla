----------------------------- MODULE Portfolio -----------------------------
(***************************************************************************)
(* The desk's capital over time.  Underwriting cycles have the Kernel      *)
(* adjudicate openings against the context the running system builds from  *)
(* its own book (bootstrap.build_kernel_context), and record what filled;  *)
(* reconciliation checks the reserves; operators turn the mode and the     *)
(* kill switch.                                                            *)
(*                                                                         *)
(* Only the underwriting job writes policies and it never overlaps itself, *)
(* so a cycle is one step here; Desk takes it apart.  A close the engine   *)
(* fills changes nothing in the book (nothing calls recorder.settle), so   *)
(* closes appear in the properties, not among the actions.                 *)
(***************************************************************************)
EXTENDS Kernel, Sequences

CONSTANTS
    Spreads,        \* what the Actuary may price
    Baselines,      \* equity at provisioning, 0 when it could not be read
    MaxContracts,   \* bound: largest size the model asks for
    MaxWritten      \* bound: policies ever written

\* What the Actuary prices can be lost, and is a put bought below one sold.
ASSUME SpreadsAssumption ==
    \A s \in Spreads :
        /\ s.maxLoss \in Nat \ {0}
        /\ s.short \in Nat \ {0} /\ s.long \in Int /\ s.long < s.short
        /\ s.expiry \in Int
        /\ s.netDelta \in Int
ASSUME BaselinesAssumption == Baselines \subseteq Nat
ASSUME BoundsAssumption == MaxContracts \in Nat /\ MaxWritten \in Nat

VARIABLES
    equity,         \* Account.baseline_equity, which every later PnlRecord copies
    mode,           \* SystemConfig.mode
    killSwitch,     \* SystemConfig.kill_switch
    policies        \* the policy rows, oldest first, each with a HELD reserve

vars == <<equity, mode, killSwitch, policies>>

Policy == [spread : Spreads, contracts : 1 .. MaxContracts,
           status : {"OPEN", "LEG_RISK"}]

Init ==
    /\ equity \in Baselines
    /\ mode = "MANAGE_ONLY"
    /\ killSwitch = FALSE
    /\ policies = <<>>

(***************************************************************************)
(* Reading the book                                                        *)
(***************************************************************************)
Rows(status) == {i \in DOMAIN policies : policies[i].status \in status}
MaxLossOf(i) == policies[i].contracts * policies[i].spread.maxLoss
LossOver(rows) == SumFunction([i \in rows |-> MaxLossOf(i)])

\* Mutant: a policy is read without its underlying.
BlindOpenPolicy(i) ==
    [id |-> i, underlying |-> "", short |-> 0, long |-> 0, expiry |-> 0,
     contracts |-> policies[i].contracts, maxLoss |-> MaxLossOf(i),
     reserve |-> MaxLossOf(i)]

\* A policy row as the Kernel gets to see it: strikes zero, expiring today.
OpenPolicy(i) ==
    [id |-> i, underlying |-> policies[i].spread.underlying,
     short |-> 0, long |-> 0, expiry |-> 0,
     contracts |-> policies[i].contracts, maxLoss |-> MaxLossOf(i),
     reserve |-> MaxLossOf(i)]

\* build_kernel_context: equity stands for the peak, twice equity for buying
\* power, nothing was ever realised, and what is not set keeps its default.
Context(candidate) ==
    [open |-> {OpenPolicy(i) : i \in Rows({"OPEN"})},
     nav |-> equity, equity |-> equity, peak |-> equity,
     buyingPower |-> 2 * equity, dailyPnl |-> 0, readOk |-> equity > 0,
     mode |-> mode, killSwitch |-> killSwitch,
     session |-> "open", stale |-> FALSE, netDelta |-> 0, netVega |-> 0,
     candidates |-> {candidate}, breached |-> {}, orderIds |-> {}]

Legs(s) ==
    {[side |-> "SELL", right |-> "PUT", strike |-> s.short, expiry |-> s.expiry],
     [side |-> "BUY", right |-> "PUT", strike |-> s.long, expiry |-> s.expiry]}

\* What the Actuary prices and the model selects: it reserves its maximum loss
\* and carries a hash of its own, for its snapshot is of this cycle.
Opening(s) ==
    [hash |-> "entry", candidate |-> "priced", action |-> "OPEN",
     underlying |-> s.underlying, short |-> s.short, long |-> s.long,
     expiry |-> s.expiry, legs |-> Legs(s), maxLoss |-> s.maxLoss,
     reserve |-> s.maxLoss, netDelta |-> s.netDelta, netVega |-> 0,
     faults |-> {}, raising |-> {}]

\* rebuild_proposal: figures that are not stored come back as zero.
Exit(i) ==
    [Opening(policies[i].spread) EXCEPT
        !.hash = "exit", !.candidate = "exit", !.action = "CLOSE", !.netDelta = 0,
        !.faults = {"ILLIQUID", "INSUFFICIENT_EDGE"}]

(***************************************************************************)
(* Actions                                                                 *)
(***************************************************************************)

\* One underwriting cycle that gets as far as an order: a full fill writes an
\* OPEN policy, a partial one writes LEG_RISK, for the size approved.
Underwrite ==
    /\ mode = "ACTIVE"
    /\ Len(policies) < MaxWritten
    /\ \E s \in Spreads, n \in 1 .. MaxContracts, status \in {"OPEN", "LEG_RISK"} :
          LET v == Evaluate(Opening(s), n, Context("priced")) IN
          /\ v.decision = "APPROVE"
          /\ status = "LEG_RISK" => v.contracts > 1
          /\ policies' = Append(policies, [spread |-> s, status |-> status,
                                           contracts |-> v.contracts])
    /\ UNCHANGED <<equity, mode, killSwitch>>

\* check_reserve_invariant (DB-INV-1): no reserve is ever released.
ReservesMatchExposure ==
    LossOver(DOMAIN policies) = LossOver(Rows({"OPEN"}))

\* A reconciliation that finds the broker agrees with the book.
Reconcile ==
    /\ mode' = IF ReservesMatchExposure THEN mode ELSE "MANAGE_ONLY"
    /\ UNCHANGED <<equity, killSwitch, policies>>

SetMode ==
    /\ mode' \in {"ACTIVE", "MANAGE_ONLY", "HALT"}
    /\ UNCHANGED <<equity, killSwitch, policies>>

SetKillSwitch ==
    /\ killSwitch' \in BOOLEAN
    /\ UNCHANGED <<equity, mode, policies>>

\* ensure_system_config puts the mode back; ensure_account may succeed at last.
Restart ==
    /\ mode' = "MANAGE_ONLY"
    /\ IF equity = 0 THEN equity' \in Baselines ELSE UNCHANGED equity
    /\ UNCHANGED <<killSwitch, policies>>

Next == Underwrite \/ Reconcile \/ SetMode \/ SetKillSwitch \/ Restart

Spec == Init /\ [][Next]_vars

(***************************************************************************)
(* Properties                                                              *)
(***************************************************************************)
\* Every row has a size the model may ask for: the Kernel approves one contract
\* at least, however often it halves, and never more than was requested (FR-046).
TypeOK ==
    /\ equity \in Nat
    /\ mode \in {"ACTIVE", "MANAGE_ONLY", "HALT"}
    /\ killSwitch \in BOOLEAN
    /\ policies \in Seq(Policy)
    /\ Len(policies) <= MaxWritten

\* The rows, with k more contracts of s, stay inside every capital limit.
Fits(s, k, rows) ==
    LET extra == k * s.maxLoss
        same == {i \in rows : policies[i].spread.underlying = s.underlying}
    IN  /\ 100 * extra <= equity * Limits.position
        /\ 100 * (LossOver(rows) + extra) <= equity * Limits.portfolio
        /\ 100 * (LossOver(rows) + extra) <= equity * Limits.deployed
        /\ 10000 * (LossOver(same) + extra)
              <= equity * Limits.deployed * Limits.concentration
        /\ k * s.short <= 2 * equity

\* However many cycles ran, and whatever else happened between them, the open
\* policies together stay inside the deployed, portfolio, concentration,
\* position and count limits the Kernel enforced one proposal at a time.
OpenBookWithinLimits ==
    /\ Cardinality(Rows({"OPEN"})) <= Limits.policies
    /\ \A i \in Rows({"OPEN"}) :
          100 * MaxLossOf(i) <= equity * Limits.position
    /\ 100 * LossOver(Rows({"OPEN"})) <= equity * Limits.portfolio
    /\ 100 * LossOver(Rows({"OPEN"})) <= equity * Limits.deployed
    /\ \A s \in Spreads :
          10000 * LossOver({i \in Rows({"OPEN"}) :
                               policies[i].spread.underlying = s.underlying})
              <= equity * Limits.deployed * Limits.concentration

SizedRules == {"SK001", "SK002", "SK003", "SK006", "SK007", "SK012"}

\* "A rule fails only when not even a single spread can be written": on every
\* book the desk can reach, the capital rules pass for exactly the proposals
\* that sizing permits a contract of.
RulesMeasureOneContract ==
    \A s \in Spreads :
        LET c == Context("priced") IN
        HardFailures(Opening(s), c) \cap SizedRules = {}
            <=> Permitted(Opening(s), 1, c) >= 1

\* Sizing permits exactly as many contracts as fit, no fewer: the largest k
\* that leaves every capital limit intact (section 15.5).
PermittedIsTheMostThatFits ==
    \A s \in Spreads, k \in 1 .. MaxContracts + 1 :
        k <= Permitted(Opening(s), k, Context("priced"))
            <=> Fits(s, k, Rows({"OPEN"}))

\* What the Kernel let in it lets out: unless the desk is halted, every open
\* policy can be closed at its full size, however full the book is (FR-106,
\* SK-000, DEV-04).
ExitsArePermitted ==
    mode # "HALT" /\ ~killSwitch =>
        \A i \in Rows({"OPEN"}) :
            LET v == Evaluate(Exit(i), policies[i].contracts, Context("exit")) IN
            /\ v.decision = "APPROVE"
            /\ v.contracts = policies[i].contracts

(***************************************************************************)
(* What the source says of itself, and the code does not do                *)
(***************************************************************************)

\* SK-021: no two open policies have the same underlying, strikes and expiry.
NoPolicyWrittenTwice ==
    \A i, j \in Rows({"OPEN"}) : policies[i].spread = policies[j].spread => i = j
=============================================================================
