# The Underwriter: a TLA+ verification project

TLA+ modules, TLC configurations and TLAPS proofs about the backend of The
Underwriter (`src/backend/underwriter`), a Python program that "underwrites"
option spreads: it scans a market, prices candidates, lets a language model
propose one, has a deterministic Solvency Kernel approve, shrink or refuse it,
transmits the approved order to a broker, and manages the positions that result.

## 1. The system

One process. An APScheduler thread pool runs three jobs (underwriting every 30
minutes, management every 15, reconciliation every 5), each with
`max_instances=1` and `coalesce`, so a job never overlaps itself but every job
overlaps the others. FastAPI serves the operator's requests on further threads:
mode, kill switch, request a close, force a reconciliation, dry run, simulation,
replay, audit. All of them share one SQLite database, one execution engine with
one in-memory nonce registry and rate limiter, and one broker account.

| Component | State | Operations | What makes it correct |
|---|---|---|---|
| Execution engine (`execution/`) | locals of each call; nothing else survives | `execute`: authorise, transmit with retries, poll, cancel, look up, report | one order per proposal; a reported fill is real; every call ends |
| Verdicts (`kernel/verdict.py`) | signed verdict objects, nonce registry | `mint`, `authorize`, expiry | only an approval, for that proposal, once |
| Solvency Kernel (`kernel/`) | none | `evaluate`: 24 rules, sizing, the size floor | limits hold at the approved size; closes are let out; failure means no |
| Kernel context (`cycle/bootstrap.py`, `db/invariants.py`) | `Account`, `SystemConfig`, `Policy`, `CapitalReserve` rows | `build_kernel_context`, `ensure_*`, `rebuild_proposal`, DB-INV-1 | what the Kernel sees is what the book holds |
| Underwriting cycle | locals of the job | context, price, decide, adjudicate, record, execute, record | nothing traded unrecorded; kill switch; policies match fills |
| Management cycle | locals of the job | read positions and context, exit each that should go | nothing closed twice; closes get through |
| Reconciliation cycle | locals of each caller | read broker, compare with book, report, force MANAGE_ONLY | divergence is found and stops entries |
| Operator controls | `SystemConfig.mode`, `.kill_switch` | `set_mode`, `set_kill_switch`, `request_close`, `force_reconcile` | take effect in time, are not overridden |
| Scheduler, process (`cycle/scheduler.py`, `server.py`) | per-job failure counters, `SchedulerRun` rows; due times and running instances in APScheduler | boot, start, run one job, count and record it, shut down | runs never pile up and are never lost for long; entries come with a reconciliation |
| Audit ledger (`audit/ledger.py`) | hash chain in the database | `append`, `verify_chain` | one chain, no fork; what is recorded is what was done; tampering is found |
| Rate limiter (`execution/ratelimit.py`) | tokens, last refill, unlocked | `acquire` | the rate is held once a race is over; nobody waits in vain |
| Claims Desk (`claims/`) | none | the exit decision | every reason to exit is acted on, in order |
| AI Underwriter (`agent/`) | none | one call, one retry, validation | never an instrument that was not offered |
| Market data (`data/`), Actuary (`actuary/`) | none | fetch, check the age, price, filter | quotes are fresh when used; what is offered the Kernel would take |
| Recorder (`cycle/recorder.py`), replay (`cycle/replay.py`) | snapshot, candidate, decision and verdict rows | record each phase; rebuild, price again, compare | an order can be traced to its inputs; a replay reproduces it |
| Read models, middleware, MCP, dashboard | none | reads for people | - |

Interaction: the jobs call the Kernel (pure) and the engine; the engine calls
the broker through the rate limiter; jobs and operators meet only in database
rows, each read or written in a short transaction of its own; the broker call is
always between transactions. Equity never changes after provisioning, and nothing
calls `recorder.settle`, so a policy, once written, stays as it is.

What is hard here, each listed at its line under `hazards` in PROJECT.json:
a submission that may or may not have arrived; a cancel that races a fill; an
exception after transmission; context read once and used minutes later;
reconciliation reading broker and book at different times; crashes between fill
and record; a context that drops figures the rules compare with; a status
(`LEG_RISK`) that three readers of the book treat in three ways; rounding where
five limits meet; jobs that must keep going; unlocked shared state in the ledger
and the rate limiter; rows that keep less of a snapshot than its hash covers;
clocks that start before the data is fetched.

## 2. Modules

```
Exposure  <-- refines --  Execution  --->  ExecutionProofs      MCExecution
Kernel  -->  Simulation  --->  KernelProofs                     MCSimulation
        -->  Portfolio   --->                                   MCPortfolio
Book, Exposure  <-- refines --  Desk  --->  DeskProofs          MCDesk
Ledger  --->  LedgerProofs                                      MCLedger
Actuary  -->  Underwriting  --->  UnderwritingProofs            MCUnderwriting
Claims  --->  ClaimsProofs                                      MCClaims
TokenBucket  --->  TokenBucketProofs                            MCTokenBucket
Scheduler  --->  SchedulerProofs                                MCScheduler
```

**Execution** models `ExecutionEngine.execute` on any number of threads. `step[t]`
is the place in the function between two broker calls, `payload`, `attempt` and
`seen` are its locals, `verdict`, `expired` and `nonces` the Kernel's side. Each
broker call is split: a submission goes on the `wire`; the broker accepts,
refuses or never sees it; the client may have given up (`SubmitFaults`,
`SubmitMisread`) before. `Crash` loses threads, verdict objects and the registry
and keeps wire and orders. `client_order_id_for` hashes the proposal, and the
only thing modelled of the hash is that it is a function of the proposal.

**Exposure** is what that path promises: one permit per proposal, filled contract
by contract up to its size. `ImplementsExposure` is the refinement, with the book
read off the broker's orders.

**Kernel** is the rule table, one operator per rule under its name in the code,
`Sizes`/`Permitted`/`Approved` for `compute_sizing` and the halving, `Failures`
and `Evaluate` for the verdict. Percentages are multiplied out, so no
comparison divides; amounts are per spread with the multiplier folded in. Four
entry-quality rules, and the one on complete Greeks, compare one figure of the
proposal with one limit, so a proposal carries the set of limits it misses
(`faults`). `raising` is the set of rules whose code raises on this proposal;
"evaluate" stands for sizing or hashing.

**Simulation** is the endpoint that puts hypothetical requests to the Kernel. It
reaches rules on account states the running desk never supplies (losses,
drawdown, stale data, closed market).

**Portfolio** is the Kernel over time: `Context` and `OpenPolicy` are
`build_kernel_context` with the figures it really fills in (equity for peak,
strikes of zero, today's expiry), `Underwrite` a cycle that gets as far as a
fill, whole or partial, `Reconcile` DB-INV-1.

**Desk** is the concurrency: `uw`, `mg` and `rc[r]` are the three jobs (and
`force_reconcile`) with what each carries from one transaction to the next, one
action per transaction or broker call. `RequestClose`, `SetMode`,
`SetKillSwitch`, `Restart` and the broker interleave with them. The Kernel is
reduced to the mode gate plus the freedom to refuse, the engine to what a
caller can be told (`MayReport`) of an order that may live on. Reconciliation
compares what the code compares: `Position` is what the account holds of an option
symbol, netted over all entries, and any policy with a leg in the symbol explains
it (`Booked`), whatever the amount; `ShortLeg` and `LongLeg` say which entries share
symbols. `OperatorMay` is a bound, on what the operator does besides changing
between ACTIVE and MANAGE_ONLY. Execution and
Portfolio are the justification: a FILLED or PARTIAL report is true for good
(`ReportedFillsAreReal`, proved), one order per proposal (`OneOrderPerProposal`,
proved), any other report says nothing of the order.

**Book** is what the desk promises of each entry, in four actions: a verdict is
committed, contracts are opened, a policy is written once and settles the
position, and a whole one may be closed. `ImplementsBook` is the refinement; its
variables are read off the verdict and policy rows and the broker's fills, so a
fill is an opening even while no job looks.

**Ledger** models what isolation the threads really have: under the SQLite driver a
transaction takes the one write lock at its first INSERT or UPDATE, and a SELECT
before that takes none. `ReadTip` and `InsertRecord` are the two halves of
`append`, `ChangeRow` the flush of a change that precedes it in most callers,
`DescribeRequest` the callers that append first. A hash is the sequence of
everything hashed, so it is collision-free by construction. `guarded` is kept by
the model only: the tip was read under the lock.

**Actuary** is pricing as operators on a set of quotes: `Usable` for
`validate_quote`, `Paired` for the two loops, `Accepted` for `_price_one`, ratios
multiplied out. **Underwriting** runs it: a scheduled cycle and a dry run, each
with its locals in `cycle[r]`, from the reading of the context (`Start`) over
`Fetch`, `RecordInputs`, the model's `Answer` or `BadAnswer`, `RecordDecision`,
`Adjudicate`, `RecordVerdict` to `Execute`, sharing four tables. A row keeps what
the code stores of a snapshot, and `Replay` rebuilds the snapshot from it. The
Kernel is reduced to the four rules that look at the proposal alone, plus the
freedom to refuse or shrink; the model answers with anything ever offered, or
nothing.

**Claims** follows a few policies over their lives. `CostToClose`, `ShouldClose`,
`TargetDebit` and `LimitPrice` are `claims/pricing.py`, `evaluate` and the limit
of the order; `StartManagement`, `Hold`, `Refuse`, `Send`, `EndCycle` and `Abort`
the management cycle around them. What Desk leaves out is here: the date
(`Pass` takes it through the hours before, in and after a session, over weekends,
past expiry), what a closing order becomes when the market is closed
(`OutOfHours`, external), and that a `client_order_id` is burnt by an order that
was cancelled. What Claims leaves out, races and the book, is in Desk. `Due` says
independently, in money, what the desk promises to close. `excused` is history.

**TokenBucket** is the rate limiter as the threads really share it: one unlocked
object, and a thread switch wherever CPython looks for one, which is at calls
(`clock`, `max`, `min`, `sleep`, the return). `_refill` is three steps, with its
two locals in `now[t]` and `held[t]`; `self._tokens -= tokens` is none, for nothing
is called in it. The level is kept in ticks' worth of refill, so rates are exact
where the code has floats. The observer's `OpenWindow` moves the clock's origin
whenever no call is inside: a window may begin at any such moment of an endless
run, on whatever an earlier race left in `level` and `last`. A level or a stamp
older than the time in which the bucket fills means nothing any more, and is cut
there. `quiet` says that no calls have overlapped in the window, `granted` counts
the calls let through in it.

**Scheduler** is the process and its clockwork. `Boot`, `Shutdown`, `Stopped` and
`Crash` are `lifespan` and what may befall it; `StartRun`, `RunFails`,
`RunReturns` and `RecordRun` are `run_job`, in which the job may raise, report an
error, return or hang, and the row may be lost. `Tick`, `WakeLoop` and `Misfire` are
APScheduler's, external, as `start()` configures them: a trigger names a time every
`Interval[j]`; the loop, late or not, submits each job that is due once for the last
time named (`coalesce`) unless an instance is out (`max_instances`); a thread that
takes the run more than `Grace` after that time drops it
(`misfire_grace_time`). `sinceStart`, `idleFor`, `punctual`
and `checked` are history.

Operators marked `Mutant` before a definition state a plausible bug of the code
that the definition models; no specification uses them.

## 3. Runs

| Run | Instance | Question |
|---|---|---|
| `execution` | 2 threads, 2 proposals, 2 verdicts, 2 contracts, 2 attempts | identity, authorisation, truth of fills, refinement of Exposure |
| `execution_live` | 2 threads, 1 proposal, 2 verdicts | every call to `execute` ends |
| `simulation` | limits as deployed; requests on both sides of each | verdict shape, exemptions of closes, raising rules, fit at approved size |
| `portfolio` | 3 spreads on 2 underlyings, up to 4 policies, up to 5 contracts | the book as a whole stays inside the limits; sizing exact; exits permitted |
| `desk` | 2 entries of 2 contracts on one spread, 2 reconcilers | recording before trading, backing of policies, no overclosing, kill switch, refinement of Book |
| `desk_live` | 2 entries of 2 contracts with one symbol in common, 1 reconciler | orphans are found, orphans and leg risk stop entries, with positions netted and legs shared |
| `ledger` | 3 threads, 3 changes, 2 requests | linking under the lock, atomicity of change and record, detection of tampering |
| `underwriting` | 2 cycles, job and dry run; 4 markets, 2 underlyings; times up to 2 | traceability, what a write may name, age of quotes, agreement of thresholds, replay |
| `claims` | 2 policies over 8 days and a weekend, expiring on a Monday and a Tuesday; 7 quotes | exactly what is due is chosen; the force flat is tried in time; no bid above the reserve |
| `token_bucket` | 2 threads, a burst of 2, 2 ticks a token, windows of 5 ticks | the pace outside races, no needless sleep, every call returns |
| `scheduler` | 2 jobs, every 4 and every 2 ticks, a grace of 1 | spacing of runs, no job left out of work, entries only beside a reconciliation |
| `portfolio_NoPolicyWrittenTwice` (`violation`) | 2 policies on one spread | a documented promise the code does not keep, see section 6 |

Why the bounds are enough. *Execution*: an identity can only be confused between
two verdicts, two threads or two proposals; two attempts give a retry, two
contracts a partial fill; a third would repeat these. One verdict can be minted
for the same proposal as another, so re-approval is included. *Portfolio*: limits
are scaled (NAV 20, 60/25/50/60 percent, three policies) so that each of the five
capital limits and the count is the binding one in some reachable book; the first
spread misses the delta limit, so its size is always halved; a request of one
contract then falls to zero. *Simulation*: the figures are chosen one step either
side of each limit. *Desk*: two entries let one be recorded while the other is in
flight; two contracts allow a partial fill. `outran` is a history variable and
stays below 2 in every reachable state, so nothing is unbounded. In `desk` both are
the same spread, which no safety property there can tell from two, and the job and
`force_reconcile` reconcile side by side, so either may hold the older reading.
`desk_live` takes two spreads, of which the second sells the symbol the first buys:
with both held that symbol nets to nothing, with one of them booked it is
explained, and each has one of its own besides. There the job reconciles alone and
the operator only changes the mode between ACTIVE and MANAGE_ONLY (`OperatorMay` is
empty): HALT, the kill switch and requested closes have no part in what
reconciliation finds, a second reconciliation can only report more and force
more, and with them the state space is out of reach of the temporal check.
*Ledger*: a fork takes two transactions and
detection three rows; five events in three threads give transactions of several
records beside others that roll back. *Underwriting*: two cycles meet in every
table, and the same snapshot can be priced by both; the quotes lie on either side
of the delta band, the width, the credit and the liquidity threshold; one is as
old as is allowed and one market a second too old; ages and the verdict's life
are one tick each, so an order may be late by either, by both, or not at all.
Two attempts are the code's own `MAX_SCHEMA_ATTEMPTS`. `MaxTime` and `MaxCycles`
end the run's history; `NotNow`, a tick outside market hours, stays possible.
*Claims*: the quotes lie on either side of the stop, the target and the strike, one
is crossed, one wider than the spread, one incomplete; the weekend falls into the
last two days of both policies, and leaves one of them a session before its last
day and the other none; two policies show that one cycle's failure is not the
other policy's excuse. `LastDay` is the later expiry.
*Token bucket*: two threads are all a race between two reads and a write needs; the
desk has two that execute. The window is longer than the bucket takes to fill, so
the pace and not the burst decides at its end. A race may start anywhere in a
window, and windows follow each other without end. *Scheduler*: the first job's
interval is a multiple of the second's and both are longer than the grace, as 30
and 5 minutes are to 60 seconds; ticks are counted up to where they make a
difference (`Capped`), so runs of any length are covered. `MaxFailures` bounds the
counter, on which nothing depends but its being zero.
Symmetry is used in the two large safety runs and in `ledger` only, where the permuted sets
appear in no property by name. Deadlock is checked in every run.

Fairness. `execution_live`: weak fairness of the calling thread's own steps (it
runs on; a broker call returns or raises; the clock passes the deadline). None
of the broker, so a broker that never moves an order is covered, and none of
`Poll`, so the deadline does the work. `desk_live`: weak fairness of the start of the reconcile job
(`CycleScheduler.start` re-runs it; `run_job` swallows what it raises), and strong
fairness of its `RecordReconciliation` and `ForceManageOnly`: crashes and
database errors may recur for ever, and each aborts a reconciliation in flight;
the assumption is that they do not hit every single one. No fairness of the
broker, the operator and his `force_reconcile`, or the other two jobs.

`token_bucket`: weak fairness of time and of each thread inside `acquire` (`Runs`):
Python's threads are scheduled, `sleep` ends, and nobody has to call. None of
`Acquire` or the observer.

Nothing in `claims` is a liveness property, but `Pass` waits for a cycle that began
in the segment to end or fail: a segment has hours, the job runs every 15 minutes,
and an execution ends (`EveryCallEnds`).

Each property of a passing run has a mutant: the definition named in PROJECT.json
is replaced by a buggy variant and TLC finds the property violated.

## 4. Proofs

**ExecutionProofs**, for any threads, proposals, verdicts, sizes and retries:
`TypeCorrect`, `OrdersAreApproved`, `VerdictsAreSingleUse`, `OrdersAreUnique`,
`FillsAreReal`, and `ImplementsPromise` (the refinement). None of the safety
properties is inductive: that a verdict is used once depends on the registry
remembering the nonce *or* the owner having died (`EndedOK`), the size at the
broker on what was on the wire (`WireOK`) and in the payload (`PayloadOK`), the
truth of a reported fill on the engine having read a terminal order that can no
longer change (`SeenOK`, `Sound`). Four lemmas say what one step can do to
verdicts, orders, calls and results; the parts of `IInv` follow from these.

**KernelProofs** is about Simulation and Portfolio, whose variables stand side by
side in it (Simulation's specification is `SimSpec`). For any request and any
limits: `EvaluateAnswers` (the type invariant), `RaisingIsNeverPermission`,
`ClosesGoOut`, `OpeningsFit`. The invariant is only that the verdict is `Evaluate`
of the request; the work is in lemmas on the Kernel (`FloorDivFits`,
`PermittedFits`, `ApprovedShrinks`, `ClosesPass`, `RaisingFails`,
`CoveredMeansTwoLegs`). They assume integer figures and a calibration multiplier of
at most one, which the code's only value, 1.0, meets and FR-142 (`src/SRS.md:318`)
bounds.

For any spreads, limits, equity and number of policies: `PolicyTypesCorrect`,
`BookStaysWithinLimits`, `SizingIsExact`, `RulesAgreeWithSizing`,
`BookCanAlwaysBeClosed`. The limits are on sums over the book, so the proofs first
need what a sum over a finite set is. The library's induction theorems cannot be
instantiated here, but a set of finite sets has a smallest member: take the
subsets on which a claim about the sum fails (`SubsetInduction`). From this follow
the sum of a set with one member more, of no members, the change of its index, and
its sign; and from these, what the Kernel computes over the context
(`ContextFigures`, `PermittedFitsRows`) is what the rows of the book say.
`OpenBookWithinLimits` is then inductive but for one thing, which `IInv` adds: a
book that is not empty has a positive equity (SK-019 saw to that), so that a
restart can no longer set another baseline under it. `BookCanAlwaysBeClosed` has
the hypothesis `Limits.calibration = 100`, as deployed: at less, a close too would
be shrunk (`kernel.py:256`).

**DeskProofs**, for any proposals, sizes and reconcilers: `TypeCorrect`,
`EntriesRecorded`, `PoliciesBacked`, `ExitsNeverOverclose`, `KillSwitchObeyed`.
`IInv` has a part for each subject. `TrailOK`: from approval to report the job
is about one proposal whose verdict is committed before anything is sent.
`OrdersOK`: a report in the job's hands stays true of its order, and an exit is
only ever sent for an entry that filled completely; that is why an exit cannot
pass its entry (a `LEG_RISK` policy is never managed, and `NeverOverclosed`
rests on it); shared symbols make no difference, for the id of an exit is the
policy's (`exit:{policy.id}`, `bootstrap.py:257`). `KillSwitchOK`: once one entry has gone out under the switch, the
job is past sending and any later cycle has read the switch. `EntriesSettle`
(a complete or ended order never changes) carries all three. `KeepsItsPromise` is
the refinement of Book. It needs `BookOK` besides: the proposal at hand has no
policy yet, and what is closed, or about to be, has one for a whole entry; a
transmission is a stutter, a fill is an opening or a closing, and
`RecordExecution` writes or stutters by the report (`WritingIsWriting`,
`FillingIsFilling`). `OrdersKeepExecutionsPromise` ties the desk's reduced engine to
the detailed one: the desk's entries and exits, as orders of which each has an id of
its own, refine the same Exposure that `execute()` is proved to refine (TLC checked it on the
instance of `desk`, and no run repeats it).

**LedgerProofs**, for any threads and events and ledgers of any length:
`TypeCorrect`, `GuardedAppendsLink`, `CommittedTogether`, `GuardedLedgersVerify`
and `AlterationsAreFound`. `LockOK` says that whoever has written something holds
the lock, `TipOK` that a tip read under the lock is still the last row the thread
sees; with these a commit appends rows that link (`LinksStep`). `DoingOK` keeps
the events of different transactions apart, for `CommittedTogether`, and
`SealedOK` that a row hashes to its stored value, for the last theorem. The chain
as a whole is *not* provable, for the code does not keep it:
`GuardedLedgersVerify` is what is left, that a ledger appended under the lock only
is valid.

**ClaimsProofs**, for any policies, terms and quotes: `TypeCorrect`, `DueIsChosen`,
`ForceFlatTried`, `LossesAreReserved`. `ClosesWhatIsDue` proves that `evaluate`
over `cost_to_close` decides what `Due` says, floor and missing figures included;
`LimitIsCovered` bounds the limit. For the force flat the invariant follows a
policy through a cycle: what was gone through has an order or an excuse
(`GoneThroughOK`), what was not in the cycle was opened meanwhile and is a week
from expiry (`CycleOK`), so a cycle's end covers the book (`ManagedOK`), and the
session is left only after one. It assumes a short strike above the long one
(`TermsAssumption`): at a width of zero the one-cent limit would pass the reserve.

**TokenBucketProofs**, for any threads, rate, burst and window: `TypeCorrect`,
`CallsArePaced`, `SpacedCallsPass`. What a race leaves behind is in the invariant:
stamps are never later than the last return while nobody is inside, and in a
quiet window what was granted and what is left in the bucket is at most the
capacity and what time has refilled. The level stays between empty and full even
in a race (`TypeCorrect`).

**SchedulerProofs**, for any jobs, intervals and grace: `TypeCorrect`,
`RunsSpaced`, `IdleJobsRun`, `EntriesChecked`, `FailingRecorded`. `SpacingOK` says
that each run is for a time of the trigger that no other run was for, and
`PunctualOK` where a job without work stands between two such times. That the
entries come with a reconciliation rests on arithmetic: the triggers are made
together and one interval divides the other (`CadenceAssumption`), so that the due
times stay congruent (`AlignedOK`), and whenever an entry time is no older than
the grace it was a time of the check as well (`SameLateness`). `CheckedOK` adds that
no check is dropped before a first one has ended, while nothing is late.

**UnderwritingProofs**, for any chains, thresholds, answers of the model, ages and
lives of a verdict, crashes anywhere: `TablesTypesCorrect`, `OrdersCanBeTraced`,
`WritesHaveTheirCandidate`, `OrdersAreOnRecentQuotes`, `ReplayIsNoFalseAlarm`,
`PricedIsNeverRefused`. The first lemmas are on pricing: what is priced comes from
two quotes of the chain (`PricedFromTwoQuotes`); underlying, strikes, expiry and
snapshot tell two proposals apart (`HashesTellApart`), although neither hash nor id
covers all of a proposal, because a chain quotes a contract once; the row of a
snapshot prices what the snapshot did (`RowStillPrices`); and what the Actuary
accepts passes the Kernel's entry rules (`PricedPassesEntryQuality`). `IInv` then
follows a cycle: `HasQuotes` (its chain is no older than `MaxAge` when the context
was read, hence the age of an order's quotes), `HasInputs` (what it offers is on
record, though another cycle may have recorded it first), `HasDecision`,
`HasDecisionRow`, `HasVerdict`, `HasVerdictRow`; and it has a part for each table.
It is needed because a property of orders is about rows that four transactions of
two runners wrote. `UntouchedCycle` and `TablesStaySound` say once that growing
tables disturb nobody; there is one lemma for each action. TLC checked `IInv` over
the whole of the `underwriting` run. `PricedIsNeverRefused` has the hypothesis
`KernelIsNoStricter`: the four limits agree where both are configured
(`actuary/thresholds.py`, `kernel/limits.py`), but nothing in the code keeps them so.
`MismatchesAreTheUnstorable` adds the converse of `ReplayIsNoFalseAlarm`: a replay
reproduces its candidate if and only if the row could hold the snapshot, so where
several underlyings have a price none does (section 6).

Assumptions, all named and evaluated by TLC: `ContractsAssumption`,
`RetriesAssumption`, `NobodyAssumption` (in two modules), `ScheduledAssumption`,
`LegsAssumption` and `OperatorAssumption` (Desk), `LimitsAssumption`,
`CalibrationAssumption`, `RaisingAssumption`, `FiguresAssumption`,
`EventsAssumption`, `TermsAssumption`, `QuotesAssumption`, `OutcomesAssumption`,
`TokenAssumption`, `BurstAssumption`, `WindowAssumption`, `JobsAssumption`,
`IntervalAssumption`, `GraceAssumption` (the grace is shorter than every interval:
one minute and five), `CadenceAssumption`, `MaxFailuresAssumption`.
Portfolio's
are `SpreadsAssumption` (what the Actuary accepts has a loss, and its long strike
is the lower), `BaselinesAssumption`, `BoundsAssumption`; Underwriting's and
Actuary's are `TimesAssumption`, `CountsAssumption`, `MarketsAssumption`,
`ThresholdsAssumption`, `KernelLimitsAssumption` (figures are integers) and
`ChainsAssumption`: a chain quotes a contract once. The source's chain is a mapping
keyed by symbol (`alpaca_source.py:114`), and a symbol spells underlying root,
expiry, right and strike; a contract adjusted for a corporate action has a root of
its own and is the exception, on which `candidate_id_for` could not tell two
proposals apart.

The type invariants of Execution, Simulation, Desk, Ledger, Claims, TokenBucket and
Scheduler are proved and no run checks them; TLC did while they were written.
`FailingIsOnRecord` is proved only.

Every safety property of a passing run is now stated by a theorem. Only
model-checked: everything under fairness (`EveryCallEnds`,
`EveryAcquireReturns`, `OrphansAreFound`, `OrphansStopEntries`,
`LegRiskStopsEntries`), which is beyond the prover.

## 5. Not modelled

Prices at the broker (legs and symbols are in Desk, as far as reconciliation reads
them); several proposals in one cycle (the
code takes at most one); partial closes booked by hand at the broker; SQLite's own locking outside
Ledger (elsewhere a transaction is one step, one that fails is `...Raises`,
`EndUnderwriting` or `End`);
database faults in operator requests; wording, logging, metrics, read models,
dashboard. HMAC and SHA-256 are taken at their word. Numeric accuracy of the
pricing formulas is out of TLC's reach. So are the floats of the token bucket, whose
rounding is far below a token. The Alpaca CLI's pre-flight (`cli/preflight.py`) is
in Execution as one way in which a call ends before transmission; which payloads it
refuses is not modelled, for it compares text with text. The MCP context, metrics
and read models keep no state the trading logic reads. PROJECT.json has a note on
each component.

In Scheduler the third job and the operator's requests are left out: jobs share
nothing there but the process. A job that hangs is one whose `RunReturns` never comes;
TokenBucket and Execution say that the engine does not hang, of the model's and
the broker's clients nothing is known.

Reconciliation's warning about a leg the broker lacks changes nothing but the
event table and is left out. A reconciliation may be given the
broker's equity to write to its `PnlRecord`, but neither caller gives it one, so
every record copies the baseline and `equity` never changes in Portfolio.

## 6. Where the code and its documents disagree

With a run, and a finding in PROJECT.json quoting both sides:

- `NoPolicyWrittenTwice`: SK-021 compares with strikes of zero, so an open policy
  never blocks a second one on its spread (`cycle/bootstrap.py:185`).

Met while modelling, without a run of their own (a project of this size spends
its runs elsewhere; unless it says "read", each was seen in a TLC trace of these
modules):

- `cycle/reconcile.py:99`: reconciliation asks of a symbol whether some open policy
  has a leg in it, never how much, and no policy is ever settled; so a fill the desk
  lost stays hidden, for good, behind another policy on the same symbols, which
  SK-021 does not prevent. "A position the broker holds and the book cannot
  explain is an **orphan** and always CRITICAL" (`reconcile.py:7`). `OrphansAreFound`
  and `OrphansStopEntries` are about what holds, symbols of no policy at all.
- `execution/engine.py:366`: contracts filled while a cancel is pending are reported
  CANCELLED; "Whatever filled before the cancel landed is real and has to be
  reported as such" (`engine.py:284`). `ReportedFillsAreReal` is the converse,
  which holds.
- `claims/desk.py:121`: the floor is in calendar days, and a Monday's expiry is
  three away in the last session before; "the entry floor and FORCE_FLAT_DTE
  together guarantee the book never holds risk it cannot measure"
  (`kernel/rules.py:484`). `ForceFlatIsTried` is about the sessions there are.
- `execution/engine.py:253` polls and cancels outside any `try`: a broker error
  leaves `execute()` as an exception with a live order behind it; the docstring
  (`engine.py:135`) says "Transmit an order, or raise `UnauthorizedExecution`."
- `execution/engine.py:201` submits again after an ambiguous failure; F-15
  (`src/SRS.md:1515`): "**Do not resubmit.** Poll by `client_order_id`".
- `execution/alpaca_broker.py:69`: a fault without a status code counts as
  permanent, so REJECTED may be returned for an order that was accepted;
  `ports.py:77` calls a permanent error "A 4xx validation error."
- `execution/engine.py:289`: TIMED_OUT is returned while the cancel is pending
  and the order may still fill; the docstring (`engine.py:277`) says "re-poll to
  confirm it actually cancelled".
- `kernel/kernel.py:254`: half of one contract is none, and SK-020 then rejects;
  `rules.py:360` says of the soft rules "these reduce size, they never reject".
- `cycle/bootstrap.py:175`: reserves of LEG_RISK policies are left out of SK-001's
  total ("across all open reserves", `src/SRS.md:683`).
- `cycle/bootstrap.py:185`: open policies carry a short strike of zero, so SK-012
  never counts the book ("If every short leg were assigned at once",
  `rules.py:283`).
- `cycle/recorder.py:391`: every partial fill breaks DB-INV-1 at the next
  reconciliation (`src/SRS.md:1161`).
- `cycle/bootstrap.py:446`: the kill switch is read once per cycle, not "on every
  adjudication" (`system_controller.py:290`); `KillSwitchObeyed` proves what holds
  instead.
- `cycle/bootstrap.py:507`: `_force_manage_only` turns a HALT into MANAGE_ONLY
  without the re-arming of `src/SRS.md:1481`.
- `cycle/manage.py:188`: the verdict of an exit is stored nowhere (NFR-008,
  `src/SRS.md:347`).
- `controllers/system_controller.py:269`: ACTIVE is allowed before any
  reconciliation (ERR-007, `src/SRS.md:1491`).
- `cycle/bootstrap.py:299`: a LEG_RISK policy never reaches the Claims Desk
  (FR-086, `src/SRS.md:284`).
- `cycle/manage.py:106`: one exit that raises ends the cycle for the others
  ("One policy failing does not stop the cycle.", `manage.py:76`).
- `cycle/bootstrap.py:447`: entries go on beside a LEG_RISK policy until a
  reconciliation ("**No new entries** until resolved", F-13, `src/SRS.md:1513`).
- `kernel/rules.py:412`: SK-010 and SK-022 refuse closes too once a loss limit is
  breached; "MANAGE_ONLY blocks entries but must permit closes" (`rules.py:444`).
- `cycle/reconcile.py:115`: an entry whose policy its running cycle is still going
  to write is reported as an orphan; "it is exposure nobody is managing"
  (`reconcile.py:121`).
- `controllers/operator_controller.py:116`: an authorised close is never sent;
  "The next management cycle transmits it" (`operator_controller.py:117`).
- `cycle/manage.py:188`: a policy whose close filled stays OPEN, for nothing calls
  `settle` (FR-107, `src/SRS.md:300`).
- `cycle/bootstrap.py:207`: the Kernel's data age is that of the context itself,
  so SK-018 ("Every input must be younger than MAX_DATA_AGE_SEC at decision
  time.", `rules.py:645`) passes always, and a snapshot may be older by the
  verdict's life when the order leaves; `OrdersUseRecentQuotes` is what holds.
- `data/alpaca_source.py:135`: a quote without a timestamp gets the time of the
  fetch, so its age is unknown and passes for none; of such quotes
  `OrdersUseRecentQuotes` bounds the time since the fetch only (read).
- `cycle/replay.py:98`: a snapshot of several underlyings, an untradable contract
  or a local clock never hashes to its recorded value again, so every replay of the
  default universe is a mismatch; "The diff must be empty (NFR-007)"
  (`controllers/underwriting_controller.py:195`). `StoredIsReproduced` holds.
- `kernel/context.py:83`: `market_open` defaults to true and nothing sets it, so
  SK-017 never fires and the Claims Desk sends closes at night and on weekends;
  FR-100 (`src/SRS.md:293`) has it run "during market hours".
- `audit/ledger.py:101`: `append` reads the tip with a SELECT, which takes no lock
  unless the transaction has written before; `request_close` and `force_reconcile`
  append first (`operator_controller.py:55` and `:143`), so a commit in between
  leaves two records on one tip, and `verify_chain` fails on a ledger nobody
  touched; "Phases commit separately, so the chain has to survive interleaving."
  (`tests/test_cycle_persistence.py:244`). `GuardedRecordsLink` holds.
- `execution/ratelimit.py:8`: "Not thread-safe by design — OPS-020 runs exactly one
  instance with one scheduler, so contention here would mean something else has
  already gone wrong." That one scheduler runs its jobs on a pool of threads over
  one engine, so contention is what it is built for: two threads that slept for
  the same token both go, and while they keep doing so the desk sends at up to
  twice the rate (NFR-009, `src/SRS.md:348`). `QuietCallsArePaced` holds.
- `cycle/scheduler.py:145`: the third failure in a row is logged and nothing more;
  ERR-006 (`src/SRS.md:1490`): "MUST force `MANAGE_ONLY` and alert" (read).
- `controllers/system_controller.py:66`: the deep health check looks at failure
  counts, so a job that hangs, and is passed over for ever after
  (`max_instances`), is reported as fine; OPS-006 (`src/SRS.md:1465`) has the absence
  of a heartbeat "mark the system degraded".
- `cycle/scheduler.py:205`: "A run missed while the process was down folds into one
  catch-up"; the jobs are kept in memory and made anew at every boot, so there is
  none: the first run comes one interval later. While the process is up a run is
  caught up on within 60 seconds, and dropped after.
- `cycle/replay.py:142` prices again and never asks the Kernel; FR-160
  (`src/SRS.md:326`) has replay reproduce the verdict too (read).
- `actuary/engine.py:135` and `:147` skip quotes and pairs outside the delta and
  width bands without a discard; "UI-006 requires an empty book to explain why it
  is empty" (`engine.py:40`) (read).

## 7. Plan

Done, in this order: Execution with Exposure and its proofs; Kernel with
Simulation and Portfolio; Desk and its proofs; the proofs about Simulation; Ledger and its
proofs; Actuary with Underwriting; Claims and its proofs; TokenBucket and
Scheduler, each with its proofs; Book, and the proof that Desk refines it; the
proofs about Portfolio (KernelProofs) and Underwriting.

Next, proofs only: the desk's `MayReport` from the results of Execution, so that
`ReportedFillsAreReal` is used where Desk assumes it; and Exposure for the orders of
several cycles of Underwriting.
