-------------------------------- MODULE Desk --------------------------------
(***************************************************************************)
(* The running desk: the underwriting, management and reconciliation jobs  *)
(* and the operator's requests, each on a thread of its own, sharing the   *)
(* database (the mode, the verdicts, the policies) and the broker.  Each   *)
(* job commits in several short transactions, and calls the broker between *)
(* them.                                                                   *)
(*                                                                         *)
(* The Kernel is reduced to what it says on this path (Portfolio shows     *)
(* why): the mode gate, and for entries the model's and the rules' freedom *)
(* to refuse.  The engine is reduced to how a call to execute() may end    *)
(* and what order it may leave behind (Execution has the detail).  A       *)
(* proposal is one entry, written at most once.  Its two option symbols    *)
(* may be those of other entries too, up to the same spread written again  *)
(* (Portfolio shows how); the broker keeps one net position per symbol.    *)
(***************************************************************************)
EXTENDS Integers, FiniteSetsExt

CONSTANTS
    Proposals,      \* entries the underwriting job may come to propose
    Contracts,      \* size the Kernel approves an entry at
    Reconcilers,    \* threads that reconcile: the job, and force_reconcile
    Scheduled,      \* the one of them that is the job
    Symbols,        \* option symbols
    ShortLeg,       \* ShortLeg[p]: the symbol an entry sells
    LongLeg,        \* LongLeg[p]: the symbol it buys
    OperatorMay     \* a bound: which of the Controls the operator uses

ASSUME ContractsAssumption == Contracts \in Nat \ {0}
ASSUME ScheduledAssumption == Scheduled \in Reconcilers
ASSUME LegsAssumption ==
    /\ ShortLeg \in [Proposals -> Symbols]
    /\ LongLeg \in [Proposals -> Symbols]
    /\ \A p \in Proposals : ShortLeg[p] # LongLeg[p]

Controls == {"HALT", "kill switch", "close"}
ASSUME OperatorAssumption == OperatorMay \subseteq Controls

VARIABLES
    mode,           \* SystemConfig.mode
    killSwitch,     \* SystemConfig.kill_switch
    verdicts,       \* approving KernelDecision rows of entries, by proposal
    exitVerdicts,   \* approving KernelDecision rows of exits, by proposal
    policies,       \* policies[p]: status of its policy row, or "none"
    alarms,         \* symbols reported ORPHAN_POSITION
    entry,          \* entry[p]: the broker's opening order
    exit,           \* exit[p]: the broker's closing order
    uw,             \* the underwriting job
    mg,             \* the management job
    rc,             \* rc[r]: a reconciliation
    outran          \* history: entries sent since the kill switch went on

config == <<mode, killSwitch>>
book == <<verdicts, exitVerdicts, policies, alarms>>
broker == <<entry, exit>>
vars == <<config, book, broker, uw, mg, rc, outran>>

(***************************************************************************)
(* Types                                                                   *)
(***************************************************************************)
Mode == {"ACTIVE", "MANAGE_ONLY", "HALT"}
Nobody == "nobody"
ASSUME NobodyAssumption == Nobody \notin Proposals

\* An order never sent, one that may still fill, and one that is over.
Order == [state : {"none", "live", "over"}, filled : 0 .. Contracts]
NoOrder == [state |-> "none", filled |-> 0]

PolicyStatus == {"none", "OPEN", "LEG_RISK"}
Report == {"none", "FILLED", "PARTIAL", "UNFILLED"}

\* Where a job stands, and what it carries: the context it read when it began,
\* the policies still to manage, the proposal at hand, the engine's report.
Underwriting == [at : {"idle", "pricing", "judged", "recorded", "executing",
                       "reported"},
                 kill : BOOLEAN, p : Proposals \cup {Nobody}, report : Report]
Management == [at : {"idle", "opened", "managing", "executing"}, mode : Mode,
               kill : BOOLEAN, todo : SUBSET Proposals,
               p : Proposals \cup {Nobody}]
Reconciliation == [at : {"idle", "read", "recorded"}, held : SUBSET Symbols,
                   forced : BOOLEAN]

UwIdle == [at |-> "idle", kill |-> FALSE, p |-> Nobody, report |-> "none"]
MgIdle == [at |-> "idle", mode |-> "MANAGE_ONLY", kill |-> FALSE, todo |-> {},
           p |-> Nobody]
RcIdle == [at |-> "idle", held |-> {}, forced |-> FALSE]

Init ==
    /\ mode = "MANAGE_ONLY"
    /\ killSwitch = FALSE
    /\ verdicts = {}
    /\ exitVerdicts = {}
    /\ policies = [p \in Proposals |-> "none"]
    /\ alarms = {}
    /\ entry = [p \in Proposals |-> NoOrder]
    /\ exit = [p \in Proposals |-> NoOrder]
    /\ uw = UwIdle
    /\ mg = MgIdle
    /\ rc = [r \in Reconcilers |-> RcIdle]
    /\ outran = 0

Held(p) == entry[p].filled - exit[p].filled
Legs(p) == {ShortLeg[p], LongLeg[p]}

\* What the account holds of a symbol, bought less sold, over all entries.
Position(s) ==
    MapThenSumSet(Held, {p \in Proposals : LongLeg[p] = s})
      - MapThenSumSet(Held, {p \in Proposals : ShortLeg[p] = s})

(***************************************************************************)
(* The engine, as its callers see it                                       *)
(***************************************************************************)

\* Mutant: a partial fill is reported as soon as it is seen.
ReportsPartialsEarly(o, report) ==
    \/ report = "FILLED" /\ o.filled = Contracts
    \/ report = "PARTIAL" /\ o.filled \in 1 .. Contracts - 1
    \/ report = "UNFILLED"

\* What execute() may report of an order.  A fill is reported as it is, but any
\* order may come back as CANCELLED, REJECTED, TIMED_OUT or FAILED: the call
\* can end before the order does.
MayReport(o, report) ==
    \/ report = "FILLED" /\ o.filled = Contracts
    \/ report = "PARTIAL" /\ o.state = "over" /\ o.filled \in 1 .. Contracts - 1
    \/ report = "UNFILLED"

\* An order under an id the broker has seen is refused.
Transmit(o) == IF o.state = "none" THEN [o EXCEPT !.state = "live"] ELSE o

(***************************************************************************)
(* The underwriting job                                                    *)
(***************************************************************************)

\* Mutant: the context's kill switch keeps its default.
ContextWithoutKillSwitch ==
    /\ uw = UwIdle
    /\ mode = "ACTIVE"
    /\ uw' = [uw EXCEPT !.at = "pricing"]
    /\ UNCHANGED <<config, book, broker, mg, rc, outran>>

\* The context is read, once for the cycle; no entries outside ACTIVE.
StartUnderwriting ==
    /\ uw = UwIdle
    /\ mode = "ACTIVE"
    /\ uw' = [uw EXCEPT !.at = "pricing", !.kill = killSwitch]
    /\ UNCHANGED <<config, book, broker, mg, rc, outran>>

\* The Kernel adjudicates the proposal the model selected, on that context.
ApproveEntry(p) ==
    /\ uw.at = "pricing"
    /\ ~uw.kill
    /\ entry[p] = NoOrder
    /\ p \notin verdicts
    /\ uw' = [uw EXCEPT !.at = "judged", !.p = p]
    /\ UNCHANGED <<config, book, broker, mg, rc, outran>>

\* Mutant: the verdict is not written before it is used.
ProceedUnrecorded ==
    /\ uw.at = "judged"
    /\ uw' = [uw EXCEPT !.at = "recorded"]
    /\ UNCHANGED <<config, book, broker, mg, rc, outran>>

\* _record_verdict: the verdict is committed before it is acted on.
RecordVerdict ==
    /\ uw.at = "judged"
    /\ verdicts' = verdicts \cup {uw.p}
    /\ uw' = [uw EXCEPT !.at = "recorded"]
    /\ UNCHANGED <<config, exitVerdicts, policies, alarms, broker, mg, rc, outran>>

\* execute() takes the verdict, and the order goes out.
SendEntry ==
    /\ uw.at = "recorded"
    /\ entry' = [entry EXCEPT ![uw.p] = Transmit(@)]
    /\ uw' = [uw EXCEPT !.at = "executing"]
    /\ outran' = IF killSwitch THEN outran + 1 ELSE outran
    /\ UNCHANGED <<config, book, exit, mg, rc>>

EntryReported ==
    /\ uw.at = "executing"
    /\ \E report \in Report \ {"none"} :
          /\ MayReport(entry[uw.p], report)
          /\ uw' = [uw EXCEPT !.at = "reported", !.report = report]
    /\ UNCHANGED <<config, book, broker, mg, rc, outran>>

\* Mutant: whatever was sent is written down as a policy.
RecordWhateverWasSent ==
    /\ uw.at = "reported"
    /\ policies' = [policies EXCEPT ![uw.p] =
          IF uw.report = "PARTIAL" THEN "LEG_RISK" ELSE "OPEN"]
    /\ uw' = UwIdle
    /\ UNCHANGED <<config, verdicts, exitVerdicts, alarms, broker, mg, rc, outran>>

\* _record_execution: a policy is written only when something filled.
RecordExecution ==
    /\ uw.at = "reported"
    /\ policies' = [policies EXCEPT ![uw.p] =
          CASE uw.report = "FILLED" -> "OPEN"
            [] uw.report = "PARTIAL" -> "LEG_RISK"
            [] OTHER -> @]
    /\ uw' = UwIdle
    /\ UNCHANGED <<config, verdicts, exitVerdicts, alarms, broker, mg, rc, outran>>

\* The cycle ends early: nothing to write, the model or the Kernel refuses, the
\* verdict expires, or any call raises (the database's and the engine's too).
EndUnderwriting ==
    /\ uw.at # "idle"
    /\ uw' = UwIdle
    /\ UNCHANGED <<config, book, broker, mg, rc, outran>>

Underwrite ==
    \/ StartUnderwriting
    \/ \E p \in Proposals : ApproveEntry(p)
    \/ RecordVerdict
    \/ SendEntry
    \/ EntryReported
    \/ RecordExecution
    \/ EndUnderwriting

(***************************************************************************)
(* The management job                                                      *)
(***************************************************************************)

\* Mutant: a policy at LEG_RISK is closed like an open one.
ManagesLegRisk == {"OPEN", "LEG_RISK"}

\* Statuses open_positions() reads; nothing is ever CLOSING.
Managed == {"OPEN"}

\* open_positions(), once for the cycle.
StartManagement ==
    /\ mg = MgIdle
    /\ \E p \in Proposals : policies[p] \in Managed
    /\ mg' = [mg EXCEPT !.at = "opened",
                        !.todo = {p \in Proposals : policies[p] \in Managed}]
    /\ UNCHANGED <<config, book, broker, uw, rc, outran>>

\* build_kernel_context(), in a transaction after that, once for the cycle.
ReadManagementContext ==
    /\ mg.at = "opened"
    /\ mg' = [mg EXCEPT !.at = "managing", !.mode = mode, !.kill = killSwitch]
    /\ UNCHANGED <<config, book, broker, uw, rc, outran>>

\* The Claims Desk holds the policy, or the Kernel refuses the close.
Hold(p) ==
    /\ mg.at = "managing"
    /\ p \in mg.todo
    /\ mg' = [mg EXCEPT !.todo = @ \ {p}]
    /\ UNCHANGED <<config, book, broker, uw, rc, outran>>

\* The Claims Desk closes the policy and the Kernel permits it: the whole of
\* the policy is sent, under an id that never changes for this policy.
SendExit(p) ==
    /\ mg.at = "managing"
    /\ p \in mg.todo
    /\ mg.mode # "HALT"
    /\ ~mg.kill
    /\ exit' = [exit EXCEPT ![p] = Transmit(@)]
    /\ mg' = [mg EXCEPT !.at = "executing", !.todo = @ \ {p}, !.p = p]
    /\ UNCHANGED <<config, book, entry, uw, rc, outran>>

\* execute() returns; the report is counted and nothing is written.
ExitReported ==
    /\ mg.at = "executing"
    /\ mg' = [mg EXCEPT !.at = "managing", !.p = Nobody]
    /\ UNCHANGED <<config, book, broker, uw, rc, outran>>

\* An exception leaves the loop over the positions: execute() raised because the
\* broker failed, or because a verdict had expired before its turn came.
ExitRaises ==
    /\ mg.at = "executing" \/ (mg.at = "managing" /\ mg.todo # {})
    /\ mg' = MgIdle
    /\ UNCHANGED <<config, book, broker, uw, rc, outran>>

EndManagement ==
    /\ mg.at = "managing"
    /\ mg.todo = {}
    /\ mg' = MgIdle
    /\ UNCHANGED <<config, book, broker, uw, rc, outran>>

Manage ==
    \/ StartManagement
    \/ ReadManagementContext
    \/ \E p \in Proposals : Hold(p) \/ SendExit(p)
    \/ ExitReported
    \/ ExitRaises
    \/ EndManagement

(***************************************************************************)
(* Reconciliation                                                          *)
(***************************************************************************)
LegsOf(S) == UNION {Legs(p) : p \in S}

\* Mutant: a policy explains every entry that it shares a leg with.
BookedByAnyLeg == LegsOf({p \in Proposals :
    \E q \in Proposals : policies[q] # "none" /\ Legs(p) \cap Legs(q) # {}})

\* The symbols of the policies in the book, none of which ever leaves it.
Booked == LegsOf({p \in Proposals : policies[p] # "none"})

\* list_positions(), before any transaction; nothing happens if it raises.
ReadPositions(r) ==
    /\ rc[r] = RcIdle
    /\ rc' = [rc EXCEPT ![r] = [at |-> "read", forced |-> FALSE,
                                held |-> {s \in Symbols : Position(s) # 0}]]
    /\ UNCHANGED <<config, book, broker, uw, mg, outran>>

\* Mutant: orphans are reported, but only the reserve invariant forces the mode.
ForceOnReservesOnly(r) ==
    /\ rc[r].at = "read"
    /\ alarms' = alarms \cup (rc[r].held \ Booked)
    /\ rc' = [rc EXCEPT ![r] = [at |-> "recorded", held |-> {},
                  forced |-> \E p \in Proposals : policies[p] = "LEG_RISK"]]
    /\ UNCHANGED <<config, verdicts, exitVerdicts, policies, broker, uw, mg, outran>>

\* Mutant: the reserve invariant is not part of the outcome.
RecordOrphansOnly(r) ==
    LET orphans == rc[r].held \ Booked IN
    /\ rc[r].at = "read"
    /\ alarms' = alarms \cup orphans
    /\ rc' = [rc EXCEPT ![r] = [at |-> "recorded", held |-> {},
                                forced |-> orphans # {}]]
    /\ UNCHANGED <<config, verdicts, exitVerdicts, policies, broker, uw, mg, outran>>

\* The book is read and the findings committed, against positions read earlier.
\* A symbol is explained by any policy with a leg in it, whatever the amount; a
\* leg the broker lacks is reported too, and forces nothing.  DB-INV-1 breaks on
\* a LEG_RISK policy: its reserve is held, its exposure is not counted.
RecordReconciliation(r) ==
    LET orphans == rc[r].held \ Booked IN
    /\ rc[r].at = "read"
    /\ alarms' = alarms \cup orphans
    /\ rc' = [rc EXCEPT ![r] = [at |-> "recorded", held |-> {},
                  forced |-> \/ orphans # {}
                             \/ \E p \in Proposals : policies[p] = "LEG_RISK"]]
    /\ UNCHANGED <<config, verdicts, exitVerdicts, policies, broker, uw, mg, outran>>

\* _force_manage_only, in a transaction of its own.
ForceManageOnly(r) ==
    /\ rc[r].at = "recorded"
    /\ mode' = IF rc[r].forced THEN "MANAGE_ONLY" ELSE mode
    /\ rc' = [rc EXCEPT ![r] = RcIdle]
    /\ UNCHANGED <<killSwitch, book, broker, uw, mg, outran>>

\* The database fails in one of the two transactions, and run_job catches it.
ReconcileRaises(r) ==
    /\ rc[r].at # "idle"
    /\ rc' = [rc EXCEPT ![r] = RcIdle]
    /\ UNCHANGED <<config, book, broker, uw, mg, outran>>

Reconcile(r) ==
    \/ ReadPositions(r)
    \/ RecordReconciliation(r)
    \/ ForceManageOnly(r)
    \/ ReconcileRaises(r)

(***************************************************************************)
(* The operator, the process, the broker                                   *)
(***************************************************************************)
SetMode ==
    /\ mode' \in Mode
    /\ mode' = "HALT" => "HALT" \in OperatorMay
    /\ UNCHANGED <<killSwitch, book, broker, uw, mg, rc, outran>>

SetKillSwitch ==
    /\ "kill switch" \in OperatorMay
    /\ killSwitch' = ~killSwitch
    /\ outran' = 0
    /\ UNCHANGED <<mode, book, broker, uw, mg, rc>>

\* request_close: a policy that can be reconstructed is put to the Kernel and
\* the verdict recorded; transmitting it is left to management.
RequestClose(p) ==
    /\ "close" \in OperatorMay
    /\ policies[p] \in Managed
    /\ mode # "HALT"
    /\ ~killSwitch
    /\ exitVerdicts' = exitVerdicts \cup {p}
    /\ UNCHANGED <<config, verdicts, policies, alarms, broker, uw, mg, rc, outran>>

\* The process dies anywhere and boots again (ensure_system_config): what the
\* jobs carried is gone, what was committed or transmitted is not.
Restart ==
    /\ mode' = "MANAGE_ONLY"
    /\ uw' = UwIdle
    /\ mg' = MgIdle
    /\ rc' = [r \in Reconcilers |-> RcIdle]
    /\ UNCHANGED <<killSwitch, book, broker, outran>>

\* A live order fills a contract, or stops working with what it has.
FillOrEnd(o) ==
    {[filled |-> o.filled + 1,
      state |-> IF o.filled + 1 = Contracts THEN "over" ELSE "live"],
     [o EXCEPT !.state = "over"]}

Broker(p) ==
    /\ \/ /\ entry[p].state = "live"
          /\ \E o \in FillOrEnd(entry[p]) : entry' = [entry EXCEPT ![p] = o]
          /\ UNCHANGED exit
       \/ /\ exit[p].state = "live"
          /\ \E o \in FillOrEnd(exit[p]) : exit' = [exit EXCEPT ![p] = o]
          /\ UNCHANGED entry
    /\ UNCHANGED <<config, book, uw, mg, rc, outran>>

Next ==
    \/ Underwrite
    \/ Manage
    \/ \E r \in Reconcilers : Reconcile(r)
    \/ SetMode
    \/ SetKillSwitch
    \/ \E p \in Proposals : RequestClose(p)
    \/ Restart
    \/ \E p \in Proposals : Broker(p)

Spec == Init /\ [][Next]_vars

\* The scheduler starts the reconcile job again and again, and a run of it goes
\* on: every call returns or raises.  However often the process dies or the
\* database fails, time and again all goes well for as long as the three steps
\* take.  Nothing is asked of the operator's requests or of the other jobs.
Fairness ==
    /\ WF_vars(ReadPositions(Scheduled))
    /\ SF_vars(RecordReconciliation(Scheduled))
    /\ SF_vars(ForceManageOnly(Scheduled))

FairSpec == Spec /\ Fairness

(***************************************************************************)
(* Properties                                                              *)
(***************************************************************************)
TypeOK ==
    /\ mode \in Mode
    /\ killSwitch \in BOOLEAN
    /\ verdicts \subseteq Proposals
    /\ exitVerdicts \subseteq Proposals
    /\ policies \in [Proposals -> PolicyStatus]
    /\ alarms \subseteq Symbols
    /\ entry \in [Proposals -> Order]
    /\ exit \in [Proposals -> Order]
    /\ uw \in Underwriting
    /\ mg \in Management
    /\ rc \in [Reconcilers -> Reconciliation]
    /\ outran \in Nat

\* No entry is ever at the broker without its verdict in the database, whatever
\* crashed or failed in between (FR-065, F-11).
EntriesAreRecorded ==
    \A p \in Proposals : entry[p].state # "none" => p \in verdicts

\* The book never invents a position: a policy is there only for a final fill,
\* and its status tells a whole fill from a partial one.
PoliciesAreBacked ==
    \A p \in Proposals :
        /\ policies[p] = "OPEN" => entry[p].filled = Contracts
        /\ policies[p] = "LEG_RISK" =>
              entry[p].state = "over" /\ entry[p].filled \in 1 .. Contracts - 1

\* The desk never closes more than it opened, however often management runs,
\* dies or times out on the same policy: the account is never left short.
NeverOverclosed == \A p \in Proposals : exit[p].filled <= entry[p].filled

\* "Nothing in flight can outrun it by more than one tick": from the moment the
\* kill switch is on, at most one more entry goes out until it is released.
KillSwitchStopsEntries == outran <= 1

Orphans ==
    {s \in Symbols : /\ Position(s) # 0
                     /\ \A p \in Proposals : s \in Legs(p) => policies[p] = "none"}

\* Positions in symbols of no policy come to be reported, all of them, if they
\* do not go away or get a policy first (F-19).  An entry that a crash, a late
\* fill or a wrong report lost comes to light by a symbol that is its own.
OrphansAreFound == Orphans # {} ~> Orphans \subseteq alarms

\* While there is such a position no crash keeps the desk trading for good: it
\* comes to MANAGE_ONLY, from which only an operator takes it (F-19, F-25).
OrphansStopEntries == Orphans # {} ~> mode = "MANAGE_ONLY" \/ Orphans = {}

\* A partly filled entry, which nothing manages and whose reserve the rules do
\* not see, stops new entries in the end: DB-INV-1 breaks on it (F-13, F-25).
LegRiskStopsEntries ==
    (\E p \in Proposals : policies[p] = "LEG_RISK") ~> mode = "MANAGE_ONLY"

Promise == INSTANCE Book WITH
    approved <- verdicts,
    opened <- [p \in Proposals |-> entry[p].filled],
    closed <- [p \in Proposals |-> exit[p].filled],
    policy <- policies

\* Jobs, operator, broker and crashes together implement the promise: verdict,
\* position, policy in this order, a policy written once and for a position
\* that has settled, and only whole ones ever closed.
ImplementsBook == Promise!Spec

\* Every order of the desk, an entry's or an exit's, as Execution sees it: a
\* permit of its own, and what was taken under it.
OrderOf(side, p, o) == [hash |-> <<side, p>>, qty |-> Contracts, filled |-> o.filled]
Sent(side, orders) ==
    {OrderOf(side, p, orders[p]) : p \in {q \in Proposals : orders[q].state # "none"}}

Permits == INSTANCE Exposure WITH
    Proposals <- {"entry", "exit"} \X Proposals,
    MaxContracts <- Contracts,
    book <- Sent("entry", entry) \cup Sent("exit", exit)

\* The orders the desk counts with keep the promise that Execution is shown to
\* keep: one for each entry and each exit, and never filled beyond its size.
ImplementsExposure == Permits!Spec
=============================================================================
