---------------------------- MODULE Underwriting ----------------------------
(***************************************************************************)
(* How a proposal comes about, what is kept of it, and whether it can be   *)
(* recomputed: the underwriting cycle from the reading of the context to   *)
(* the order, with the rows it commits on its way, and the replay of a     *)
(* decision from those rows.                                               *)
(*                                                                         *)
(* Two runners share the database: the scheduled job, and the dry run an   *)
(* operator may start beside it, which ends where the job would trade.     *)
(* One action is one transaction or one external call.  The Kernel is      *)
(* reduced to what it thinks of the proposal itself, plus the freedom to   *)
(* refuse; Desk has the book and the broker.                               *)
(*                                                                         *)
(* A hash is the record of everything that goes into it.                   *)
(***************************************************************************)
EXTENDS Actuary, Sequences

CONSTANTS
    Universe,       \* the underlyings, in the order they are fetched
    Markets,        \* what the data source may answer: quotes with their age,
                    \* daily closes, and whether its clock is in UTC
    KernelLimits,   \* the Kernel's copy of the entry-quality limits
    MaxAge,         \* max_data_age_sec, and SK-018's limit
    Ttl,            \* verdict_ttl_sec
    MaxSchemaAttempts,
    MaxContracts,   \* what the wire schema lets the model ask for
    MaxTime,        \* bound: the clock stops here
    MaxCycles       \* bound: no further cycle is started

ASSUME TimesAssumption == MaxAge \in Nat /\ Ttl \in Nat /\ MaxTime \in Nat
ASSUME CountsAssumption ==
    MaxSchemaAttempts \in Nat \ {0} /\ MaxContracts \in Nat /\ MaxCycles \in Nat
ASSUME KernelLimitsAssumption ==
    KernelLimits \in [dteMin : Nat, spread : Nat, edge : Nat, liquidity : Nat]
ASSUME MarketsAssumption ==
    \A m \in Markets :
        /\ m.utc \in BOOLEAN
        /\ m.closes \in [DOMAIN m.closes -> Int]
        /\ \A q \in m.quotes :
              /\ q.age \in Nat
              /\ {q.strike, q.dte, q.bid, q.ask, q.delta, q.liquidity} \subseteq Int

Contract(q) == <<q.underlying, q.dte, q.strike>>

\* A chain is keyed by the contracts' symbols: it quotes each of them once.
ASSUME ChainsAssumption ==
    \A m \in Markets : \A p, q \in m.quotes : Contract(p) = Contract(q) => p = q

VARIABLES
    clock,
    begun,          \* how many cycles have started
    cycle,          \* cycle[r]: where runner r is, and the locals of its cycle
    snapshots,      \* market_snapshots
    candidates,     \* candidates with accepted = 1
    decisions,      \* underwriting_decisions
    verdicts,       \* kernel_decisions
    authorised,     \* orders the engine was let send
    mismatches      \* REPLAY_MISMATCH risk events

vars == <<clock, begun, cycle, snapshots, candidates, decisions, verdicts,
          authorised, mismatches>>
rows == <<snapshots, candidates, decisions, verdicts>>

Job == "job"
DryRun == "dry run"
Runners == {Job, DryRun}

None == "none"

(***************************************************************************)
(* Hashes and rows                                                         *)
(***************************************************************************)
\* What snapshot_hash covers is all of a snapshot.
SnapshotHash(s) == s

\* What proposal_hash covers of a proposal: not all of its figures.
ProposalHash(p) ==
    [underlying |-> p.underlying, dte |-> p.dte, short |-> p.short,
     long |-> p.long, credit |-> p.credit, maxLoss |-> p.maxLoss,
     snapshot |-> p.snapshot]

\* candidate_id_for
CandidateId(p) ==
    [underlying |-> p.underlying, dte |-> p.dte, short |-> p.short,
     long |-> p.long, snapshot |-> p.snapshot]

Price(s) == PricePutCreditSpreads(s.quotes, SnapshotHash(s))

\* The underlyings with a price, of which a row has room for the first.
Priced(s) == DOMAIN s.prices
FirstPriced(s) ==
    {u \in Priced(s) :
        \E i \in DOMAIN Universe :
            u = Universe[i] /\ \A j \in 1 .. i - 1 : Universe[j] \notin Priced(s)}

\* Whether a contract was tradable is not in chain_json.
AsTradable(q) == [q EXCEPT !.faults = @ \ {"NOT_TRADABLE"}]

\* recorder.snapshot: one price, no tradability, the time in UTC.
SnapshotRow(s) ==
    [hash |-> SnapshotHash(s), asOf |-> s.asOf,
     prices |-> [u \in FirstPriced(s) |-> s.prices[u]],
     quotes |-> {AsTradable(q) : q \in s.quotes}]

\* Mutant: a quote comes back as of the snapshot instead of its own time.
RebuildWithOneTime(row) ==
    [asOf |-> row.asOf, utc |-> TRUE, prices |-> row.prices,
     quotes |-> {[q EXCEPT !.at = row.asOf] : q \in row.quotes}]

\* rebuild_snapshot
Rebuild(row) ==
    [asOf |-> row.asOf, utc |-> TRUE, prices |-> row.prices, quotes |-> row.quotes]

(***************************************************************************)
(* Cycles                                                                  *)
(***************************************************************************)
Idle ==
    [step |-> "idle", id |-> 0, contextAt |-> 0, snapshot |-> None,
     offered |-> {}, attempt |-> 0, decision |-> None, verdict |-> None]

Init ==
    /\ clock = 0
    /\ begun = 0
    /\ cycle = [r \in Runners |-> Idle]
    /\ snapshots = {} /\ candidates = {}
    /\ decisions = {} /\ verdicts = {}
    /\ authorised = {}
    /\ mismatches = {}

Tick ==
    /\ clock < MaxTime
    /\ clock' = clock + 1
    /\ UNCHANGED <<begun, cycle, rows, authorised, mismatches>>

\* The job's tick or the operator's request: the context is read.
Start(r) ==
    /\ cycle[r].step = "idle"
    /\ begun < MaxCycles
    /\ begun' = begun + 1
    /\ cycle' = [cycle EXCEPT ![r] =
                    [Idle EXCEPT !.step = "fetching", !.id = begun + 1,
                                 !.contextAt = clock]]
    /\ UNCHANGED <<clock, rows, authorised, mismatches>>

\* A tick in a closed market or a blackout window, or of the job in another mode
\* than ACTIVE: the cycle is over before anything is recorded.
NotNow(r) ==
    /\ cycle[r].step = "idle"
    /\ UNCHANGED vars

\* The cycle ends here, for the reason the caller is told: no chain,
\* stale quotes, an exception.  A crash ends both.
End(r) ==
    /\ cycle[r].step # "idle"
    /\ cycle' = [cycle EXCEPT ![r] = Idle]
    /\ UNCHANGED <<clock, begun, rows, authorised, mismatches>>

Crash ==
    /\ \E r \in Runners : cycle[r].step # "idle"
    /\ cycle' = [r \in Runners |-> Idle]
    /\ UNCHANGED <<clock, begun, rows, authorised, mismatches>>

\* A quote of the source, with the time it was made.
QuoteOf(q) ==
    [underlying |-> q.underlying, strike |-> q.strike, dte |-> q.dte,
     bid |-> q.bid, ask |-> q.ask, delta |-> q.delta, faults |-> q.faults,
     liquidity |-> q.liquidity, at |-> clock - q.age]

\* build_snapshot returns one: no quote is older than allowed.
Fetch(r) ==
    /\ cycle[r].step = "fetching"
    /\ \E m \in Markets :
          /\ \A q \in m.quotes : q.age <= MaxAge
          /\ cycle' = [cycle EXCEPT
                          ![r].step = "pricing",
                          ![r].snapshot =
                              [asOf |-> clock, utc |-> m.utc, prices |-> m.closes,
                               quotes |-> {QuoteOf(q) : q \in m.quotes}]]
    /\ UNCHANGED <<clock, begun, rows, authorised, mismatches>>

(***************************************************************************)
(* Pricing, and the model's answer                                         *)
(***************************************************************************)
\* Mutant: the hash leaves the snapshot and the figures out.
SameContract(c, p) ==
    /\ c.proposal.underlying = p.underlying /\ c.proposal.dte = p.dte
    /\ c.proposal.short = p.short /\ c.proposal.long = p.long

\* The row a proposal is found under.
SameCandidate(c, p) == ProposalHash(c.proposal) = ProposalHash(p)

RowOf(p) == CHOOSE c \in candidates : SameCandidate(c, p)

NewCandidates(s, id) ==
    {[proposal |-> p, snapshot |-> SnapshotHash(s), cycle |-> id] :
        p \in {x \in Price(s) : \A c \in candidates : ~SameCandidate(c, x)}}

\* The snapshot and the candidates, each unless it is there already.
RecordInputs(r) ==
    LET s == cycle[r].snapshot IN
    /\ cycle[r].step = "pricing"
    /\ snapshots' = snapshots \cup {SnapshotRow(s)}
    /\ candidates' = candidates \cup NewCandidates(s, cycle[r].id)
    /\ cycle' = [cycle EXCEPT
                    ![r] = IF Price(s) = {} THEN Idle
                           ELSE [@ EXCEPT !.step = "asking", !.offered = Price(s)]]
    /\ UNCHANGED <<clock, begun, decisions, verdicts, authorised, mismatches>>

Offered(r) == {CandidateId(p) : p \in cycle[r].offered}

\* What a model may name: something offered, now or before, or nothing at all.
Nameable(r) ==
    {{i} : i \in Offered(r) \cup {CandidateId(c.proposal) : c \in candidates}} \cup {{}}

\* Any other answer has the same fate as the ones that name a wrong candidate.
Answers(r) ==
    [action : {"WRITE"}, candidate : Nameable(r), contracts : 1 .. MaxContracts]
        \cup [action : {"DECLINE"}, candidate : Nameable(r), contracts : {0}]

\* Mutant: the candidate only has to be one that was ever offered.
ValidIfKnown(r, a) ==
    \/ a.candidate # {}
    \/ a.action = "DECLINE"

\* The schema, and validate_semantics.
Valid(r, a) ==
    /\ a.candidate \subseteq Offered(r)
    /\ a.action = "WRITE" => a.candidate # {}

Decision(a, valid) ==
    [action |-> a.action, candidate |-> a.candidate, contracts |-> a.contracts,
     valid |-> valid]

\* An aborted call is recorded as a decline.
Aborted == [action |-> "DECLINE", candidate |-> {}, contracts |-> 0, valid |-> FALSE]

Answer(r) ==
    /\ cycle[r].step = "asking"
    /\ \E a \in {b \in Answers(r) : Valid(r, b)} :
          cycle' = [cycle EXCEPT ![r].step = "decided",
                                 ![r].decision = Decision(a, TRUE)]
    /\ UNCHANGED <<clock, begun, rows, authorised, mismatches>>

\* An answer that is not valid: the model is asked once more, then the cycle
\* gives up.
BadAnswer(r) ==
    /\ cycle[r].step = "asking"
    /\ cycle' = [cycle EXCEPT
                    ![r] = IF @.attempt + 1 < MaxSchemaAttempts
                           THEN [@ EXCEPT !.attempt = cycle[r].attempt + 1]
                           ELSE [@ EXCEPT !.step = "decided", !.decision = Aborted]]
    /\ UNCHANGED <<clock, begun, rows, authorised, mismatches>>

\* Neither model can be reached, at either attempt.
ProviderUnavailable(r) ==
    /\ cycle[r].step = "asking"
    /\ cycle' = [cycle EXCEPT ![r].step = "decided", ![r].decision = Aborted]
    /\ UNCHANGED <<clock, begun, rows, authorised, mismatches>>

\* The proposal a WRITE selects; by_id.get() finds none for anything else.
Selected(r) ==
    {p \in cycle[r].offered :
        cycle[r].decision.action = "WRITE" /\ CandidateId(p) \in cycle[r].decision.candidate}

SelectedRow(r) == {RowOf(p) : p \in Selected(r)}

DecisionRow(r) ==
    [cycle |-> cycle[r].id, action |-> cycle[r].decision.action,
     candidate |-> SelectedRow(r), contracts |-> cycle[r].decision.contracts,
     valid |-> cycle[r].decision.valid]

\* Mutant: the decision is acted on before it is written.
DecideUnrecorded(r) ==
    /\ cycle[r].step = "decided"
    /\ cycle' = [cycle EXCEPT
                    ![r] = IF Selected(r) = {} THEN Idle
                           ELSE [@ EXCEPT !.step = "adjudicating"]]
    /\ UNCHANGED <<clock, begun, rows, authorised, mismatches>>

RecordDecision(r) ==
    /\ cycle[r].step = "decided"
    /\ decisions' = decisions \cup {DecisionRow(r)}
    /\ cycle' = [cycle EXCEPT
                    ![r] = IF Selected(r) = {} THEN Idle
                           ELSE [@ EXCEPT !.step = "adjudicating"]]
    /\ UNCHANGED <<clock, begun, snapshots, candidates, verdicts, authorised, mismatches>>

(***************************************************************************)
(* The Kernel and the engine                                               *)
(***************************************************************************)
\* The rules that look at nothing but the proposal: SK-011, SK-014, SK-015 and
\* SK-016.
EntryQuality(p) ==
    /\ p.dte >= KernelLimits.dteMin
    /\ p.liquidity >= KernelLimits.liquidity
    /\ \A i \in DOMAIN p.legs : Tight(p.legs[i], KernelLimits.spread)
    /\ p.value >= KernelLimits.edge * p.maxLoss

\* `issued` is when the context was read, whatever the time is now.
Verdict(approved, contracts, issued, quality) ==
    [approved |-> approved, contracts |-> contracts, issued |-> issued,
     quality |-> quality]

\* The rest of the rules may refuse, or permit less.
MayAnswer(p, requested, issued) ==
    {Verdict(FALSE, 0, issued, EntryQuality(p))}
        \cup {Verdict(TRUE, n, issued, TRUE) : n \in {m \in 1 .. requested : EntryQuality(p)}}

\* Mutant: the verdict is issued at the time of the adjudication.
AdjudicateNow(r) ==
    /\ cycle[r].step = "adjudicating"
    /\ \E p \in Selected(r) :
          \E v \in MayAnswer(p, cycle[r].decision.contracts, clock) :
              cycle' = [cycle EXCEPT ![r].step = "adjudicated", ![r].verdict = v]
    /\ UNCHANGED <<clock, begun, rows, authorised, mismatches>>

Adjudicate(r) ==
    /\ cycle[r].step = "adjudicating"
    /\ \E p \in Selected(r) :
          \E v \in MayAnswer(p, cycle[r].decision.contracts, cycle[r].contextAt) :
              cycle' = [cycle EXCEPT ![r].step = "adjudicated", ![r].verdict = v]
    /\ UNCHANGED <<clock, begun, rows, authorised, mismatches>>

VerdictRow(r) ==
    [cycle |-> cycle[r].id, candidate |-> SelectedRow(r), decision |-> DecisionRow(r),
     verdict |-> cycle[r].verdict]

\* Only the job has an execution engine.
RecordVerdict(r) ==
    /\ cycle[r].step = "adjudicated"
    /\ verdicts' = verdicts \cup {VerdictRow(r)}
    /\ cycle' = [cycle EXCEPT
                    ![r] = IF r = Job /\ @.verdict.approved
                           THEN [@ EXCEPT !.step = "executing"] ELSE Idle]
    /\ UNCHANGED <<clock, begun, snapshots, candidates, decisions, authorised, mismatches>>

\* authorize() lets the order through; a verdict past its time raises, and the
\* cycle ends.
Execute(r) ==
    /\ cycle[r].step = "executing"
    /\ clock <= cycle[r].verdict.issued + Ttl
    /\ authorised' = authorised \cup
          {[cycle |-> cycle[r].id, proposal |-> p, contracts |-> cycle[r].verdict.contracts,
            at |-> clock] : p \in Selected(r)}
    /\ cycle' = [cycle EXCEPT ![r] = Idle]
    /\ UNCHANGED <<clock, begun, rows, mismatches>>

(***************************************************************************)
(* Replay                                                                  *)
(***************************************************************************)
\* The figures replay_decision compares.
SameFigures(p, q) ==
    /\ p.credit = q.credit /\ p.maxLoss = q.maxLoss /\ p.value = q.value
    /\ p.liquidity = q.liquidity /\ p.delta = q.delta

\* The stored chain hashes to what was recorded, and prices to the candidate.
Reproduces(row, c) ==
    LET s == Rebuild(row) IN
    /\ SnapshotHash(s) = row.hash
    /\ \E p \in Price(s) : SameCandidate(c, p) /\ SameFigures(c.proposal, p)

\* A replay of a recorded verdict that does not come out the same.  One that
\* does, and one of a verdict without its rows, leaves nothing behind.
Replay ==
    /\ \E v \in verdicts : \E c \in v.candidate : \E row \in snapshots :
          /\ row.hash = c.snapshot
          /\ ~Reproduces(row, c)
          /\ mismatches' = mismatches \cup {v}
    /\ UNCHANGED <<clock, begun, cycle, rows, authorised>>

Next ==
    \/ Tick
    \/ \E r \in Runners :
          \/ NotNow(r) \/ Start(r) \/ Fetch(r) \/ RecordInputs(r)
          \/ Answer(r) \/ BadAnswer(r) \/ ProviderUnavailable(r)
          \/ RecordDecision(r) \/ Adjudicate(r) \/ RecordVerdict(r) \/ Execute(r)
          \/ End(r)
    \/ Crash
    \/ Replay

Spec == Init /\ [][Next]_vars

(***************************************************************************)
(* Properties                                                              *)
(***************************************************************************)
Steps == {"idle", "fetching", "pricing", "asking", "decided", "adjudicating",
          "adjudicated", "executing"}

DecisionTypeOK(d) ==
    /\ d.action \in {"WRITE", "DECLINE"}
    /\ d.contracts \in 0 .. MaxContracts
    /\ d.valid \in BOOLEAN

VerdictTypeOK(v) ==
    /\ v.approved \in BOOLEAN /\ v.quality \in BOOLEAN
    /\ v.contracts \in 0 .. MaxContracts
    /\ v.issued \in 0 .. MaxTime

\* Every variable has its type; the rows of one table refer to rows of another.
TypeOK ==
    /\ clock \in 0 .. MaxTime
    /\ begun \in 0 .. MaxCycles
    /\ \A r \in Runners :
          /\ cycle[r].step \in Steps
          /\ cycle[r].id \in 0 .. begun
          /\ cycle[r].contextAt \in 0 .. clock
          /\ cycle[r].attempt \in 0 .. MaxSchemaAttempts - 1
    /\ \A d \in decisions : DecisionTypeOK(d) /\ d.candidate \subseteq candidates
    /\ \A v \in verdicts :
          /\ VerdictTypeOK(v.verdict)
          /\ v.decision \in decisions /\ v.candidate \subseteq candidates
    /\ \A o \in authorised : o.at \in 0 .. clock /\ o.contracts \in 1 .. MaxContracts
    /\ mismatches \subseteq verdicts

\* NFR-008: an order the engine was let send can be traced through committed
\* rows: one approval of its cycle for as many contracts, on a decision of that
\* cycle that asked for no fewer, for a candidate that the stored chain prices.
OrdersAreTraceable ==
    \A o \in authorised :
        \E v \in verdicts :
            /\ v.cycle = o.cycle
            /\ v.verdict.approved /\ v.verdict.contracts = o.contracts
            /\ v.decision \in decisions
            /\ v.decision.cycle = o.cycle /\ v.decision.valid
            /\ v.decision.contracts >= o.contracts
            /\ v.decision.candidate = v.candidate
            /\ \E c \in v.candidate : \E row \in snapshots :
                  /\ c.proposal = o.proposal
                  /\ row.hash = c.snapshot
                  /\ o.proposal \in PricePutCreditSpreads(row.quotes, row.hash)

\* FR-040: whatever the model answers, a decision recorded as a WRITE names one
\* candidate on record, and so does the verdict on it.
WritesNameACandidate ==
    \A d \in decisions :
        d.action = "WRITE" => d.valid /\ \E c \in candidates : d.candidate = {c}

\* The quotes behind an order are never older than the two clocks together
\* allow: the age they were fetched with, and the life of a verdict, which
\* starts before the fetch, with the reading of the context.
OrdersUseRecentQuotes ==
    \A o \in authorised : \A i \in DOMAIN o.proposal.legs :
        o.at - o.proposal.legs[i].at <= MaxAge + Ttl

\* What the Actuary lets through is never refused for what it is: the two sets
\* of thresholds agree, so a refusal is about the book or the desk.
PricedIsAdjudicable == \A v \in verdicts : v.verdict.quality

\* What a row keeps of a snapshot is all there was of it.
Storable(s) ==
    /\ s.utc
    /\ Priced(s) = FirstPriced(s)
    /\ \A q \in s.quotes : q = AsTradable(q)

\* A replay raises no false alarm over a snapshot that its row can hold.
StoredIsReproduced ==
    \A v \in mismatches : \A c \in v.candidate : ~Storable(c.snapshot)
=============================================================================
