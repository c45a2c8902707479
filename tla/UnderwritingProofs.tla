------------------------- MODULE UnderwritingProofs -------------------------
(***************************************************************************)
(* Proofs about Underwriting: what a cycle commits refers to what was      *)
(* committed before, whatever the chains, thresholds and answers, and      *)
(* whichever other cycle writes to the same tables.                        *)
(*                                                                         *)
(* The invariant follows a cycle from step to step: what it has fetched,   *)
(* recorded, decided and been told.  Its parts are operators of a cycle    *)
(* and of the tables they look at, so that a step of one runner is seen at *)
(* once to keep the other's: tables only grow.                             *)
(***************************************************************************)
EXTENDS Underwriting, TLAPS

\* The Kernel asks no more of an opening than the Actuary does.
KernelIsNoStricter ==
    /\ KernelLimits.dteMin <= Thresholds.dteMin
    /\ KernelLimits.liquidity <= Thresholds.liquidity
    /\ KernelLimits.spread >= Thresholds.spread
    /\ KernelLimits.edge <= Thresholds.edge

(***************************************************************************)
(* A snapshot, and what is priced from it                                  *)
(***************************************************************************)
QuoteIsSound(q) ==
    /\ q = [underlying |-> q.underlying, strike |-> q.strike, dte |-> q.dte,
            bid |-> q.bid, ask |-> q.ask, delta |-> q.delta, faults |-> q.faults,
            liquidity |-> q.liquidity, at |-> q.at]
    /\ q.strike \in Int /\ q.dte \in Int /\ q.bid \in Int /\ q.ask \in Int
    /\ q.delta \in Int /\ q.liquidity \in Int /\ q.at \in Int

\* What Fetch leaves behind: a chain that quotes every contract once.
Sound(s) ==
    /\ s = [asOf |-> s.asOf, utc |-> s.utc, prices |-> s.prices, quotes |-> s.quotes]
    /\ s.utc \in BOOLEAN
    /\ s.prices \in [DOMAIN s.prices -> Int]
    /\ \A q \in s.quotes : QuoteIsSound(q)
    /\ \A p, q \in s.quotes : Contract(p) = Contract(q) => p = q

\* A priced proposal is one of two usable quotes that pair and are accepted.
LEMMA PricedFromTwoQuotes ==
    ASSUME NEW quotes, NEW hash, NEW p
    PROVE  p \in PricePutCreditSpreads(quotes, hash) <=>
              \E short, long \in quotes :
                  /\ Usable(short) /\ Usable(long)
                  /\ Paired(short, long) /\ Accepted(short, long)
                  /\ p = Proposal(short, long, hash)
<1>1. ASSUME NEW short \in quotes, NEW long \in quotes,
             Usable(short), Usable(long), Paired(short, long), Accepted(short, long),
             p = Proposal(short, long, hash)
      PROVE  p \in PricePutCreditSpreads(quotes, hash)
  <2>1. <<short, long>> \in Pairs(quotes)
    BY <1>1 DEF Pairs, UsableQuotes
  <2>. QED
    BY <1>1, <2>1 DEF PricePutCreditSpreads
<1>2. ASSUME p \in PricePutCreditSpreads(quotes, hash)
      PROVE  \E short, long \in quotes :
                  /\ Usable(short) /\ Usable(long)
                  /\ Paired(short, long) /\ Accepted(short, long)
                  /\ p = Proposal(short, long, hash)
  <2>1. PICK pair \in Pairs(quotes) :
             Accepted(pair[1], pair[2]) /\ p = Proposal(pair[1], pair[2], hash)
    BY <1>2 DEF PricePutCreditSpreads
  <2>2. /\ pair[1] \in quotes /\ pair[2] \in quotes
        /\ Usable(pair[1]) /\ Usable(pair[2]) /\ Paired(pair[1], pair[2])
    BY <2>1 DEF Pairs, UsableQuotes
  <2>. QED
    BY <2>1, <2>2
<1>. QED
  BY <1>1, <1>2

\* The strikes and the expiry tell two proposals of one chain apart.
LEMMA ContractsTellApart ==
    ASSUME NEW s, Sound(s), NEW p \in Price(s), NEW q \in Price(s),
           p.underlying = q.underlying, p.dte = q.dte, p.short = q.short,
           p.long = q.long
    PROVE  p = q
<1>1. PICK ps, pl \in s.quotes : Paired(ps, pl) /\ p = Proposal(ps, pl, s)
  BY PricedFromTwoQuotes DEF Price, SnapshotHash
<1>2. PICK qs, ql \in s.quotes : Paired(qs, ql) /\ q = Proposal(qs, ql, s)
  BY PricedFromTwoQuotes DEF Price, SnapshotHash
<1>3. Contract(ps) = Contract(qs) /\ Contract(pl) = Contract(ql)
  BY <1>1, <1>2 DEF Proposal, Paired, Contract
<1>4. ps = qs /\ pl = ql
  BY <1>3 DEF Sound
<1>. QED
  BY <1>1, <1>2, <1>4

\* So do their hashes and ids, which cover the snapshot, over all chains.
LEMMA HashesTellApart ==
    ASSUME NEW s, NEW t, Sound(s), NEW p \in Price(s), NEW q \in Price(t),
           ProposalHash(p) = ProposalHash(q) \/ CandidateId(p) = CandidateId(q)
    PROVE  p = q
<1>1. /\ p.snapshot = q.snapshot /\ p.underlying = q.underlying /\ p.dte = q.dte
      /\ p.short = q.short /\ p.long = q.long
  BY DEF ProposalHash, CandidateId
<1>2. p.snapshot = s /\ q.snapshot = t
  BY PricedFromTwoQuotes DEF Price, SnapshotHash, Proposal
<1>. QED
  BY <1>1, <1>2, ContractsTellApart

LEMMA PricedHasItsSnapshot ==
    ASSUME NEW s, NEW p \in Price(s)
    PROVE  /\ p.snapshot = s
           /\ \A i \in DOMAIN p.legs : p.legs[i] \in s.quotes
BY PricedFromTwoQuotes DEF Price, SnapshotHash, Proposal

\* The row keeps every quote a proposal was priced from.
LEMMA RowStillPrices ==
    ASSUME NEW s, Sound(s), NEW p \in Price(s)
    PROVE  p \in PricePutCreditSpreads(SnapshotRow(s).quotes, SnapshotRow(s).hash)
<1>1. PICK short, long \in s.quotes :
          /\ Usable(short) /\ Usable(long)
          /\ Paired(short, long) /\ Accepted(short, long)
          /\ p = Proposal(short, long, s)
  BY PricedFromTwoQuotes DEF Price, SnapshotHash
<1>2. ASSUME NEW q \in s.quotes, Usable(q)
      PROVE  q \in SnapshotRow(s).quotes
  <2>1. q.faults = {} /\ QuoteIsSound(q)
    BY <1>2 DEF Usable, Sound
  <2>2. AsTradable(q) = q
    BY <2>1 DEF AsTradable, QuoteIsSound
  <2>. QED
    BY <2>2 DEF SnapshotRow
<1>3. SnapshotRow(s).hash = s
  BY DEF SnapshotRow, SnapshotHash
<1>4. short \in SnapshotRow(s).quotes /\ long \in SnapshotRow(s).quotes
  BY <1>1, <1>2
<1>. QED
  BY <1>1, <1>3, <1>4, PricedFromTwoQuotes

\* The row of a snapshot it can hold gives all of it back.
LEMMA RowGivesBack ==
    ASSUME NEW s, Sound(s), Storable(s)
    PROVE  Rebuild(SnapshotRow(s)) = s
<1>1. SnapshotRow(s).prices = s.prices
  BY DEF SnapshotRow, Storable, Priced, Sound
<1>2. SnapshotRow(s).quotes = s.quotes
  <2>1. \A q \in s.quotes : AsTradable(q) = q
    BY DEF Storable
  <2>. QED
    BY <2>1 DEF SnapshotRow
<1>3. s.utc = TRUE /\ SnapshotRow(s).asOf = s.asOf
  BY DEF Storable, Sound, SnapshotRow
<1>. QED
  BY <1>1, <1>2, <1>3 DEF Rebuild, Sound

\* What the Actuary accepts passes the Kernel's rules on entry quality.
LEMMA PricedPassesEntryQuality ==
    ASSUME KernelIsNoStricter, NEW s, Sound(s), NEW p \in Price(s)
    PROVE  EntryQuality(p)
<1>1. PICK short, long \in s.quotes :
          /\ Usable(short) /\ Usable(long)
          /\ Paired(short, long) /\ Accepted(short, long)
          /\ p = Proposal(short, long, s)
  BY PricedFromTwoQuotes DEF Price, SnapshotHash
<1>2. /\ Thresholds.dteMin \in Nat /\ Thresholds.liquidity \in Nat
      /\ Thresholds.spread \in Nat /\ Thresholds.edge \in Nat
      /\ KernelLimits.dteMin \in Nat /\ KernelLimits.liquidity \in Nat
      /\ KernelLimits.spread \in Nat /\ KernelLimits.edge \in Nat
  BY ThresholdsAssumption, KernelLimitsAssumption
<1>3. QuoteIsSound(short) /\ QuoteIsSound(long)
  BY DEF Sound
<1>4. p.dte >= KernelLimits.dteMin
  BY <1>1, <1>2, <1>3 DEF KernelIsNoStricter, Usable, Within, Proposal, QuoteIsSound
<1>5. p.liquidity >= KernelLimits.liquidity
  BY <1>1, <1>2, <1>3 DEF KernelIsNoStricter, Accepted, Liquidity, Lesser, Proposal,
                          QuoteIsSound
<1>6. ASSUME NEW q, QuoteIsSound(q), Usable(q)
      PROVE  Tight(q, KernelLimits.spread)
  <2>. DEFINE sides == q.bid + q.ask
  <2>1. sides \in Nat
    BY <1>6 DEF Usable, QuoteIsSound
  <2>2. 200 * (q.ask - q.bid) <= Thresholds.spread * sides
    BY <1>6 DEF Usable, Tight
  <2>3. 200 * (q.ask - q.bid) \in Int
    BY <1>6 DEF QuoteIsSound
  <2>. HIDE DEF sides
  <2>4. Thresholds.spread * sides <= KernelLimits.spread * sides
    BY <1>2, <2>1 DEF KernelIsNoStricter
  <2>5. Thresholds.spread * sides \in Int /\ KernelLimits.spread * sides \in Int
    BY <1>2, <2>1
  <2>6. 200 * (q.ask - q.bid) <= KernelLimits.spread * sides
    BY <2>2, <2>3, <2>4, <2>5
  <2>. QED
    BY <2>6 DEF Tight, sides
<1>7. \A i \in DOMAIN p.legs : Tight(p.legs[i], KernelLimits.spread)
  <2>1. p.legs = <<short, long>>
    BY <1>1 DEF Proposal
  <2>. QED
    BY <1>1, <1>3, <1>6, <2>1
<1>8. p.value >= KernelLimits.edge * p.maxLoss
  <2>. DEFINE loss == MaxLoss(short, long)
              value == ExpectedValue(short, long)
  <2>1. p.maxLoss = loss /\ p.value = value
    BY <1>1 DEF Proposal
  <2>2. loss \in Nat /\ value \in Int
    BY <1>1, <1>3 DEF Accepted, MaxLoss, ExpectedValue, NetCredit, Width, QuoteIsSound
  <2>3. value >= Thresholds.edge * loss
    BY <1>1 DEF Accepted
  <2>. HIDE DEF loss, value
  <2>4. /\ Thresholds.edge * loss \in Int /\ KernelLimits.edge * loss \in Int
        /\ KernelLimits.edge * loss <= Thresholds.edge * loss
    BY <1>2, <2>2 DEF KernelIsNoStricter
  <2>. QED
    BY <2>1, <2>2, <2>3, <2>4
<1>. QED
  BY <1>4, <1>5, <1>7, <1>8 DEF EntryQuality

(***************************************************************************)
(* The invariant: one cycle                                                *)
(***************************************************************************)
Fetched == {"pricing", "asking", "decided", "adjudicating", "adjudicated", "executing"}
Offering == Fetched \ {"pricing"}
Deciding == Offering \ {"asking"}
Committed == {"adjudicating", "adjudicated", "executing"}
Judged == {"adjudicated", "executing"}

Located(c, now, started) ==
    /\ DOMAIN c = {"step", "id", "contextAt", "snapshot", "offered", "attempt",
                   "decision", "verdict"}
    /\ c.step \in Steps
    /\ c.id \in 0 .. started
    /\ c.contextAt \in 0 .. now
    /\ c.attempt \in 0 .. MaxSchemaAttempts - 1

\* It has a chain no older than MaxAge when the context was read.
HasQuotes(c) ==
    c.step \in Fetched =>
        /\ Sound(c.snapshot)
        /\ \A q \in c.snapshot.quotes : q.at >= c.contextAt - MaxAge

\* Its snapshot and every candidate it offers are on record.
HasInputs(c, snaps, cands) ==
    c.step \in Offering =>
        /\ c.offered = Price(c.snapshot)
        /\ SnapshotRow(c.snapshot) \in snaps
        /\ \A p \in c.offered : \E k \in cands : k.proposal = p

\* A write is valid, and names one of what it offers.
HasDecision(c) ==
    c.step \in Deciding =>
        /\ DecisionTypeOK(c.decision)
        /\ c.decision.action = "WRITE" =>
              /\ c.decision.valid
              /\ \E p \in c.offered : c.decision.candidate = {CandidateId(p)}

\* k is the candidate that c decided on, which is a write.
DecidedOn(c, k) ==
    /\ c.decision.action = "WRITE"
    /\ k.proposal \in c.offered
    /\ c.decision.candidate = {CandidateId(k.proposal)}

DecisionOn(c, k) ==
    [cycle |-> c.id, action |-> c.decision.action, candidate |-> {k},
     contracts |-> c.decision.contracts, valid |-> c.decision.valid]

VerdictOn(c, k) ==
    [cycle |-> c.id, candidate |-> {k}, decision |-> DecisionOn(c, k),
     verdict |-> c.verdict]

HasDecisionRow(c, cands, decs) ==
    c.step \in Committed => \E k \in cands : DecidedOn(c, k) /\ DecisionOn(c, k) \in decs

\* The verdict is as old as the context, and for no more than was asked.
HasVerdict(c) ==
    c.step \in Judged =>
        /\ VerdictTypeOK(c.verdict)
        /\ c.verdict.issued = c.contextAt
        /\ c.verdict.approved => c.verdict.contracts \in 1 .. c.decision.contracts
        /\ KernelIsNoStricter => c.verdict.quality

HasVerdictRow(c, cands, decs, vers) ==
    c.step = "executing" =>
        /\ c.verdict.approved
        /\ \E k \in cands : /\ DecidedOn(c, k)
                            /\ DecisionOn(c, k) \in decs
                            /\ VerdictOn(c, k) \in vers

CycleIsSound(c, now, started, snaps, cands, decs, vers) ==
    /\ Located(c, now, started)
    /\ HasQuotes(c)
    /\ HasInputs(c, snaps, cands)
    /\ HasDecision(c)
    /\ HasDecisionRow(c, cands, decs)
    /\ HasVerdict(c)
    /\ HasVerdictRow(c, cands, decs, vers)

(***************************************************************************)
(* The invariant: the tables                                               *)
(***************************************************************************)
SnapshotsAreSound(snaps) ==
    \A row \in snaps : Sound(row.hash) /\ row = SnapshotRow(row.hash)

\* A candidate is priced from a snapshot on record, and recorded once.
CandidatesAreSound(cands, snaps) ==
    /\ \A k \in cands :
          /\ Sound(k.snapshot)
          /\ k.proposal \in Price(k.snapshot)
          /\ SnapshotRow(k.snapshot) \in snaps
    /\ \A j, k \in cands : j.proposal = k.proposal => j = k

DecisionsAreSound(decs, cands) ==
    \A d \in decs :
        /\ DecisionTypeOK(d)
        /\ d.candidate \subseteq cands
        /\ d.action = "WRITE" => d.valid /\ \E k \in cands : d.candidate = {k}

VerdictsAreSound(vers, decs, cands) ==
    \A v \in vers :
        /\ VerdictTypeOK(v.verdict)
        /\ v.decision \in decs
        /\ \E k \in cands : v.candidate = {k}
        /\ KernelIsNoStricter => v.verdict.quality

Traceable(o, snaps, decs, vers) ==
    \E v \in vers :
        /\ v.cycle = o.cycle
        /\ v.verdict.approved /\ v.verdict.contracts = o.contracts
        /\ v.decision \in decs
        /\ v.decision.cycle = o.cycle /\ v.decision.valid
        /\ v.decision.contracts >= o.contracts
        /\ v.decision.candidate = v.candidate
        /\ \E c \in v.candidate : \E row \in snaps :
              /\ c.proposal = o.proposal
              /\ row.hash = c.snapshot
              /\ o.proposal \in PricePutCreditSpreads(row.quotes, row.hash)

OrdersAreSound(orders, now, snaps, decs, vers) ==
    \A o \in orders :
        /\ o.at \in 0 .. now
        /\ o.contracts \in 1 .. MaxContracts
        /\ \A i \in DOMAIN o.proposal.legs :
              o.at - o.proposal.legs[i].at <= MaxAge + Ttl
        /\ Traceable(o, snaps, decs, vers)

AlarmsAreSound(alarms, vers) ==
    /\ alarms \subseteq vers
    /\ \A v \in alarms : \A k \in v.candidate : ~Storable(k.snapshot)

IInv ==
    /\ clock \in 0 .. MaxTime
    /\ begun \in 0 .. MaxCycles
    /\ DOMAIN cycle = Runners
    /\ \A r \in Runners :
          CycleIsSound(cycle[r], clock, begun, snapshots, candidates, decisions, verdicts)
    /\ SnapshotsAreSound(snapshots)
    /\ CandidatesAreSound(candidates, snapshots)
    /\ DecisionsAreSound(decisions, candidates)
    /\ VerdictsAreSound(verdicts, decisions, candidates)
    /\ OrdersAreSound(authorised, clock, snapshots, decisions, verdicts)
    /\ AlarmsAreSound(mismatches, verdicts)

(***************************************************************************)
(* What growing tables leave alone                                         *)
(***************************************************************************)
TablesGrow ==
    /\ snapshots \subseteq snapshots' /\ candidates \subseteq candidates'
    /\ decisions \subseteq decisions' /\ verdicts \subseteq verdicts'

CycleNow(r) ==
    CycleIsSound(cycle[r], clock, begun, snapshots, candidates, decisions, verdicts)

CycleNext(r) ==
    CycleIsSound(cycle'[r], clock', begun', snapshots', candidates', decisions',
                 verdicts')

LEMMA UntouchedCycle ==
    ASSUME NEW r, CycleNow(r), TablesGrow, cycle'[r] = cycle[r],
           clock \in Int, clock' \in Int, clock <= clock',
           begun \in Int, begun' \in Int, begun <= begun'
    PROVE  CycleNext(r)
<1>. DEFINE c == cycle[r]
<1>1. Located(c, clock', begun')
  BY DEF CycleNow, CycleIsSound, Located
<1>2. HasInputs(c, snapshots', candidates')
  BY DEF CycleNow, CycleIsSound, HasInputs, TablesGrow
<1>3. HasDecisionRow(c, candidates', decisions')
  BY DEF CycleNow, CycleIsSound, HasDecisionRow, TablesGrow
<1>4. HasVerdictRow(c, candidates', decisions', verdicts')
  BY DEF CycleNow, CycleIsSound, HasVerdictRow, TablesGrow
<1>. QED
  BY <1>1, <1>2, <1>3, <1>4 DEF CycleNow, CycleNext, CycleIsSound

LEMMA IdleIsSound ==
    ASSUME NEW now \in Nat, NEW started \in Nat, NEW snaps, NEW cands, NEW decs, NEW vers
    PROVE  CycleIsSound(Idle, now, started, snaps, cands, decs, vers)
<1>1. Idle.step = "idle"
  BY DEF Idle
<1>2. Located(Idle, now, started)
  BY CountsAssumption DEF Idle, Located, Steps
<1>. QED
  BY <1>1, <1>2 DEF CycleIsSound, HasQuotes, HasInputs, HasDecision, HasDecisionRow,
                    HasVerdict, HasVerdictRow, Fetched, Offering, Deciding, Committed,
                    Judged

\* A step of one runner that leaves time alone keeps every cycle sound, if it
\* keeps its own.
LEMMA OneMoves ==
    ASSUME IInv, NEW r \in Runners, DOMAIN cycle' = Runners,
           \A q \in Runners \ {r} : cycle'[q] = cycle[q],
           TablesGrow, clock' = clock, begun' = begun, CycleNext(r)
    PROVE  \A q \in Runners : CycleNext(q)
<1>. SUFFICES ASSUME NEW q \in Runners, q # r PROVE CycleNext(q)
  OBVIOUS
<1>1. CycleNow(q) /\ cycle'[q] = cycle[q]
  BY DEF IInv, CycleNow
<1>2. clock \in Int /\ begun \in Int
  BY DEF IInv
<1>. QED
  BY <1>1, <1>2, UntouchedCycle

\* The tables hold what they held.
LEMMA TablesStaySound ==
    ASSUME IInv, TablesGrow, clock' = clock
    PROVE  /\ CandidatesAreSound(candidates, snapshots')
           /\ DecisionsAreSound(decisions, candidates')
           /\ VerdictsAreSound(verdicts, decisions', candidates')
           /\ OrdersAreSound(authorised, clock', snapshots', decisions', verdicts')
           /\ AlarmsAreSound(mismatches, verdicts')
<1>1. CandidatesAreSound(candidates, snapshots')
  BY DEF IInv, TablesGrow, CandidatesAreSound
<1>2. DecisionsAreSound(decisions, candidates')
  BY DEF IInv, TablesGrow, DecisionsAreSound
<1>3. VerdictsAreSound(verdicts, decisions', candidates')
  BY DEF IInv, TablesGrow, VerdictsAreSound
<1>4. ASSUME NEW o, Traceable(o, snapshots, decisions, verdicts)
      PROVE  Traceable(o, snapshots', decisions', verdicts')
  <2>1. PICK v \in verdicts :
          /\ v.cycle = o.cycle
          /\ v.verdict.approved /\ v.verdict.contracts = o.contracts
          /\ v.decision \in decisions
          /\ v.decision.cycle = o.cycle /\ v.decision.valid
          /\ v.decision.contracts >= o.contracts
          /\ v.decision.candidate = v.candidate
          /\ \E c \in v.candidate : \E row \in snapshots :
                /\ c.proposal = o.proposal
                /\ row.hash = c.snapshot
                /\ o.proposal \in PricePutCreditSpreads(row.quotes, row.hash)
    BY <1>4 DEF Traceable
  <2>2. v \in verdicts' /\ v.decision \in decisions' /\ snapshots \subseteq snapshots'
    BY <2>1 DEF TablesGrow
  <2>. QED
    BY <2>1, <2>2 DEF Traceable
<1>5. OrdersAreSound(authorised, clock', snapshots', decisions', verdicts')
  BY <1>4 DEF IInv, OrdersAreSound
<1>6. AlarmsAreSound(mismatches, verdicts')
  BY DEF IInv, TablesGrow, AlarmsAreSound
<1>. QED
  BY <1>1, <1>2, <1>3, <1>5, <1>6

\* A step that changes no table and no order, only the cycle of r.
LEMMA OnlyItsCycle ==
    ASSUME IInv, NEW r \in Runners, DOMAIN cycle' = Runners,
           \A q \in Runners \ {r} : cycle'[q] = cycle[q],
           UNCHANGED <<clock, begun, rows, authorised, mismatches>>, CycleNext(r)
    PROVE  IInv'
<1>1. TablesGrow /\ clock' = clock /\ begun' = begun
  BY DEF TablesGrow, rows
<1>2. \A q \in Runners : CycleNext(q)
  BY <1>1, OneMoves
<1>3. /\ SnapshotsAreSound(snapshots')
      /\ CandidatesAreSound(candidates', snapshots')
      /\ DecisionsAreSound(decisions', candidates')
      /\ VerdictsAreSound(verdicts', decisions', candidates')
      /\ OrdersAreSound(authorised', clock', snapshots', decisions', verdicts')
      /\ AlarmsAreSound(mismatches', verdicts')
  BY DEF IInv, rows
<1>. QED
  BY <1>1, <1>2, <1>3 DEF IInv, CycleNext

(***************************************************************************)
(* What a decision stands for                                              *)
(***************************************************************************)
\* The row a proposal on record is found under is the one it was recorded in.
LEMMA RowOfRecorded ==
    ASSUME CandidatesAreSound(candidates, snapshots), NEW k \in candidates
    PROVE  RowOf(k.proposal) = k
<1>. DEFINE j == RowOf(k.proposal)
<1>1. SameCandidate(k, k.proposal)
  BY DEF SameCandidate
<1>2. j \in candidates /\ SameCandidate(j, k.proposal)
  BY <1>1 DEF RowOf
<1>. HIDE DEF j
<1>3. /\ Sound(j.snapshot) /\ j.proposal \in Price(j.snapshot)
      /\ k.proposal \in Price(k.snapshot)
  BY <1>2 DEF CandidatesAreSound
<1>4. ProposalHash(j.proposal) = ProposalHash(k.proposal)
  BY <1>2 DEF SameCandidate
<1>5. j.proposal = k.proposal
  BY <1>3, <1>4, HashesTellApart
<1>. QED
  BY <1>2, <1>5 DEF CandidatesAreSound, j

\* A cycle that decided on k selects nothing else.
LEMMA SelectsOne ==
    ASSUME IInv, NEW r \in Runners, NEW k \in candidates,
           cycle[r].step \in Deciding, DecidedOn(cycle[r], k)
    PROVE  /\ Selected(r) = {k.proposal}
           /\ SelectedRow(r) = {k}
           /\ DecisionRow(r) = DecisionOn(cycle[r], k)
           /\ VerdictRow(r) = VerdictOn(cycle[r], k)
<1>. DEFINE c == cycle[r]
<1>1. CycleNow(r)
  BY DEF IInv, CycleNow
<1>2. c.step \in Fetched /\ c.step \in Offering
  BY DEF Deciding, Offering
<1>3. Sound(c.snapshot) /\ c.offered = Price(c.snapshot)
  BY <1>1, <1>2 DEF CycleNow, CycleIsSound, HasQuotes, HasInputs
<1>4. ASSUME NEW p \in c.offered, CandidateId(p) = CandidateId(k.proposal)
      PROVE  p = k.proposal
  BY <1>3, <1>4, HashesTellApart DEF DecidedOn
<1>5. Selected(r) = {k.proposal}
  BY <1>4 DEF Selected, DecidedOn
<1>6. SelectedRow(r) = {k}
  BY <1>5, RowOfRecorded DEF SelectedRow, IInv
<1>7. DecisionRow(r) = DecisionOn(c, k)
  BY <1>6 DEF DecisionRow, DecisionOn
<1>. QED
  BY <1>5, <1>6, <1>7 DEF VerdictRow, VerdictOn

(***************************************************************************)
(* The steps of a runner                                                   *)
(***************************************************************************)
LEMMA StartKeeps ==
    ASSUME IInv, NEW r \in Runners, Start(r)
    PROVE  IInv'
<1>. DEFINE d == [Idle EXCEPT !.step = "fetching", !.id = begun + 1, !.contextAt = clock]
<1>1. /\ cycle' = [cycle EXCEPT ![r] = d]
      /\ begun' = begun + 1 /\ begun < MaxCycles
      /\ UNCHANGED <<clock, rows, authorised, mismatches>>
  BY DEF Start
<1>2. /\ DOMAIN cycle = Runners /\ begun \in 0 .. MaxCycles /\ clock \in 0 .. MaxTime
  BY DEF IInv
<1>3. begun' \in 0 .. MaxCycles
  BY <1>1, <1>2, CountsAssumption
<1>4. /\ DOMAIN cycle' = Runners /\ cycle'[r] = d
      /\ \A q \in Runners \ {r} : cycle'[q] = cycle[q]
  BY <1>1, <1>2
<1>5. d.step = "fetching"
  BY DEF Idle
<1>6. Located(d, clock', begun')
  BY <1>1, <1>2, CountsAssumption DEF Idle, Located, Steps
<1>. HIDE DEF d
<1>7. CycleNext(r)
  BY <1>4, <1>5, <1>6 DEF CycleNext, CycleIsSound, HasQuotes, HasInputs, HasDecision,
     HasDecisionRow, HasVerdict, HasVerdictRow, Fetched, Offering, Deciding, Committed,
     Judged
<1>8. TablesGrow
  BY <1>1 DEF TablesGrow, rows
<1>9. \A q \in Runners \ {r} : CycleNext(q)
  <2>. SUFFICES ASSUME NEW q \in Runners \ {r} PROVE CycleNext(q)
    OBVIOUS
  <2>1. CycleNow(q)
    BY DEF IInv, CycleNow
  <2>. QED
    BY <1>1, <1>2, <1>4, <1>8, <2>1, UntouchedCycle
<1>10. \A q \in Runners : CycleNext(q)
  BY <1>7, <1>9
<1>11. /\ SnapshotsAreSound(snapshots')
       /\ CandidatesAreSound(candidates', snapshots')
       /\ DecisionsAreSound(decisions', candidates')
       /\ VerdictsAreSound(verdicts', decisions', candidates')
       /\ OrdersAreSound(authorised', clock', snapshots', decisions', verdicts')
       /\ AlarmsAreSound(mismatches', verdicts')
  BY <1>1 DEF IInv, rows
<1>. QED
  BY <1>1, <1>2, <1>3, <1>4, <1>10, <1>11 DEF IInv, CycleNext

\* A cycle that is over holds nothing.
LEMMA EndKeeps ==
    ASSUME IInv, NEW r \in Runners, cycle' = [cycle EXCEPT ![r] = Idle],
           UNCHANGED <<clock, begun, rows, authorised, mismatches>>
    PROVE  IInv'
<1>1. clock' \in Nat /\ begun' \in Nat /\ DOMAIN cycle = Runners
  BY DEF IInv
<1>2. /\ DOMAIN cycle' = Runners /\ cycle'[r] = Idle
      /\ \A q \in Runners \ {r} : cycle'[q] = cycle[q]
  BY <1>1
<1>3. CycleNext(r)
  BY <1>1, <1>2, IdleIsSound DEF CycleNext
<1>. QED
  BY <1>2, <1>3, OnlyItsCycle

\* The source answered with a chain that is fresh enough.
LEMMA FetchedIsSound ==
    ASSUME NEW m \in Markets, NEW s, clock \in Int, NEW now \in Int, now <= clock,
           \A q \in m.quotes : q.age <= MaxAge,
           s = [asOf |-> clock, utc |-> m.utc, prices |-> m.closes,
                quotes |-> {QuoteOf(q) : q \in m.quotes}]
    PROVE  /\ Sound(s)
           /\ \A q \in s.quotes : q.at >= now - MaxAge
<1>1. ASSUME NEW q \in m.quotes
      PROVE  /\ QuoteIsSound(QuoteOf(q))
             /\ QuoteOf(q).at >= now - MaxAge
             /\ Contract(QuoteOf(q)) = Contract(q)
  <2>1. /\ q.age \in Nat /\ q.age <= MaxAge
        /\ q.strike \in Int /\ q.dte \in Int /\ q.bid \in Int /\ q.ask \in Int
        /\ q.delta \in Int /\ q.liquidity \in Int
    BY MarketsAssumption
  <2>2. MaxAge \in Int /\ clock - q.age \in Int
    BY <2>1, TimesAssumption
  <2>. QED
    BY <2>1, <2>2 DEF QuoteOf, QuoteIsSound, Contract
<1>2. \A q \in s.quotes : \E x \in m.quotes : q = QuoteOf(x)
  OBVIOUS
<1>3. \A q \in s.quotes : QuoteIsSound(q) /\ q.at >= now - MaxAge
  BY <1>1, <1>2
<1>4. ASSUME NEW p \in s.quotes, NEW q \in s.quotes, Contract(p) = Contract(q)
      PROVE  p = q
  <2>1. PICK x \in m.quotes, y \in m.quotes : p = QuoteOf(x) /\ q = QuoteOf(y)
    BY <1>2
  <2>2. Contract(x) = Contract(y)
    BY <1>1, <1>4, <2>1
  <2>3. x = y
    BY <2>2, ChainsAssumption
  <2>. QED
    BY <2>1, <2>3
<1>5. /\ s = [asOf |-> s.asOf, utc |-> s.utc, prices |-> s.prices, quotes |-> s.quotes]
      /\ s.utc \in BOOLEAN /\ s.prices \in [DOMAIN s.prices -> Int]
  BY MarketsAssumption
<1>. QED
  BY <1>3, <1>4, <1>5 DEF Sound

LEMMA FetchKeeps ==
    ASSUME IInv, NEW r \in Runners, Fetch(r)
    PROVE  IInv'
<1>. DEFINE c == cycle[r]
            d == cycle'[r]
<1>1. PICK m \in Markets :
          /\ \A q \in m.quotes : q.age <= MaxAge
          /\ cycle' = [cycle EXCEPT
                          ![r].step = "pricing",
                          ![r].snapshot =
                              [asOf |-> clock, utc |-> m.utc, prices |-> m.closes,
                               quotes |-> {QuoteOf(q) : q \in m.quotes}]]
  BY DEF Fetch
<1>2. UNCHANGED <<clock, begun, rows, authorised, mismatches>>
  BY DEF Fetch
<1>3. DOMAIN cycle = Runners /\ Located(c, clock, begun) /\ clock \in 0 .. MaxTime
  BY DEF IInv, CycleIsSound
<1>4. /\ DOMAIN cycle' = Runners
      /\ \A q \in Runners \ {r} : cycle'[q] = cycle[q]
      /\ DOMAIN d = DOMAIN c /\ d.step = "pricing"
      /\ d.snapshot = [asOf |-> clock, utc |-> m.utc, prices |-> m.closes,
                       quotes |-> {QuoteOf(q) : q \in m.quotes}]
      /\ d.id = c.id /\ d.contextAt = c.contextAt /\ d.attempt = c.attempt
  BY <1>1, <1>3 DEF Located
<1>. HIDE DEF c, d
<1>5. Located(d, clock', begun')
  BY <1>2, <1>3, <1>4 DEF Located, Steps
<1>6. Sound(d.snapshot) /\ \A q \in d.snapshot.quotes : q.at >= d.contextAt - MaxAge
  <2>1. d.contextAt \in Int /\ d.contextAt <= clock /\ clock \in Int
    BY <1>3, <1>4 DEF Located
  <2>. QED
    BY <1>1, <1>4, <2>1, FetchedIsSound
<1>7. CycleIsSound(d, clock', begun', snapshots', candidates', decisions', verdicts')
  BY <1>4, <1>5, <1>6 DEF CycleIsSound, HasQuotes, HasInputs, HasDecision,
     HasDecisionRow, HasVerdict, HasVerdictRow, Fetched, Offering, Deciding, Committed,
     Judged
<1>. QED
  BY <1>2, <1>4, <1>7, OnlyItsCycle DEF CycleNext, d

\* The snapshot's row, and a row for each proposal that has none.
LEMMA RecordInputsKeeps ==
    ASSUME IInv, NEW r \in Runners, RecordInputs(r)
    PROVE  IInv'
<1>. DEFINE c == cycle[r]
            s == c.snapshot
            d == cycle'[r]
            new == NewCandidates(s, c.id)
<1>1. /\ c.step = "pricing"
      /\ snapshots' = snapshots \cup {SnapshotRow(s)}
      /\ candidates' = candidates \cup new
      /\ cycle' = [cycle EXCEPT
                      ![r] = IF Price(s) = {} THEN Idle
                             ELSE [c EXCEPT !.step = "asking", !.offered = Price(s)]]
      /\ UNCHANGED <<clock, begun, decisions, verdicts, authorised, mismatches>>
  BY DEF RecordInputs
<1>2. /\ DOMAIN cycle = Runners /\ Located(c, clock, begun) /\ HasQuotes(c)
      /\ clock \in 0 .. MaxTime /\ begun \in 0 .. MaxCycles
      /\ SnapshotsAreSound(snapshots) /\ CandidatesAreSound(candidates, snapshots)
  BY DEF IInv, CycleIsSound
<1>3. Sound(s) /\ \A q \in s.quotes : q.at >= c.contextAt - MaxAge
  BY <1>1, <1>2 DEF HasQuotes, Fetched
<1>4. TablesGrow
  BY <1>1 DEF TablesGrow
<1>5. SnapshotRow(s).hash = s
  BY DEF SnapshotRow, SnapshotHash
<1>6. \A k \in new : /\ k.proposal \in Price(s) /\ k.snapshot = s
                     /\ k = [proposal |-> k.proposal, snapshot |-> s, cycle |-> c.id]
                     /\ \A j \in candidates : ~SameCandidate(j, k.proposal)
  BY DEF NewCandidates, SnapshotHash
<1>7. ASSUME NEW p \in Price(s), \A j \in candidates : ~SameCandidate(j, p)
      PROVE  \E k \in new : k.proposal = p
  <2>1. p \in {x \in Price(s) : \A j \in candidates : ~SameCandidate(j, x)}
    BY <1>7
  <2>2. [proposal |-> p, snapshot |-> SnapshotHash(s), cycle |-> c.id] \in new
    BY <2>1 DEF NewCandidates
  <2>. QED
    BY <2>2
<1>. HIDE DEF new
<1>8. CandidatesAreSound(candidates', snapshots')
  <2>1. ASSUME NEW k \in candidates'
        PROVE  /\ Sound(k.snapshot) /\ k.proposal \in Price(k.snapshot)
               /\ SnapshotRow(k.snapshot) \in snapshots'
    <3>1. CASE k \in candidates
      BY <1>1, <1>2, <3>1 DEF CandidatesAreSound
    <3>2. CASE k \in new
      BY <1>1, <1>3, <1>6, <3>2
    <3>. QED
      BY <1>1, <3>1, <3>2
  <2>2. ASSUME NEW j \in candidates', NEW k \in candidates', j.proposal = k.proposal
        PROVE  j = k
    <3>1. CASE j \in candidates /\ k \in candidates
      BY <1>2, <2>2, <3>1 DEF CandidatesAreSound
    <3>2. CASE j \in new /\ k \in new
      BY <1>6, <2>2, <3>2
    <3>3. CASE j \in candidates /\ k \in new
      <4>1. SameCandidate(j, k.proposal)
        BY <2>2 DEF SameCandidate
      <4>. QED
        BY <1>6, <3>3, <4>1
    <3>4. CASE j \in new /\ k \in candidates
      <4>1. SameCandidate(k, j.proposal)
        BY <2>2 DEF SameCandidate
      <4>. QED
        BY <1>6, <3>4, <4>1
    <3>. QED
      BY <1>1, <3>1, <3>2, <3>3, <3>4
  <2>. QED
    BY <2>1, <2>2 DEF CandidatesAreSound
<1>9. \A p \in Price(s) : \E k \in candidates' : k.proposal = p
  <2>. SUFFICES ASSUME NEW p \in Price(s) PROVE \E k \in candidates' : k.proposal = p
    OBVIOUS
  <2>1. CASE \E j \in candidates : SameCandidate(j, p)
    <3>1. PICK j \in candidates : SameCandidate(j, p)
      BY <2>1
    <3>2. ProposalHash(j.proposal) = ProposalHash(p)
      BY <3>1 DEF SameCandidate
    <3>3. Sound(j.snapshot) /\ j.proposal \in Price(j.snapshot)
      BY <1>2 DEF CandidatesAreSound
    <3>4. j.proposal = p
      BY <3>2, <3>3, HashesTellApart
    <3>. QED
      BY <1>1, <3>4
  <2>2. CASE \A j \in candidates : ~SameCandidate(j, p)
    BY <1>1, <1>7, <2>2
  <2>. QED
    BY <2>1, <2>2
<1>10. SnapshotsAreSound(snapshots')
  BY <1>1, <1>2, <1>3, <1>5 DEF SnapshotsAreSound
<1>11. DOMAIN cycle' = Runners /\ \A q \in Runners \ {r} : cycle'[q] = cycle[q]
  BY <1>1, <1>2
<1>12. CycleNext(r)
  <2>1. CASE Price(s) = {}
    <3>1. d = Idle /\ clock' \in Nat /\ begun' \in Nat
      BY <1>1, <1>2, <2>1
    <3>. QED
      BY <3>1, IdleIsSound DEF CycleNext
  <2>2. CASE Price(s) # {}
    <3>1. /\ DOMAIN d = DOMAIN c /\ d.step = "asking" /\ d.offered = Price(s)
          /\ d.id = c.id /\ d.contextAt = c.contextAt /\ d.attempt = c.attempt
          /\ d.snapshot = s
      BY <1>1, <1>2, <2>2 DEF Located
    <3>. HIDE DEF c, d, s
    <3>2. Located(d, clock', begun')
      BY <1>1, <1>2, <3>1 DEF Located, Steps
    <3>3. HasQuotes(d)
      BY <1>3, <3>1 DEF HasQuotes
    <3>4. HasInputs(d, snapshots', candidates')
      BY <1>1, <1>9, <3>1 DEF HasInputs
    <3>. QED
      BY <3>1, <3>2, <3>3, <3>4 DEF d, CycleNext, CycleIsSound, HasDecision,
         HasDecisionRow, HasVerdict, HasVerdictRow, Offering, Deciding, Committed,
         Judged
  <2>. QED
    BY <2>1, <2>2
<1>13. \A q \in Runners : CycleNext(q)
  BY <1>1, <1>4, <1>11, <1>12, OneMoves
<1>14. /\ DecisionsAreSound(decisions', candidates')
       /\ VerdictsAreSound(verdicts', decisions', candidates')
       /\ OrdersAreSound(authorised', clock', snapshots', decisions', verdicts')
       /\ AlarmsAreSound(mismatches', verdicts')
  BY <1>1, <1>4, TablesStaySound
<1>. QED
  BY <1>1, <1>2, <1>8, <1>10, <1>11, <1>13, <1>14 DEF IInv, CycleNext

\* The model's answer, or the end of asking: nothing is written yet.
LEMMA DecidingKeeps ==
    ASSUME IInv, NEW r \in Runners, NEW a, cycle[r].step = "asking",
           DecisionTypeOK(a),
           a.action = "WRITE" =>
              a.valid /\ \E p \in cycle[r].offered : a.candidate = {CandidateId(p)},
           cycle' = [cycle EXCEPT ![r].step = "decided", ![r].decision = a],
           UNCHANGED <<clock, begun, rows, authorised, mismatches>>
    PROVE  IInv'
<1>. DEFINE c == cycle[r]
            d == cycle'[r]
<1>1. /\ DOMAIN cycle = Runners /\ Located(c, clock, begun) /\ HasQuotes(c)
      /\ HasInputs(c, snapshots, candidates)
  BY DEF IInv, CycleIsSound
<1>2. /\ DOMAIN cycle' = Runners
      /\ \A q \in Runners \ {r} : cycle'[q] = cycle[q]
      /\ DOMAIN d = DOMAIN c /\ d.step = "decided" /\ d.decision = a
      /\ d.id = c.id /\ d.contextAt = c.contextAt /\ d.attempt = c.attempt
      /\ d.snapshot = c.snapshot /\ d.offered = c.offered
  BY <1>1 DEF Located
<1>3. HasDecision(d)
  BY <1>2 DEF HasDecision
<1>4. c.step = "asking"
  OBVIOUS
<1>. HIDE DEF c, d
<1>5. Located(d, clock', begun')
  BY <1>1, <1>2 DEF Located, Steps
<1>6. HasQuotes(d) /\ HasInputs(d, snapshots', candidates')
  BY <1>1, <1>2, <1>4 DEF HasQuotes, HasInputs, Fetched, Offering, rows
<1>7. CycleIsSound(d, clock', begun', snapshots', candidates', decisions', verdicts')
  BY <1>2, <1>3, <1>5, <1>6 DEF CycleIsSound, HasDecisionRow, HasVerdict, HasVerdictRow,
     Committed, Judged
<1>. QED
  BY <1>2, <1>7, OnlyItsCycle DEF CycleNext, d

LEMMA AnswerKeeps ==
    ASSUME IInv, NEW r \in Runners, Answer(r)
    PROVE  IInv'
<1>1. PICK b \in Answers(r) :
          /\ Valid(r, b)
          /\ cycle' = [cycle EXCEPT ![r].step = "decided",
                                    ![r].decision = Decision(b, TRUE)]
  BY DEF Answer
<1>. DEFINE a == Decision(b, TRUE)
<1>2. /\ b.action \in {"WRITE", "DECLINE"}
      /\ b.candidate \in Nameable(r) /\ b.contracts \in 0 .. MaxContracts
  BY CountsAssumption DEF Answers
<1>3. DecisionTypeOK(a) /\ a.valid /\ a.action = b.action /\ a.candidate = b.candidate
  BY <1>2 DEF DecisionTypeOK, Decision
<1>4. ASSUME b.action = "WRITE"
      PROVE  \E p \in cycle[r].offered : b.candidate = {CandidateId(p)}
  <2>1. b.candidate \subseteq Offered(r) /\ b.candidate # {}
    BY <1>1, <1>4 DEF Valid
  <2>2. PICK i : b.candidate = {i}
    BY <1>2, <2>1 DEF Nameable
  <2>3. i \in Offered(r)
    BY <2>1, <2>2
  <2>. QED
    BY <2>2, <2>3 DEF Offered
<1>. HIDE DEF a
<1>. QED
  BY <1>1, <1>3, <1>4, DecidingKeeps DEF Answer, a

LEMMA NoAnswerKeeps ==
    ASSUME IInv, NEW r \in Runners, BadAnswer(r) \/ ProviderUnavailable(r)
    PROVE  IInv'
<1>1. DecisionTypeOK(Aborted) /\ Aborted.action # "WRITE"
  BY CountsAssumption DEF Aborted, DecisionTypeOK
<1>2. /\ cycle[r].step = "asking"
      /\ UNCHANGED <<clock, begun, rows, authorised, mismatches>>
  BY DEF BadAnswer, ProviderUnavailable
<1>3. CASE cycle' = [cycle EXCEPT ![r].step = "decided", ![r].decision = Aborted]
  BY <1>1, <1>2, <1>3, DecidingKeeps
<1>4. CASE /\ cycle[r].attempt + 1 < MaxSchemaAttempts
           /\ cycle' = [cycle EXCEPT
                           ![r] = [cycle[r] EXCEPT !.attempt = cycle[r].attempt + 1]]
  <2>. DEFINE c == cycle[r]
              d == cycle'[r]
  <2>1. /\ DOMAIN cycle = Runners /\ Located(c, clock, begun) /\ HasQuotes(c)
        /\ HasInputs(c, snapshots, candidates)
    BY DEF IInv, CycleIsSound
  <2>2. /\ DOMAIN cycle' = Runners
        /\ \A q \in Runners \ {r} : cycle'[q] = cycle[q]
        /\ DOMAIN d = DOMAIN c /\ d.step = "asking" /\ d.attempt = c.attempt + 1
        /\ d.id = c.id /\ d.contextAt = c.contextAt
        /\ d.snapshot = c.snapshot /\ d.offered = c.offered
    BY <1>2, <1>4, <2>1 DEF Located
  <2>3. c.attempt + 1 < MaxSchemaAttempts /\ c.step = "asking"
    BY <1>2, <1>4
  <2>. HIDE DEF c, d
  <2>4. Located(d, clock', begun')
    BY <1>2, <2>1, <2>2, <2>3, CountsAssumption DEF Located, Steps
  <2>5. HasQuotes(d) /\ HasInputs(d, snapshots', candidates')
    BY <1>2, <2>1, <2>2, <2>3 DEF HasQuotes, HasInputs, Fetched, Offering, rows
  <2>6. CycleIsSound(d, clock', begun', snapshots', candidates', decisions', verdicts')
    BY <2>2, <2>4, <2>5 DEF CycleIsSound, HasDecision, HasDecisionRow, HasVerdict,
       HasVerdictRow, Deciding, Committed, Judged
  <2>. QED
    BY <1>2, <2>2, <2>6, OnlyItsCycle DEF CycleNext, d
<1>5. CASE BadAnswer(r)
  <2>1. CASE cycle[r].attempt + 1 < MaxSchemaAttempts
    <3>1. cycle' = [cycle EXCEPT
                      ![r] = [cycle[r] EXCEPT !.attempt = cycle[r].attempt + 1]]
      BY <1>5, <2>1 DEF BadAnswer
    <3>. QED
      BY <1>4, <2>1, <3>1
  <2>2. CASE ~(cycle[r].attempt + 1 < MaxSchemaAttempts)
    <3>1. cycle' = [cycle EXCEPT ![r].step = "decided", ![r].decision = Aborted]
      BY <1>5, <2>2 DEF BadAnswer
    <3>. QED
      BY <1>3, <3>1
  <2>. QED
    BY <2>1, <2>2
<1>6. CASE ProviderUnavailable(r)
  <2>1. cycle' = [cycle EXCEPT ![r].step = "decided", ![r].decision = Aborted]
    BY <1>6 DEF ProviderUnavailable
  <2>. QED
    BY <1>3, <2>1
<1>. QED
  BY <1>5, <1>6

\* The decision is written before it is acted on.
LEMMA RecordDecisionKeeps ==
    ASSUME IInv, NEW r \in Runners, RecordDecision(r)
    PROVE  IInv'
<1>. DEFINE c == cycle[r]
            d == cycle'[r]
<1>1. /\ c.step = "decided"
      /\ decisions' = decisions \cup {DecisionRow(r)}
      /\ cycle' = [cycle EXCEPT
                      ![r] = IF Selected(r) = {} THEN Idle
                             ELSE [c EXCEPT !.step = "adjudicating"]]
      /\ UNCHANGED <<clock, begun, snapshots, candidates, verdicts, authorised, mismatches>>
  BY DEF RecordDecision
<1>2. /\ DOMAIN cycle = Runners /\ Located(c, clock, begun) /\ HasQuotes(c)
      /\ HasInputs(c, snapshots, candidates) /\ HasDecision(c)
      /\ clock \in 0 .. MaxTime /\ begun \in 0 .. MaxCycles
  BY DEF IInv, CycleIsSound
<1>3. /\ DOMAIN cycle' = Runners
      /\ \A q \in Runners \ {r} : cycle'[q] = cycle[q]
  BY <1>1, <1>2
<1>4. TablesGrow
  BY <1>1 DEF TablesGrow
<1>5. /\ DecisionTypeOK(c.decision)
      /\ c.decision.action = "WRITE" =>
            c.decision.valid /\ \E p \in c.offered : c.decision.candidate = {CandidateId(p)}
  BY <1>1, <1>2 DEF HasDecision, Deciding, Offering, Fetched
<1>6. ASSUME c.decision.action = "WRITE"
      PROVE  CycleNext(r) /\ DecisionsAreSound({DecisionRow(r)}, candidates)
  <2>1. PICK p \in c.offered : c.decision.candidate = {CandidateId(p)}
    BY <1>5, <1>6
  <2>2. PICK k \in candidates : k.proposal = p
    BY <1>1, <1>2 DEF HasInputs, Offering, Fetched
  <2>3. DecidedOn(c, k)
    BY <1>6, <2>1, <2>2 DEF DecidedOn
  <2>4. c.step \in Deciding
    BY <1>1 DEF Deciding, Offering, Fetched
  <2>5. Selected(r) = {k.proposal} /\ DecisionRow(r) = DecisionOn(c, k)
    BY <2>3, <2>4, SelectsOne
  <2>6. /\ DOMAIN d = DOMAIN c /\ d.step = "adjudicating"
        /\ d.id = c.id /\ d.contextAt = c.contextAt /\ d.attempt = c.attempt
        /\ d.snapshot = c.snapshot /\ d.offered = c.offered /\ d.decision = c.decision
    BY <1>1, <1>2, <2>5 DEF Located
  <2>7. DecisionOn(c, k) \in decisions'
    BY <1>1, <2>5
  <2>. HIDE DEF c, d
  <2>8. Located(d, clock', begun')
    BY <1>1, <1>2, <2>6 DEF Located, Steps
  <2>9. HasQuotes(d) /\ HasInputs(d, snapshots', candidates') /\ HasDecision(d)
    BY <1>1, <1>2, <2>6 DEF HasQuotes, HasInputs, HasDecision, Fetched, Offering,
       Deciding
  <2>10. DecidedOn(d, k) /\ DecisionOn(d, k) \in decisions'
    BY <2>3, <2>6, <2>7 DEF DecidedOn, DecisionOn
  <2>11. HasDecisionRow(d, candidates', decisions')
    BY <1>1, <2>10 DEF HasDecisionRow
  <2>12. CycleNext(r)
    BY <2>6, <2>8, <2>9, <2>11 DEF d, CycleNext, CycleIsSound, HasVerdict, HasVerdictRow,
       Judged
  <2>13. /\ DecisionTypeOK(DecisionOn(c, k)) /\ DecisionOn(c, k).valid
         /\ DecisionOn(c, k).candidate = {k}
    BY <1>5, <1>6 DEF DecisionTypeOK, DecisionOn
  <2>14. DecisionsAreSound({DecisionOn(c, k)}, candidates)
    BY <2>13 DEF DecisionsAreSound
  <2>. QED
    BY <2>5, <2>12, <2>14 DEF c
<1>7. ASSUME c.decision.action # "WRITE"
      PROVE  CycleNext(r) /\ DecisionsAreSound({DecisionRow(r)}, candidates)
  <2>1. Selected(r) = {}
    BY <1>7 DEF Selected
  <2>2. SelectedRow(r) = {}
    BY <2>1 DEF SelectedRow
  <2>3. d = Idle /\ clock' \in Nat /\ begun' \in Nat
    BY <1>1, <1>2, <2>1
  <2>4. CycleNext(r)
    BY <2>3, IdleIsSound DEF CycleNext
  <2>5. DecisionTypeOK(DecisionRow(r))
    BY <1>5 DEF DecisionTypeOK, DecisionRow
  <2>6. DecisionRow(r).candidate = {} /\ DecisionRow(r).action # "WRITE"
    BY <1>7, <2>2 DEF DecisionRow
  <2>. HIDE DEF c, d
  <2>7. DecisionsAreSound({DecisionRow(r)}, candidates)
    BY <2>5, <2>6 DEF DecisionsAreSound
  <2>. QED
    BY <2>4, <2>7
<1>8. CycleNext(r) /\ DecisionsAreSound({DecisionRow(r)}, candidates)
  BY <1>6, <1>7
<1>9. DecisionsAreSound(decisions', candidates')
  <2>1. DecisionsAreSound(decisions, candidates)
    BY DEF IInv
  <2>. HIDE DEF c, d
  <2>. QED
    BY <1>1, <1>8, <2>1 DEF DecisionsAreSound
<1>10. \A q \in Runners : CycleNext(q)
  BY <1>1, <1>3, <1>4, <1>8, OneMoves
<1>11. /\ CandidatesAreSound(candidates', snapshots')
       /\ VerdictsAreSound(verdicts', decisions', candidates')
       /\ OrdersAreSound(authorised', clock', snapshots', decisions', verdicts')
       /\ AlarmsAreSound(mismatches', verdicts')
       /\ SnapshotsAreSound(snapshots')
  BY <1>1, <1>4, TablesStaySound DEF IInv
<1>. QED
  BY <1>1, <1>2, <1>3, <1>9, <1>10, <1>11 DEF IInv, CycleNext


\* The verdict is on the proposal decided on, and dates from the context.
LEMMA AdjudicateKeeps ==
    ASSUME IInv, NEW r \in Runners, Adjudicate(r)
    PROVE  IInv'
<1>. DEFINE c == cycle[r]
            d == cycle'[r]
<1>0. PICK p \in Selected(r) :
          \E v \in MayAnswer(p, c.decision.contracts, c.contextAt) :
              cycle' = [cycle EXCEPT ![r].step = "adjudicated", ![r].verdict = v]
  BY DEF Adjudicate
<1>1. PICK v \in MayAnswer(p, c.decision.contracts, c.contextAt) :
          cycle' = [cycle EXCEPT ![r].step = "adjudicated", ![r].verdict = v]
  BY <1>0
<1>2. /\ c.step = "adjudicating"
      /\ UNCHANGED <<clock, begun, rows, authorised, mismatches>>
  BY DEF Adjudicate
<1>3. /\ DOMAIN cycle = Runners /\ Located(c, clock, begun) /\ HasQuotes(c)
      /\ HasInputs(c, snapshots, candidates) /\ HasDecision(c)
      /\ HasDecisionRow(c, candidates, decisions)
      /\ clock \in 0 .. MaxTime
  BY DEF IInv, CycleIsSound
<1>4. /\ DOMAIN cycle' = Runners
      /\ \A q \in Runners \ {r} : cycle'[q] = cycle[q]
      /\ DOMAIN d = DOMAIN c /\ d.step = "adjudicated" /\ d.verdict = v
      /\ d.id = c.id /\ d.contextAt = c.contextAt /\ d.attempt = c.attempt
      /\ d.snapshot = c.snapshot /\ d.offered = c.offered /\ d.decision = c.decision
  BY <1>1, <1>3 DEF Located
<1>5. p \in c.offered
  BY DEF Selected
<1>. HIDE DEF c, d
<1>6. Sound(c.snapshot) /\ p \in Price(c.snapshot)
  BY <1>2, <1>3, <1>5 DEF HasQuotes, HasInputs, Fetched, Offering
<1>7. /\ DecisionTypeOK(c.decision)
      /\ c.contextAt \in 0 .. MaxTime
  BY <1>2, <1>3, TimesAssumption DEF HasDecision, Deciding, Offering, Fetched, Located
<1>8. KernelIsNoStricter => EntryQuality(p)
  BY <1>6, PricedPassesEntryQuality
<1>9. EntryQuality(p) \in BOOLEAN
  BY DEF EntryQuality
<1>10. /\ VerdictTypeOK(v) /\ v.issued = c.contextAt
       /\ v.approved => v.contracts \in 1 .. c.decision.contracts
       /\ KernelIsNoStricter => v.quality
  <2>1. CASE v = Verdict(FALSE, 0, c.contextAt, EntryQuality(p))
    <3>1. /\ v.approved = FALSE /\ v.contracts = 0 /\ v.issued = c.contextAt
          /\ v.quality = EntryQuality(p)
      BY <2>1 DEF Verdict
    <3>2. v.contracts \in 0 .. MaxContracts
      BY <3>1, CountsAssumption
    <3>3. v.quality \in BOOLEAN /\ (KernelIsNoStricter => v.quality)
      BY ONLY <1>8, <1>9, <3>1, Zenon
    <3>. QED
      BY <1>7, <3>1, <3>2, <3>3, Zenon DEF VerdictTypeOK
  <2>2. CASE \E n \in 1 .. c.decision.contracts : v = Verdict(TRUE, n, c.contextAt, TRUE)
    <3>1. PICK n \in 1 .. c.decision.contracts : v = Verdict(TRUE, n, c.contextAt, TRUE)
      BY <2>2
    <3>2. /\ v.approved = TRUE /\ v.contracts = n /\ v.issued = c.contextAt
          /\ v.quality = TRUE
      BY <3>1 DEF Verdict
    <3>3. n \in 0 .. MaxContracts
      BY <1>7, CountsAssumption DEF DecisionTypeOK
    <3>. QED
      BY <1>7, <3>2, <3>3 DEF VerdictTypeOK
  <2>. QED
    BY <1>1, <2>1, <2>2 DEF MayAnswer, c
<1>11. HasVerdict(d)
  BY <1>4, <1>10 DEF HasVerdict
<1>12. Located(d, clock', begun')
  BY <1>2, <1>3, <1>4 DEF Located, Steps
<1>13. HasQuotes(d) /\ HasInputs(d, snapshots', candidates') /\ HasDecision(d)
  BY <1>2, <1>3, <1>4 DEF HasQuotes, HasInputs, HasDecision, Fetched, Offering, Deciding,
     rows
<1>14. HasDecisionRow(d, candidates', decisions')
  <2>1. PICK k \in candidates : DecidedOn(c, k) /\ DecisionOn(c, k) \in decisions
    BY <1>2, <1>3 DEF HasDecisionRow, Committed
  <2>2. DecidedOn(d, k) /\ DecisionOn(d, k) \in decisions
    BY <1>4, <2>1 DEF DecidedOn, DecisionOn
  <2>. QED
    BY <1>2, <2>2 DEF HasDecisionRow, rows
<1>15. CycleIsSound(d, clock', begun', snapshots', candidates', decisions', verdicts')
  BY <1>4, <1>11, <1>12, <1>13, <1>14 DEF CycleIsSound, HasVerdictRow
<1>. QED
  BY <1>2, <1>4, <1>15, OnlyItsCycle DEF CycleNext, d

\* The verdict is written before it is acted on, with the decision it is about.
LEMMA RecordVerdictKeeps ==
    ASSUME IInv, NEW r \in Runners, RecordVerdict(r)
    PROVE  IInv'
<1>. DEFINE c == cycle[r]
            d == cycle'[r]
<1>1. /\ c.step = "adjudicated"
      /\ verdicts' = verdicts \cup {VerdictRow(r)}
      /\ cycle' = [cycle EXCEPT
                      ![r] = IF r = Job /\ c.verdict.approved
                             THEN [c EXCEPT !.step = "executing"] ELSE Idle]
      /\ UNCHANGED <<clock, begun, snapshots, candidates, decisions, authorised, mismatches>>
  BY DEF RecordVerdict
<1>2. /\ DOMAIN cycle = Runners /\ Located(c, clock, begun) /\ HasQuotes(c)
      /\ HasInputs(c, snapshots, candidates) /\ HasDecision(c)
      /\ HasDecisionRow(c, candidates, decisions) /\ HasVerdict(c)
      /\ clock \in 0 .. MaxTime /\ begun \in 0 .. MaxCycles
      /\ VerdictsAreSound(verdicts, decisions, candidates)
  BY DEF IInv, CycleIsSound
<1>3. DOMAIN cycle' = Runners /\ \A q \in Runners \ {r} : cycle'[q] = cycle[q]
  BY <1>1, <1>2
<1>4. TablesGrow
  BY <1>1 DEF TablesGrow
<1>5. PICK k \in candidates : DecidedOn(c, k) /\ DecisionOn(c, k) \in decisions
  BY <1>1, <1>2 DEF HasDecisionRow, Committed
<1>6. VerdictRow(r) = VerdictOn(c, k)
  BY <1>1, <1>5, SelectsOne DEF Deciding, Offering, Fetched
<1>7. VerdictsAreSound(verdicts', decisions', candidates')
  <2>. DEFINE v == VerdictOn(c, k)
  <2>1. /\ v.verdict = c.verdict /\ v.decision = DecisionOn(c, k)
        /\ v.candidate = {k}
    BY DEF VerdictOn
  <2>2. VerdictTypeOK(c.verdict) /\ (KernelIsNoStricter => c.verdict.quality)
    BY <1>1, <1>2 DEF HasVerdict, Judged
  <2>3. verdicts' = verdicts \cup {v}
    BY <1>1, <1>6
  <2>. HIDE DEF c, v
  <2>. QED
    BY <1>1, <1>2, <1>5, <2>1, <2>2, <2>3 DEF VerdictsAreSound
<1>8. CycleNext(r)
  <2>1. CASE ~(r = Job /\ c.verdict.approved)
    <3>1. d = Idle /\ clock' \in Nat /\ begun' \in Nat
      BY <1>1, <1>2, <2>1
    <3>. QED
      BY <3>1, IdleIsSound DEF CycleNext
  <2>2. CASE r = Job /\ c.verdict.approved
    <3>1. /\ DOMAIN d = DOMAIN c /\ d.step = "executing" /\ d.verdict = c.verdict
          /\ d.id = c.id /\ d.contextAt = c.contextAt /\ d.attempt = c.attempt
          /\ d.snapshot = c.snapshot /\ d.offered = c.offered /\ d.decision = c.decision
      BY <1>1, <1>2, <2>2 DEF Located
    <3>2. VerdictOn(c, k) \in verdicts'
      BY <1>1, <1>6
    <3>3. c.verdict.approved
      BY <2>2
    <3>. HIDE DEF c, d
    <3>4. Located(d, clock', begun')
      BY <1>1, <1>2, <3>1 DEF Located, Steps
    <3>5. HasQuotes(d) /\ HasInputs(d, snapshots', candidates') /\ HasDecision(d)
      BY <1>1, <1>2, <3>1 DEF HasQuotes, HasInputs, HasDecision, Fetched, Offering,
         Deciding
    <3>6. /\ DecidedOn(d, k) /\ DecisionOn(d, k) = DecisionOn(c, k)
          /\ VerdictOn(d, k) = VerdictOn(c, k)
      BY <1>5, <3>1 DEF DecidedOn, DecisionOn, VerdictOn
    <3>7. HasDecisionRow(d, candidates', decisions')
      BY <1>1, <1>5, <3>6 DEF HasDecisionRow
    <3>8. HasVerdictRow(d, candidates', decisions', verdicts')
      BY <1>1, <1>5, <3>1, <3>2, <3>3, <3>6 DEF HasVerdictRow
    <3>9. HasVerdict(d)
      BY <1>1, <1>2, <3>1 DEF HasVerdict, Judged
    <3>. QED
      BY <3>4, <3>5, <3>7, <3>8, <3>9 DEF d, CycleNext, CycleIsSound
  <2>. QED
    BY <2>1, <2>2
<1>9. \A q \in Runners : CycleNext(q)
  BY <1>1, <1>3, <1>4, <1>8, OneMoves
<1>10. /\ CandidatesAreSound(candidates', snapshots')
       /\ DecisionsAreSound(decisions', candidates')
       /\ OrdersAreSound(authorised', clock', snapshots', decisions', verdicts')
       /\ AlarmsAreSound(mismatches', verdicts')
       /\ SnapshotsAreSound(snapshots')
  BY <1>1, <1>4, TablesStaySound DEF IInv
<1>. QED
  BY <1>1, <1>2, <1>3, <1>7, <1>9, <1>10 DEF IInv, CycleNext

\* The order that goes out is the one the committed rows are about.
LEMMA ExecuteKeeps ==
    ASSUME IInv, NEW r \in Runners, Execute(r)
    PROVE  IInv'
<1>. DEFINE c == cycle[r]
<1>1. /\ c.step = "executing"
      /\ clock <= c.verdict.issued + Ttl
      /\ authorised' = authorised \cup
            {[cycle |-> c.id, proposal |-> p, contracts |-> c.verdict.contracts,
              at |-> clock] : p \in Selected(r)}
      /\ cycle' = [cycle EXCEPT ![r] = Idle]
      /\ UNCHANGED <<clock, begun, rows, mismatches>>
  BY DEF Execute
<1>2. /\ DOMAIN cycle = Runners /\ Located(c, clock, begun) /\ HasQuotes(c)
      /\ HasInputs(c, snapshots, candidates) /\ HasDecision(c) /\ HasVerdict(c)
      /\ HasVerdictRow(c, candidates, decisions, verdicts)
      /\ clock \in 0 .. MaxTime /\ begun \in 0 .. MaxCycles
      /\ CandidatesAreSound(candidates, snapshots)
      /\ OrdersAreSound(authorised, clock, snapshots, decisions, verdicts)
  BY DEF IInv, CycleIsSound
<1>3. PICK k \in candidates : /\ DecidedOn(c, k)
                              /\ DecisionOn(c, k) \in decisions
                              /\ VerdictOn(c, k) \in verdicts
  BY <1>1, <1>2 DEF HasVerdictRow
<1>4. Selected(r) = {k.proposal}
  BY <1>1, <1>3, SelectsOne DEF Deciding, Offering, Fetched
<1>. DEFINE o == [cycle |-> c.id, proposal |-> k.proposal,
                  contracts |-> c.verdict.contracts, at |-> clock]
<1>5. authorised' = authorised \cup {o}
  BY <1>1, <1>4
<1>6. /\ o.cycle = c.id /\ o.proposal = k.proposal
      /\ o.contracts = c.verdict.contracts /\ o.at = clock
  OBVIOUS
<1>7. TablesGrow
  BY <1>1 DEF TablesGrow, rows
<1>8. cycle'[r] = Idle /\ DOMAIN cycle' = Runners
      /\ \A q \in Runners \ {r} : cycle'[q] = cycle[q]
  BY <1>1, <1>2
<1>9. \A q \in Runners : CycleNext(q)
  <2>1. CycleNext(r)
    BY <1>1, <1>2, <1>8, IdleIsSound DEF CycleNext
  <2>. QED
    BY <1>1, <1>7, <1>8, <2>1, OneMoves
<1>. HIDE DEF c, o
<1>10. /\ Sound(c.snapshot) /\ c.offered = Price(c.snapshot)
       /\ \A q \in c.snapshot.quotes : q.at >= c.contextAt - MaxAge
       /\ DecisionTypeOK(c.decision) /\ c.decision.valid
       /\ c.verdict.issued = c.contextAt /\ c.verdict.approved
       /\ c.verdict.contracts \in 1 .. c.decision.contracts
  BY <1>1, <1>2, <1>3 DEF HasQuotes, HasInputs, HasDecision, HasVerdict, HasVerdictRow,
     DecidedOn, Fetched, Offering, Deciding, Judged
<1>11. k.proposal \in Price(c.snapshot)
  BY <1>3, <1>10 DEF DecidedOn
<1>12. \A i \in DOMAIN o.proposal.legs : o.at - o.proposal.legs[i].at <= MaxAge + Ttl
  <2>. SUFFICES ASSUME NEW i \in DOMAIN k.proposal.legs
                PROVE  clock - k.proposal.legs[i].at <= MaxAge + Ttl
    BY <1>6
  <2>1. k.proposal.legs[i] \in c.snapshot.quotes
    BY <1>11, PricedHasItsSnapshot
  <2>2. k.proposal.legs[i].at \in Int /\ k.proposal.legs[i].at >= c.contextAt - MaxAge
    BY <1>10, <2>1 DEF Sound, QuoteIsSound
  <2>3. clock <= c.contextAt + Ttl /\ clock \in Int /\ c.contextAt \in Int
    BY <1>1, <1>2, <1>10 DEF Located
  <2>. QED
    BY <2>2, <2>3, TimesAssumption
<1>13. o.contracts \in 1 .. MaxContracts
  BY <1>6, <1>10, CountsAssumption DEF DecisionTypeOK
<1>14. Traceable(o, snapshots, decisions, verdicts)
  <2>. DEFINE v == VerdictOn(c, k)
              row == SnapshotRow(k.snapshot)
  <2>1. /\ v \in verdicts /\ v.cycle = c.id /\ v.verdict = c.verdict
        /\ v.decision = DecisionOn(c, k) /\ v.candidate = {k}
    BY <1>3 DEF VerdictOn
  <2>2. /\ DecisionOn(c, k).cycle = c.id /\ DecisionOn(c, k).valid = c.decision.valid
        /\ DecisionOn(c, k).contracts = c.decision.contracts
        /\ DecisionOn(c, k).candidate = {k}
    BY DEF DecisionOn
  <2>3. /\ Sound(k.snapshot) /\ k.proposal \in Price(k.snapshot) /\ row \in snapshots
    BY <1>2 DEF CandidatesAreSound
  <2>4. /\ row.hash = k.snapshot
        /\ k.proposal \in PricePutCreditSpreads(row.quotes, row.hash)
    BY <2>3, RowStillPrices DEF SnapshotRow, SnapshotHash
  <2>5. c.decision.contracts >= c.verdict.contracts
    BY <1>10 DEF DecisionTypeOK
  <2>. HIDE DEF v, row
  <2>6. \E x \in v.candidate : \E y \in snapshots :
            /\ x.proposal = o.proposal
            /\ y.hash = x.snapshot
            /\ o.proposal \in PricePutCreditSpreads(y.quotes, y.hash)
    BY <1>6, <2>1, <2>3, <2>4
  <2>. QED
    BY <1>3, <1>6, <1>10, <2>1, <2>2, <2>5, <2>6 DEF Traceable
<1>15. OrdersAreSound(authorised', clock', snapshots', decisions', verdicts')
  <2>1. o.at \in 0 .. clock
    BY <1>2, <1>6
  <2>. QED
    BY <1>1, <1>2, <1>5, <1>12, <1>13, <1>14, <2>1 DEF OrdersAreSound, rows
<1>16. /\ SnapshotsAreSound(snapshots')
       /\ CandidatesAreSound(candidates', snapshots')
       /\ DecisionsAreSound(decisions', candidates')
       /\ VerdictsAreSound(verdicts', decisions', candidates')
       /\ AlarmsAreSound(mismatches', verdicts')
  BY <1>1 DEF IInv, rows
<1>. QED
  BY <1>1, <1>2, <1>8, <1>9, <1>15, <1>16 DEF IInv, CycleNext

\* An alarm is about a snapshot that its row could not hold.
LEMMA ReplayKeeps ==
    ASSUME IInv, Replay
    PROVE  IInv'
<1>1. PICK v \in verdicts : \E c \in v.candidate : \E row \in snapshots :
          /\ row.hash = c.snapshot
          /\ ~Reproduces(row, c)
          /\ mismatches' = mismatches \cup {v}
  BY DEF Replay
<1>2. PICK c \in v.candidate, row \in snapshots :
          /\ row.hash = c.snapshot
          /\ ~Reproduces(row, c)
          /\ mismatches' = mismatches \cup {v}
  BY <1>1
<1>3. UNCHANGED <<clock, begun, cycle, rows, authorised>>
  BY DEF Replay
<1>4. c \in candidates /\ v.candidate = {c}
  BY DEF IInv, VerdictsAreSound
<1>5. /\ Sound(c.snapshot) /\ c.proposal \in Price(c.snapshot)
      /\ row = SnapshotRow(c.snapshot)
  BY <1>2, <1>4 DEF IInv, CandidatesAreSound, SnapshotsAreSound
<1>6. ~Storable(c.snapshot)
  <2>. SUFFICES ASSUME Storable(c.snapshot) PROVE Reproduces(row, c)
    BY <1>2
  <2>1. Rebuild(row) = c.snapshot
    BY <1>5, RowGivesBack
  <2>2. SameCandidate(c, c.proposal) /\ SameFigures(c.proposal, c.proposal)
    BY DEF SameCandidate, SameFigures
  <2>. QED
    BY <1>2, <1>5, <2>1, <2>2 DEF Reproduces, SnapshotHash
<1>7. AlarmsAreSound(mismatches', verdicts')
  BY <1>2, <1>3, <1>4, <1>6 DEF IInv, AlarmsAreSound, rows
<1>. QED
  BY <1>3, <1>7 DEF IInv, rows

LEMMA TickKeeps ==
    ASSUME IInv, Tick
    PROVE  IInv'
<1>1. /\ clock < MaxTime /\ clock' = clock + 1 /\ clock \in 0 .. MaxTime
      /\ begun \in 0 .. MaxCycles /\ DOMAIN cycle = Runners
      /\ UNCHANGED <<begun, cycle, rows, authorised, mismatches>>
  BY DEF Tick, IInv
<1>2. clock' \in 0 .. MaxTime /\ clock \in Int /\ clock' \in Int /\ clock <= clock'
  BY <1>1, TimesAssumption
<1>3. TablesGrow
  BY <1>1 DEF TablesGrow, rows
<1>4. \A r \in Runners : CycleNext(r)
  <2>. SUFFICES ASSUME NEW r \in Runners PROVE CycleNext(r)
    OBVIOUS
  <2>1. CycleNow(r)
    BY DEF IInv, CycleNow
  <2>. QED
    BY <1>1, <1>2, <1>3, <2>1, UntouchedCycle
<1>5. OrdersAreSound(authorised', clock', snapshots', decisions', verdicts')
  <2>1. \A x : x \in 0 .. clock => x \in 0 .. clock'
    BY <1>2
  <2>. QED
    BY <1>1, <2>1 DEF IInv, OrdersAreSound, rows
<1>6. /\ SnapshotsAreSound(snapshots')
      /\ CandidatesAreSound(candidates', snapshots')
      /\ DecisionsAreSound(decisions', candidates')
      /\ VerdictsAreSound(verdicts', decisions', candidates')
      /\ AlarmsAreSound(mismatches', verdicts')
  BY <1>1 DEF IInv, rows
<1>. QED
  BY <1>1, <1>2, <1>4, <1>5, <1>6 DEF IInv, CycleNext

\* What a crash leaves is what was committed.
LEMMA CrashKeeps ==
    ASSUME IInv, Crash
    PROVE  IInv'
<1>1. /\ cycle' = [r \in Runners |-> Idle]
      /\ UNCHANGED <<clock, begun, rows, authorised, mismatches>>
  BY DEF Crash
<1>2. clock' \in Nat /\ begun' \in Nat
  BY <1>1 DEF IInv
<1>3. \A r \in Runners : CycleNext(r)
  BY <1>1, <1>2, IdleIsSound DEF CycleNext
<1>. QED
  BY <1>1, <1>3 DEF IInv, CycleNext, rows

LEMMA UnderwritingInductive == Spec => []IInv
<1>1. Init => IInv
  <2>. SUFFICES ASSUME Init PROVE IInv
    OBVIOUS
  <2>1. /\ clock = 0 /\ begun = 0 /\ cycle = [r \in Runners |-> Idle]
        /\ snapshots = {} /\ candidates = {} /\ decisions = {} /\ verdicts = {}
        /\ authorised = {} /\ mismatches = {}
    BY DEF Init
  <2>2. \A r \in Runners :
            CycleIsSound(cycle[r], clock, begun, snapshots, candidates, decisions, verdicts)
    BY <2>1, IdleIsSound
  <2>3. 0 \in 0 .. MaxTime /\ 0 \in 0 .. MaxCycles
    BY TimesAssumption, CountsAssumption
  <2>. QED
    BY <2>1, <2>2, <2>3 DEF IInv, SnapshotsAreSound, CandidatesAreSound,
       DecisionsAreSound, VerdictsAreSound, OrdersAreSound, AlarmsAreSound
<1>2. IInv /\ [Next]_vars => IInv'
  <2>. SUFFICES ASSUME IInv, [Next]_vars PROVE IInv'
    OBVIOUS
  <2>1. ASSUME NEW r \in Runners,
               \/ Start(r) \/ Fetch(r) \/ RecordInputs(r)
               \/ Answer(r) \/ BadAnswer(r) \/ ProviderUnavailable(r)
               \/ RecordDecision(r) \/ Adjudicate(r) \/ RecordVerdict(r) \/ Execute(r)
        PROVE  IInv'
    BY <2>1, StartKeeps, FetchKeeps, RecordInputsKeeps, AnswerKeeps, NoAnswerKeeps,
       RecordDecisionKeeps, AdjudicateKeeps, RecordVerdictKeeps, ExecuteKeeps
  <2>2. ASSUME NEW r \in Runners, End(r) PROVE IInv'
    BY <2>2, EndKeeps DEF End
  <2>3. CASE UNCHANGED vars
    BY <2>3 DEF IInv, vars
  <2>4. ASSUME NEW r \in Runners, NotNow(r) PROVE IInv'
    BY <2>3, <2>4 DEF NotNow
  <2>. QED
    BY <2>1, <2>2, <2>3, <2>4, TickKeeps, CrashKeeps, ReplayKeeps DEF Next
<1>. QED
  BY <1>1, <1>2, PTL DEF Spec

(***************************************************************************)
(* The theorems                                                            *)
(***************************************************************************)
\* Every variable keeps its type, and the rows of one table refer to rows of
\* another (recorder.py: each row is written after those it points to).
THEOREM TablesTypesCorrect == Spec => []TypeOK
<1>1. IInv => TypeOK
  <2>. SUFFICES ASSUME IInv PROVE TypeOK
    OBVIOUS
  <2>1. clock \in 0 .. MaxTime /\ begun \in 0 .. MaxCycles
    BY DEF IInv
  <2>2. \A r \in Runners :
            /\ cycle[r].step \in Steps /\ cycle[r].id \in 0 .. begun
            /\ cycle[r].contextAt \in 0 .. clock
            /\ cycle[r].attempt \in 0 .. MaxSchemaAttempts - 1
    BY DEF IInv, CycleIsSound, Located
  <2>3. \A d \in decisions : DecisionTypeOK(d) /\ d.candidate \subseteq candidates
    BY DEF IInv, DecisionsAreSound
  <2>4. \A v \in verdicts :
            /\ VerdictTypeOK(v.verdict)
            /\ v.decision \in decisions /\ v.candidate \subseteq candidates
    BY DEF IInv, VerdictsAreSound
  <2>5. \A o \in authorised : o.at \in 0 .. clock /\ o.contracts \in 1 .. MaxContracts
    BY DEF IInv, OrdersAreSound
  <2>6. mismatches \subseteq verdicts
    BY DEF IInv, AlarmsAreSound
  <2>. QED
    BY <2>1, <2>2, <2>3, <2>4, <2>5, <2>6 DEF TypeOK
<1>. QED
  BY <1>1, UnderwritingInductive, PTL

\* NFR-008, for every chain and every interleaving of the two runners: an order
\* the engine was let send (run_underwriting_cycle) leads through an approval and
\* a decision of its own cycle to a candidate that the stored chain still prices.
THEOREM OrdersCanBeTraced == Spec => []OrdersAreTraceable
<1>1. IInv => OrdersAreTraceable
  BY DEF IInv, OrdersAreSound, Traceable, OrdersAreTraceable
<1>. QED
  BY <1>1, UnderwritingInductive, PTL

\* FR-040: a WRITE on record is valid and names one candidate on record, though
\* the row is looked up by a hash that leaves most of a proposal's figures out.
THEOREM WritesHaveTheirCandidate == Spec => []WritesNameACandidate
<1>1. IInv => WritesNameACandidate
  BY DEF IInv, DecisionsAreSound, WritesNameACandidate
<1>. QED
  BY <1>1, UnderwritingInductive, PTL

\* No order is sent on quotes older than the fetch and the verdict's life allow
\* together, because the verdict's clock starts before the fetch.
THEOREM OrdersAreOnRecentQuotes == Spec => []OrdersUseRecentQuotes
<1>1. IInv => OrdersUseRecentQuotes
  BY DEF IInv, OrdersAreSound, OrdersUseRecentQuotes
<1>. QED
  BY <1>1, UnderwritingInductive, PTL

\* A replay raises no alarm over a snapshot that its row can hold.
THEOREM ReplayIsNoFalseAlarm == Spec => []StoredIsReproduced
<1>1. IInv => StoredIsReproduced
  BY DEF IInv, AlarmsAreSound, StoredIsReproduced
<1>. QED
  BY <1>1, UnderwritingInductive, PTL

\* Whenever the Kernel's limits ask no more than the Actuary's thresholds, as the
\* defaults of limits.py and thresholds.py do, no verdict refuses a priced
\* proposal for what it is.
THEOREM PricedIsNeverRefused ==
    ASSUME KernelIsNoStricter
    PROVE  Spec => []PricedIsAdjudicable
<1>1. IInv => PricedIsAdjudicable
  BY DEF IInv, VerdictsAreSound, PricedIsAdjudicable
<1>. QED
  BY <1>1, UnderwritingInductive, PTL

(***************************************************************************)
(* What a replay finds out                                                 *)
(***************************************************************************)
\* A snapshot comes back from its row as it was only if the row can hold it.
LEMMA OnlyTheStorableComesBack ==
    ASSUME NEW s, Sound(s), Rebuild(SnapshotRow(s)) = s
    PROVE  Storable(s)
<1>. DEFINE row == SnapshotRow(s)
<1>1. s = [asOf |-> row.asOf, utc |-> TRUE, prices |-> row.prices, quotes |-> row.quotes]
  BY DEF Rebuild
<1>2. /\ row.prices = [u \in FirstPriced(s) |-> s.prices[u]]
      /\ row.quotes = {AsTradable(q) : q \in s.quotes}
  BY DEF SnapshotRow
<1>. HIDE DEF row
<1>3. s.utc = TRUE /\ s.prices = row.prices /\ s.quotes = row.quotes
  BY <1>1
<1>4. Priced(s) = FirstPriced(s)
  BY <1>2, <1>3 DEF Priced
<1>5. ASSUME NEW q \in s.quotes PROVE q = AsTradable(q)
  <2>1. PICK x \in s.quotes : q = AsTradable(x)
    BY <1>2, <1>3
  <2>2. /\ QuoteIsSound(q) /\ QuoteIsSound(x)
    BY DEF Sound
  <2>3. q.faults = x.faults \ {"NOT_TRADABLE"}
    BY <2>1, <2>2 DEF AsTradable, QuoteIsSound
  <2>4. q.faults = q.faults \ {"NOT_TRADABLE"}
    BY <2>3
  <2>. QED
    BY <2>2, <2>4 DEF AsTradable, QuoteIsSound
<1>. QED
  BY <1>3, <1>4, <1>5, Zenon DEF Storable

\* On record or to come, a replay of a verdict reproduces its candidate if and
\* only if the row could hold the snapshot.
ReplaysTellTheStorable ==
    \A v \in verdicts : \A c \in v.candidate : \A row \in snapshots :
        row.hash = c.snapshot => (Reproduces(row, c) <=> Storable(c.snapshot))

\* replay_decision finds a mismatch for just those decisions whose snapshot has
\* more prices than one, a contract not tradable, or a clock that is not UTC's,
\* whatever was priced from it and however right the decision was.
THEOREM MismatchesAreTheUnstorable == Spec => []ReplaysTellTheStorable
<1>1. ASSUME IInv, NEW v \in verdicts, NEW c \in v.candidate, NEW row \in snapshots,
             row.hash = c.snapshot
      PROVE  Reproduces(row, c) <=> Storable(c.snapshot)
  <2>1. c \in candidates
    BY <1>1 DEF IInv, VerdictsAreSound
  <2>2. /\ Sound(c.snapshot) /\ c.proposal \in Price(c.snapshot)
        /\ row = SnapshotRow(c.snapshot)
    BY <1>1, <2>1 DEF IInv, CandidatesAreSound, SnapshotsAreSound
  <2>3. ASSUME Storable(c.snapshot) PROVE Reproduces(row, c)
    <3>1. Rebuild(row) = c.snapshot
      BY <2>2, <2>3, RowGivesBack
    <3>2. SameCandidate(c, c.proposal) /\ SameFigures(c.proposal, c.proposal)
      BY DEF SameCandidate, SameFigures
    <3>. QED
      BY <1>1, <2>2, <3>1, <3>2 DEF Reproduces, SnapshotHash
  <2>4. ASSUME Reproduces(row, c) PROVE Storable(c.snapshot)
    <3>1. Rebuild(row) = c.snapshot
      BY <1>1, <2>4 DEF Reproduces, SnapshotHash
    <3>. QED
      BY <2>2, <3>1, OnlyTheStorableComesBack
  <2>. QED
    BY <2>3, <2>4
<1>2. IInv => ReplaysTellTheStorable
  BY <1>1 DEF ReplaysTellTheStorable
<1>. QED
  BY <1>2, UnderwritingInductive, PTL
=============================================================================
