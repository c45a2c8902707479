----------------------------- MODULE Execution -----------------------------
(***************************************************************************)
(* The guarded execution path: a cycle's thread presents a Kernel verdict, *)
(* the engine authorises it, transmits one limit order, polls it to a      *)
(* terminal state (or cancels it) and returns a result.  The scheduler     *)
(* runs one job per thread and every thread shares the one engine, its     *)
(* nonce registry and the broker.                                          *)
(*                                                                         *)
(* A broker call is split at the wire: the request leaves, the broker acts *)
(* on it, and the reply arrives or the client gives up first.  A request   *)
(* the client gave up on may still be acted on, or be lost.                *)
(*                                                                         *)
(* Not modelled here: prices and legs (a proposal is its hash), the rate   *)
(* limiter, and the wording of results.                                    *)
(***************************************************************************)
EXTENDS Integers

CONSTANTS
    Threads,        \* jobs that call execute(), each on a thread of its own
    Proposals,      \* proposal hashes
    Verdicts,       \* nonces: one verdict is minted under each
    MaxContracts,   \* largest size the Kernel approves
    MaxRetries      \* MAX_RETRIES

ASSUME ContractsAssumption == MaxContracts \in Nat \ {0}
ASSUME RetriesAssumption == MaxRetries \in Nat \ {0}

VARIABLES
    verdict,        \* verdict[v]: what the Kernel minted under nonce v
    expired,        \* nonces whose expires_at has passed
    nonces,         \* NonceRegistry._consumed
    step,           \* step[t]: where thread t is inside execute()
    payload,        \* payload[t]: what it was authorised to transmit
    attempt,        \* attempt[t]: submissions made so far
    seen,           \* seen[t]: the order as the engine last read it
    wire,           \* submissions sent and not yet acted on by the broker
    orders,         \* the broker's orders, by client_order_id
    ended           \* every ExecutionResult or exception execute() ended with

kernelVars == <<verdict, expired, nonces>>
callVars == <<step, payload, attempt, seen>>
vars == <<kernelVars, callVars, wire, orders, ended>>

(***************************************************************************)
(* Types                                                                   *)
(***************************************************************************)
Nobody == "nobody"
ASSUME NobodyAssumption == Nobody \notin Threads

NotMinted == [owner |-> Nobody, hash |-> Nobody, decision |-> "REJECT",
              contracts |-> 0]

\* A KernelVerdict.  mint() signs exactly the approvals, so the signature is
\* the decision; the thread whose cycle holds the object is its owner.
Verdict == [owner : Threads \cup {Nobody}, hash : Proposals \cup {Nobody},
            decision : {"APPROVE", "REJECT"}, contracts : 0 .. MaxContracts]

\* Mutant: a pending cancel is taken for a finished order.
TerminalWithPending ==
    {"filled", "canceled", "expired", "rejected", "pending_cancel"}

\* OrderState, with `accepted` (branched on exactly as `new`) left out.
TerminalStates == {"filled", "canceled", "expired", "rejected"}
LiveStates == {"new", "partially_filled", "pending_cancel"}
OrderState == TerminalStates \cup LiveStates

BrokerOrder == [hash : Proposals, state : OrderState,
                filled : 0 .. MaxContracts, qty : 1 .. MaxContracts]
NoOrder == [hash |-> Nobody, state |-> "new", filled |-> 0, qty |-> 0]

\* Where execute() stands between two broker calls.
Step == {"idle", "submit", "submitting", "lookup", "polling", "confirming",
         "finalising"}

Status == {"FILLED", "PARTIAL", "CANCELLED", "REJECTED", "TIMED_OUT",
           "FAILED", "RAISED"}

\* The locals of a call that go into its payload.
Payload == [nonce : Verdicts, hash : Proposals, contracts : 1 .. MaxContracts]
Nothing == [nonce |-> Nobody, hash |-> Nobody, contracts |-> 0]

\* Mutant: the id is drawn for each verdict.
OrderIdPerVerdict(c) == <<"uw", c.nonce>>

\* client_order_id is a function of the proposal hash alone (FR-083), so every
\* attempt of every call for one proposal carries the same id.
ClientOrderId(c) == <<"uw", c.hash>>
ClientOrderIds ==
    {ClientOrderId([hash |-> p, nonce |-> v]) : p \in Proposals, v \in Verdicts}

Submission == [id : ClientOrderIds, hash : Proposals, nonce : Verdicts,
               attempt : 1 .. MaxRetries, qty : 1 .. MaxContracts]

Result == [nonce : Verdicts, hash : Proposals, id : ClientOrderIds,
           contracts : 1 .. MaxContracts, status : Status,
           filled : 0 .. MaxContracts]

Init ==
    /\ verdict = [v \in Verdicts |-> NotMinted]
    /\ expired = {}
    /\ nonces = {}
    /\ step = [t \in Threads |-> "idle"]
    /\ payload = [t \in Threads |-> Nothing]
    /\ attempt = [t \in Threads |-> 0]
    /\ seen = [t \in Threads |-> NoOrder]
    /\ wire = {}
    /\ orders = [id \in {} |-> NoOrder]
    /\ ended = {}

(***************************************************************************)
(* The Kernel                                                              *)
(***************************************************************************)

\* A cycle on thread t has a proposal adjudicated; the verdict is minted.
Mint(t, v) ==
    /\ step[t] = "idle"
    /\ verdict[v] = NotMinted
    /\ \E p \in Proposals, n \in 0 .. MaxContracts :
          verdict' = [verdict EXCEPT ![v] =
              [owner |-> t, hash |-> p, contracts |-> n,
               decision |-> IF n > 0 THEN "APPROVE" ELSE "REJECT"]]
    /\ UNCHANGED <<expired, nonces, callVars, wire, orders, ended>>

\* The verdict's time to live runs out.
TtlElapses(v) ==
    /\ verdict[v] # NotMinted
    /\ v \notin expired
    /\ expired' = expired \cup {v}
    /\ UNCHANGED <<verdict, nonces, callVars, wire, orders, ended>>

\* Mutant: the hash comparison is dropped.
AuthorizesAnyProposal(v, p) ==
    /\ verdict[v].decision = "APPROVE"
    /\ v \notin expired
    /\ v \notin nonces

\* Mutant: the nonce is not looked up.
AuthorizesReplay(v, p) ==
    /\ verdict[v].decision = "APPROVE"
    /\ v \notin expired
    /\ verdict[v].hash = p

\* authorize(): the checks, in the order of the code.
Authorizes(v, p) ==
    /\ verdict[v].decision = "APPROVE"
    /\ verdict[v].contracts >= 1
    /\ v \notin expired
    /\ verdict[v].hash = p
    /\ v \notin nonces

(***************************************************************************)
(* ExecutionEngine.execute                                                 *)
(***************************************************************************)

\* What a finished call leaves behind: an ExecutionResult, or an exception.
End(t, status, filled) ==
    /\ ended' = ended \cup
          {[nonce |-> payload[t].nonce, hash |-> payload[t].hash,
            id |-> ClientOrderId(payload[t]), status |-> status,
            contracts |-> payload[t].contracts, filled |-> filled]}
    /\ step' = [step EXCEPT ![t] = "idle"]
    /\ payload' = [payload EXCEPT ![t] = Nothing]
    /\ attempt' = [attempt EXCEPT ![t] = 0]
    /\ seen' = [seen EXCEPT ![t] = NoOrder]

\* The verdict is authorised for the proposal presented with it and its nonce
\* is spent.  A refusal raises UnauthorizedExecution and changes nothing.
Execute(t, v, p) ==
    /\ step[t] = "idle"
    /\ verdict[v].owner = t
    /\ Authorizes(v, p)
    /\ nonces' = nonces \cup {v}
    /\ step' = [step EXCEPT ![t] = "submit"]
    /\ payload' = [payload EXCEPT ![t] =
          [nonce |-> v, hash |-> p, contracts |-> verdict[v].contracts]]
    /\ UNCHANGED <<verdict, expired, attempt, seen, wire, orders, ended>>

\* Nothing is transmitted, though the nonce is spent: the payload cannot be
\* built (OrderConstructionError), or the CLI pre-flight refuses it.
NotTransmitted(t) ==
    /\ step[t] = "submit"
    /\ attempt[t] = 0
    /\ \E status \in {"RAISED", "REJECTED"} : End(t, status, 0)
    /\ UNCHANGED <<kernelVars, wire, orders>>

\* One pass of the retry loop sends the order, under the same id every time.
Submit(t) ==
    /\ step[t] = "submit"
    /\ attempt[t] < MaxRetries
    /\ wire' = wire \cup
          {[id |-> ClientOrderId(payload[t]), hash |-> payload[t].hash,
            nonce |-> payload[t].nonce, attempt |-> attempt[t] + 1,
            qty |-> payload[t].contracts]}
    /\ step' = [step EXCEPT ![t] = "submitting"]
    /\ attempt' = [attempt EXCEPT ![t] = @ + 1]
    /\ UNCHANGED <<kernelVars, payload, seen, orders, ended>>

\* TransientBrokerError: back off and go round again, or, on the last attempt,
\* ask the broker whether the order exists.
SubmitFaults(t) ==
    /\ step[t] = "submitting"
    /\ step' = [step EXCEPT ![t] =
          IF attempt[t] = MaxRetries THEN "lookup" ELSE "submit"]
    /\ UNCHANGED <<kernelVars, payload, attempt, seen, wire, orders, ended>>

\* A fault with no status code and no word that _classify knows is permanent:
\* the call reports a rejection, whatever became of the request.
SubmitMisread(t) ==
    /\ step[t] = "submitting"
    /\ End(t, "REJECTED", 0)
    /\ UNCHANGED <<kernelVars, wire, orders>>

\* _resolve_unknown: the order is found under its id and is polled.
LookupFinds(t) ==
    /\ step[t] = "lookup"
    /\ ClientOrderId(payload[t]) \in DOMAIN orders
    /\ step' = [step EXCEPT ![t] = "polling"]
    /\ seen' = [seen EXCEPT ![t] = orders[ClientOrderId(payload[t])]]
    /\ UNCHANGED <<kernelVars, payload, attempt, wire, orders, ended>>

\* _resolve_unknown: no such order, or the lookup itself raised.
LookupFindsNothing(t) ==
    /\ step[t] = "lookup"
    /\ End(t, "FAILED", 0)
    /\ UNCHANGED <<kernelVars, wire, orders>>

MustPoll(t) ==
    /\ step[t] = "polling"
    /\ seen[t].state \notin TerminalStates

\* _await_terminal: one poll.
Poll(t) ==
    /\ MustPoll(t)
    /\ seen' = [seen EXCEPT ![t] = orders[ClientOrderId(payload[t])]]
    /\ UNCHANGED <<kernelVars, step, payload, attempt, wire, orders, ended>>

\* _await_terminal: the poll answers 404, or raises out of execute().
PollFails(t) ==
    /\ MustPoll(t)
    /\ \E status \in {"FAILED", "RAISED"} : End(t, status, 0)
    /\ UNCHANGED <<kernelVars, wire, orders>>

\* _await_terminal: the poll loop exits on a terminal state.
PollEnds(t) ==
    /\ step[t] = "polling"
    /\ seen[t].state \in TerminalStates
    /\ step' = [step EXCEPT ![t] = "finalising"]
    /\ UNCHANGED <<kernelVars, payload, attempt, seen, wire, orders, ended>>

\* Mutant: the poll loop has no deadline.
NoDeadline(t) == FALSE

\* ORDER_TIMEOUT_SEC may run out after any number of polls.
DeadlinePasses(t) == MustPoll(t)

\* Mutant: an order that is late is replaced by a new one for its full size,
\* and what it had filled is no longer counted.
ReplaceOnTimeout(t) ==
    LET id == ClientOrderId(payload[t]) IN
    /\ DeadlinePasses(t)
    /\ orders[id].state \in LiveStates
    /\ orders' = [orders EXCEPT ![id].state = "new", ![id].filled = 0]
    /\ UNCHANGED <<kernelVars, callVars, wire, ended>>

\* The deadline passes and the broker takes the cancel request: it lands at
\* once or is left pending.
CancelOnTimeout(t) ==
    LET id == ClientOrderId(payload[t]) IN
    /\ DeadlinePasses(t)
    /\ orders[id].state \in LiveStates
    /\ \E s \in {"pending_cancel", "canceled"} :
          orders' = [orders EXCEPT ![id].state = s]
    /\ step' = [step EXCEPT ![t] = "confirming"]
    /\ UNCHANGED <<kernelVars, payload, attempt, seen, wire, ended>>

\* The deadline passes and cancel_order raises: the order is already terminal,
\* or the network fails before or after the request got there.  Nothing
\* catches it.
CancelRaises(t) ==
    LET id == ClientOrderId(payload[t]) IN
    /\ DeadlinePasses(t)
    /\ End(t, "RAISED", 0)
    /\ \/ UNCHANGED orders
       \/ /\ orders[id].state \in LiveStates
          /\ orders' = [orders EXCEPT ![id].state = "pending_cancel"]
    /\ UNCHANGED <<kernelVars, wire>>

\* _cancel_and_confirm re-polls once.  Anything filled goes to _finalise,
\* whatever the state; otherwise the call reports a timeout.
Confirm(t) ==
    LET confirmed == orders[ClientOrderId(payload[t])] IN
    /\ step[t] = "confirming"
    /\ \/ /\ confirmed.filled > 0
          /\ step' = [step EXCEPT ![t] = "finalising"]
          /\ seen' = [seen EXCEPT ![t] = confirmed]
          /\ UNCHANGED <<payload, attempt, ended>>
       \/ /\ confirmed.filled = 0
          /\ End(t, "TIMED_OUT", 0)
    /\ UNCHANGED <<kernelVars, wire, orders>>

\* The confirming poll answers 404, and the order as last polled stands in for
\* it, or it raises out of execute().
ConfirmFails(t) ==
    /\ step[t] = "confirming"
    /\ \/ /\ seen[t].filled > 0
          /\ step' = [step EXCEPT ![t] = "finalising"]
          /\ UNCHANGED <<payload, attempt, seen, ended>>
       \/ /\ seen[t].filled = 0
          /\ End(t, "TIMED_OUT", 0)
       \/ End(t, "RAISED", 0)
    /\ UNCHANGED <<kernelVars, wire, orders>>

IsPartial(o) ==
    /\ o.state \in TerminalStates
    /\ o.filled > 0
    /\ o.filled < o.qty

\* _finalise: how an order is reported.
Classify(o) ==
    IF IsPartial(o) THEN "PARTIAL"
    ELSE IF o.state = "filled" THEN "FILLED"
    ELSE IF o.state = "rejected" THEN "REJECTED"
    ELSE "CANCELLED"

Finalise(t) ==
    /\ step[t] = "finalising"
    /\ End(t, Classify(seen[t]), seen[t].filled)
    /\ UNCHANGED <<kernelVars, wire, orders>>

\* The process dies: threads, verdict objects and the in-memory nonce registry
\* go with it.  What is on the wire or at the broker stays.
Crash ==
    /\ step' = [t \in Threads |-> "idle"]
    /\ payload' = [t \in Threads |-> Nothing]
    /\ attempt' = [t \in Threads |-> 0]
    /\ seen' = [t \in Threads |-> NoOrder]
    /\ verdict' = [v \in Verdicts |-> [verdict[v] EXCEPT !.owner = Nobody]]
    /\ nonces' = {}
    /\ UNCHANGED <<expired, wire, orders, ended>>

(***************************************************************************)
(* The broker and the network (outside the repository)                     *)
(***************************************************************************)

\* The thread that sent m is still waiting for the answer to m.
Awaits(t, m) ==
    /\ step[t] = "submitting"
    /\ payload[t].nonce = m.nonce
    /\ attempt[t] = m.attempt

\* An order is created under a client_order_id not used before.
BrokerAccepts(m) ==
    /\ m.id \notin DOMAIN orders
    /\ \E s \in {"new", "rejected"} :
          LET o == [hash |-> m.hash, state |-> s, filled |-> 0, qty |-> m.qty]
          IN  /\ orders' = [id \in DOMAIN orders \cup {m.id} |->
                                IF id = m.id THEN o ELSE orders[id]]
              /\ step' = [t \in Threads |->
                             IF Awaits(t, m) THEN "polling" ELSE step[t]]
              /\ seen' = [t \in Threads |->
                             IF Awaits(t, m) THEN o ELSE seen[t]]
    /\ wire' = wire \ {m}
    /\ UNCHANGED <<kernelVars, payload, attempt, ended>>

\* A 4xx: the id is taken, or the order is refused outright.  The engine
\* reports a rejection to whoever still waits and never retries.
BrokerRefuses(m) ==
    /\ wire' = wire \ {m}
    /\ \/ \E t \in Threads : Awaits(t, m) /\ End(t, "REJECTED", 0)
       \/ /\ \A t \in Threads : ~Awaits(t, m)
          /\ UNCHANGED <<callVars, ended>>
    /\ UNCHANGED <<kernelVars, orders>>

\* The request never reaches the broker (network, 429, 5xx).
WireLoses(m) ==
    /\ wire' = wire \ {m}
    /\ UNCHANGED <<kernelVars, callVars, orders, ended>>

Fill(id) ==
    LET o == orders[id]
        n == o.filled + 1
    IN
    /\ o.state \in LiveStates
    /\ orders' = [orders EXCEPT ![id] =
          [hash |-> o.hash, qty |-> o.qty, filled |-> n,
           state |-> IF n = o.qty THEN "filled"
                     ELSE IF o.state = "new" THEN "partially_filled"
                     ELSE o.state]]
    /\ UNCHANGED <<kernelVars, callVars, wire, ended>>

\* A live order stops working: its cancel lands, the exchange rejects it, or
\* the day ends.
OrderCloses(id) ==
    /\ \/ /\ orders[id].state = "pending_cancel"
          /\ orders' = [orders EXCEPT ![id].state = "canceled"]
       \/ /\ orders[id].state = "new"
          /\ orders' = [orders EXCEPT ![id].state = "rejected"]
       \/ /\ orders[id].state \in LiveStates
          /\ orders' = [orders EXCEPT ![id].state = "expired"]
    /\ UNCHANGED <<kernelVars, callVars, wire, ended>>

(***************************************************************************)
(* Specification                                                           *)
(***************************************************************************)
EngineStep(t) ==
    \/ NotTransmitted(t)
    \/ Submit(t)
    \/ SubmitFaults(t)
    \/ SubmitMisread(t)
    \/ LookupFinds(t)
    \/ LookupFindsNothing(t)
    \/ Poll(t)
    \/ PollFails(t)
    \/ PollEnds(t)
    \/ CancelOnTimeout(t)
    \/ CancelRaises(t)
    \/ Confirm(t)
    \/ ConfirmFails(t)
    \/ Finalise(t)

BrokerStep ==
    \/ \E m \in wire : BrokerAccepts(m) \/ BrokerRefuses(m) \/ WireLoses(m)
    \/ \E id \in DOMAIN orders : Fill(id) \/ OrderCloses(id)

Next ==
    \/ \E t \in Threads, v \in Verdicts : Mint(t, v)
    \/ \E v \in Verdicts : TtlElapses(v)
    \/ \E t \in Threads, v \in Verdicts, p \in Proposals : Execute(t, v, p)
    \/ \E t \in Threads : EngineStep(t)
    \/ BrokerStep
    \/ Crash

Spec == Init /\ [][Next]_vars

\* The thread runs on, each broker call returns or raises, and the clock passes
\* the deadline of a poll loop.  Nothing is assumed of the broker or of callers.
Progress(t) ==
    \/ NotTransmitted(t)
    \/ Submit(t)
    \/ SubmitFaults(t)
    \/ SubmitMisread(t)
    \/ LookupFinds(t)
    \/ LookupFindsNothing(t)
    \/ PollEnds(t)
    \/ CancelOnTimeout(t)
    \/ CancelRaises(t)
    \/ Confirm(t)
    \/ ConfirmFails(t)
    \/ Finalise(t)

LiveSpec == Spec /\ \A t \in Threads : WF_vars(Progress(t))

(***************************************************************************)
(* Properties                                                              *)
(***************************************************************************)

\* Every variable of the execution path has its type; in particular the retry
\* loop of _transmit never counts past MAX_RETRIES.
TypeOK ==
    /\ verdict \in [Verdicts -> Verdict]
    /\ expired \subseteq Verdicts
    /\ nonces \subseteq Verdicts
    /\ step \in [Threads -> Step]
    /\ payload \in [Threads -> Payload \cup {Nothing}]
    /\ attempt \in [Threads -> 0 .. MaxRetries]
    /\ seen \in [Threads -> BrokerOrder \cup {NoOrder}]
    /\ wire \subseteq Submission
    /\ DOMAIN orders \subseteq ClientOrderIds
    /\ \A id \in DOMAIN orders : orders[id] \in BrokerOrder
    /\ ended \subseteq Result

\* A signed verdict covers an order: same proposal, same size.
Covered(p, n) ==
    \E v \in Verdicts : /\ verdict[v].decision = "APPROVE"
                         /\ verdict[v].hash = p
                         /\ verdict[v].contracts = n

\* Whatever is on the wire or at the broker, after any retry, replay or crash,
\* was approved by a verdict for exactly that proposal and exactly that size
\* (authorize() binds the hash; the size comes from the verdict, FR-080).
OnlyApprovedOrders ==
    /\ \A m \in wire : Covered(m.hash, m.qty)
    /\ \A id \in DOMAIN orders : Covered(orders[id].hash, orders[id].qty)

\* A verdict is good for one execute(): no two calls, running or ended, ever
\* transmit under one nonce, although the registry forgets in a crash.
VerdictUsedOnce ==
    /\ \A t, u \in Threads :
          t # u /\ step[t] # "idle" /\ step[u] # "idle" =>
              payload[t].nonce # payload[u].nonce
    /\ \A t \in Threads, r \in ended :
          step[t] # "idle" => r.nonce # payload[t].nonce
    /\ \A r, s \in ended : r.nonce = s.nonce => r = s

\* A proposal has at most one order at the broker, whatever is retried, and
\* however often it is approved again, on another thread or after a restart
\* (client_order_id is derived from the proposal hash alone, FR-083).
OneOrderPerProposal ==
    \A i, j \in DOMAIN orders : orders[i].hash = orders[j].hash => i = j

\* A call that reports FILLED or PARTIAL reports what the broker holds for good:
\* the order is over, with exactly the reported quantity, and FILLED means
\* complete (FR-084: a 200 is not a fill; FR-086).
ReportedFillsAreReal ==
    \A r \in ended :
        r.status \in {"FILLED", "PARTIAL"} =>
            /\ r.id \in DOMAIN orders
            /\ orders[r.id].state \in TerminalStates
            /\ orders[r.id].filled = r.filled
            /\ r.filled > 0
            /\ r.status = "FILLED" <=> r.filled = orders[r.id].qty

\* Every call to execute() returns or raises, even if the broker never moves
\* the order (FR-084, FR-085).
EveryCallEnds ==
    \A t \in Threads : step[t] # "idle" ~> step[t] = "idle"

\* The position a proposal can lead to never grows past one approval: each of
\* the broker's orders is a permit, and what it filled is what was taken.
Entry(o) == [hash |-> o.hash, qty |-> o.qty, filled |-> o.filled]
Book == {Entry(orders[id]) : id \in DOMAIN orders}

Promise == INSTANCE Exposure WITH book <- Book

\* Retries, replays, cancels and crashes of execute() implement the promise:
\* one permit for each proposal, never renewed, never exceeded.
ImplementsExposure == Promise!Spec
=============================================================================
