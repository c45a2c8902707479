--------------------------- MODULE ExecutionProofs ---------------------------
(***************************************************************************)
(* Proofs about the execution path, for any number of threads, proposals,  *)
(* verdicts, contracts and retries.                                        *)
(*                                                                         *)
(* IInv is the inductive invariant.  Its preservation is argued from four  *)
(* lemmas that say what one step can do to the verdicts, the broker's      *)
(* orders, the calls and the results; the parts of IInv follow from these  *)
(* without looking at the actions again.                                   *)
(***************************************************************************)
EXTENDS Execution, TLAPS

USE ContractsAssumption, RetriesAssumption, NobodyAssumption
    DEF Nobody, ClientOrderId

(***************************************************************************)
(* The inductive invariant                                                 *)
(***************************************************************************)

\* The verdict minted under nonce v approves proposal p for n contracts.
Approves(v, p, n) ==
    /\ verdict[v].decision = "APPROVE"
    /\ verdict[v].hash = p
    /\ verdict[v].contracts = n

\* A thread inside execute() holds the verdict that authorised it, its nonce is
\* spent, and the payload is that verdict's.
PayloadOK ==
    \A t \in Threads : step[t] # "idle" =>
        /\ payload[t] \in Payload
        /\ Approves(payload[t].nonce, payload[t].hash, payload[t].contracts)
        /\ verdict[payload[t].nonce].owner = t
        /\ payload[t].nonce \in nonces

\* A submission carries a verdict's proposal and size, under the id that
\* proposal fixes.
WireOK ==
    \A m \in wire : /\ m.id = ClientOrderId(m)
                    /\ Approves(m.nonce, m.hash, m.qty)

\* An order is complete exactly when it is `filled`, and one that was never
\* worked has no fill.
Sound(o) ==
    /\ o \in BrokerOrder
    /\ o.filled <= o.qty
    /\ o.state = "filled" <=> o.filled = o.qty
    /\ o.state \in {"new", "rejected"} => o.filled = 0

OrdersOK ==
    \A id \in DOMAIN orders :
        /\ id = ClientOrderId(orders[id])
        /\ Sound(orders[id])
        /\ Covered(orders[id].hash, orders[id].qty)

\* Once a call has read its order, the order is at the broker under the call's
\* own id; and a terminal order, once read, is what the broker holds for good.
Reading == {"polling", "confirming", "finalising"}
SeenOK ==
    \A t \in Threads :
        step[t] \in Reading =>
            /\ ClientOrderId(payload[t]) \in DOMAIN orders
            /\ seen[t] \in BrokerOrder
            /\ seen[t].state \in TerminalStates =>
                  seen[t] = orders[ClientOrderId(payload[t])]

\* A result's nonce can never authorise again: it is in the registry, or its
\* verdict went down with an earlier process.
EndedOK ==
    \A r \in ended :
        /\ verdict[r.nonce].decision = "APPROVE"
        /\ r.nonce \in nonces \/ verdict[r.nonce].owner = Nobody

IInv ==
    /\ TypeOK
    /\ PayloadOK
    /\ WireOK
    /\ OrdersOK
    /\ SeenOK
    /\ EndedOK
    /\ VerdictUsedOnce
    /\ ReportedFillsAreReal

(***************************************************************************)
(* What one step does to the verdicts                                      *)
(***************************************************************************)

\* An approval, once minted, is never changed; only a crash frees its owner,
\* and empties the registry when it does.
VerdictsEvolve ==
    /\ \A v \in Verdicts : \A p, n : Approves(v, p, n) => Approves(v, p, n)'
    /\ \/ /\ nonces' = {}
          /\ \A v \in Verdicts : verdict'[v].owner = Nobody
          /\ \A t \in Threads : step'[t] = "idle"
       \/ /\ nonces \subseteq nonces'
          /\ \A v \in Verdicts :
                verdict[v].decision = "APPROVE" => verdict'[v] = verdict[v]

LEMMA VerdictsStep ==
    ASSUME TypeOK, [Next]_vars
    PROVE  VerdictsEvolve
<1>1. CASE UNCHANGED <<verdict, nonces>>
  BY <1>1 DEF VerdictsEvolve, Approves
<1>2. ASSUME NEW t \in Threads, NEW v \in Verdicts, Mint(t, v)
      PROVE  VerdictsEvolve
  <2>1. /\ verdict[v].decision = "REJECT"
        /\ \A w \in Verdicts : w # v => verdict'[w] = verdict[w]
        /\ nonces' = nonces
    BY <1>2 DEF Mint, NotMinted, TypeOK, kernelVars
  <2>. QED
    BY <2>1 DEF VerdictsEvolve, Approves
<1>3. ASSUME NEW t \in Threads, NEW v \in Verdicts, NEW p \in Proposals,
             Execute(t, v, p)
      PROVE  VerdictsEvolve
  BY <1>3 DEF Execute, VerdictsEvolve, Approves
<1>4. CASE Crash
  BY <1>4 DEF Crash, VerdictsEvolve, Approves, TypeOK, Verdict
<1>. QED
  BY <1>1, <1>2, <1>3, <1>4
     DEF Next, BrokerStep, EngineStep, vars, kernelVars, TtlElapses,
         NotTransmitted, Submit, SubmitFaults, SubmitMisread, LookupFinds, LookupFindsNothing,
         Poll, PollFails, PollEnds, CancelOnTimeout, CancelRaises, Confirm,
         ConfirmFails, Finalise, BrokerAccepts, BrokerRefuses, WireLoses, Fill,
         OrderCloses

(***************************************************************************)
(* What one step does to the broker's orders                               *)
(***************************************************************************)

\* Order o may become n: same proposal and size, still sound, and untouched
\* once terminal.
Advances(o, n) ==
    /\ Sound(n)
    /\ n.hash = o.hash
    /\ n.qty = o.qty
    /\ o.state \in TerminalStates => n = o

\* An order that is new at the broker is some submission's, with nothing filled.
Arrives(id, n) ==
    \E m \in wire, s \in {"new", "rejected"} :
        /\ id = m.id
        /\ n = [hash |-> m.hash, state |-> s, filled |-> 0, qty |-> m.qty]

OrdersEvolve ==
    /\ DOMAIN orders \subseteq DOMAIN orders'
    /\ \A id \in DOMAIN orders : Advances(orders[id], orders'[id])
    /\ \A id \in DOMAIN orders' : id \notin DOMAIN orders => Arrives(id, orders'[id])

LEMMA StateNames ==
    /\ TerminalStates \subseteq OrderState
    /\ LiveStates \subseteq OrderState
    /\ LiveStates \cap TerminalStates = {}
BY DEF OrderState, TerminalStates, LiveStates

\* A live order that stops, or whose cancel is taken, advances.
LEMMA StateChange ==
    ASSUME NEW id \in DOMAIN orders, NEW s \in OrderState \ {"filled", "new"},
           OrdersOK, orders[id].state \in LiveStates,
           s = "rejected" => orders[id].state = "new",
           orders' = [orders EXCEPT ![id].state = s]
    PROVE  OrdersEvolve
<1>1. \A i \in DOMAIN orders : Sound(orders[i])
  BY DEF OrdersOK
<1>2. orders'[id] = [hash |-> orders[id].hash, state |-> s,
                    filled |-> orders[id].filled, qty |-> orders[id].qty]
  BY <1>1 DEF Sound, BrokerOrder
<1>3. Advances(orders[id], orders'[id])
  BY <1>1, <1>2, StateNames DEF Advances, Sound, BrokerOrder, TerminalStates, LiveStates
<1>4. /\ DOMAIN orders' = DOMAIN orders
      /\ \A i \in DOMAIN orders : i # id => orders'[i] = orders[i]
  OBVIOUS
<1>. QED
  BY <1>1, <1>3, <1>4 DEF OrdersEvolve, Advances

LEMMA OrdersStep ==
    ASSUME TypeOK, OrdersOK, SeenOK, [Next]_vars
    PROVE  OrdersEvolve
<1>1. CASE UNCHANGED orders
  BY <1>1 DEF OrdersEvolve, OrdersOK, Advances
<1>2. ASSUME NEW t \in Threads, CancelOnTimeout(t)
      PROVE  OrdersEvolve
  <2>1. ClientOrderId(payload[t]) \in DOMAIN orders
    BY <1>2 DEF CancelOnTimeout, DeadlinePasses, MustPoll, SeenOK, Reading
  <2>2. PICK s \in {"pending_cancel", "canceled"} :
           orders' = [orders EXCEPT ![ClientOrderId(payload[t])].state = s]
    BY <1>2 DEF CancelOnTimeout
  <2>3. orders[ClientOrderId(payload[t])].state \in LiveStates
    BY <1>2 DEF CancelOnTimeout
  <2>4. s \in OrderState \ {"filled", "new"} /\ s # "rejected"
    BY DEF OrderState, TerminalStates, LiveStates
  <2>. QED
    BY <2>1, <2>2, <2>3, <2>4, StateChange
<1>3. ASSUME NEW t \in Threads, CancelRaises(t)
      PROVE  OrdersEvolve
  <2>1. ClientOrderId(payload[t]) \in DOMAIN orders
    BY <1>3 DEF CancelRaises, DeadlinePasses, MustPoll, SeenOK, Reading
  <2>2. CASE /\ orders[ClientOrderId(payload[t])].state \in LiveStates
             /\ orders' = [orders EXCEPT ![ClientOrderId(payload[t])].state =
                                            "pending_cancel"]
    <3>1. "pending_cancel" \in OrderState \ {"filled", "new"}
      BY DEF OrderState, LiveStates
    <3>. QED  BY <2>1, <2>2, <3>1, StateChange
  <2>. QED
    BY <1>1, <1>3, <2>2 DEF CancelRaises
<1>4. ASSUME NEW id \in DOMAIN orders, OrderCloses(id)
      PROVE  OrdersEvolve
  <2>1. PICK s \in {"canceled", "rejected", "expired"} :
           /\ orders' = [orders EXCEPT ![id].state = s]
           /\ orders[id].state \in LiveStates
           /\ s = "rejected" => orders[id].state = "new"
    BY <1>4 DEF OrderCloses, LiveStates
  <2>2. s \in OrderState \ {"filled", "new"}
    BY DEF OrderState, TerminalStates
  <2>. QED
    BY <2>1, <2>2, StateChange
<1>5. ASSUME NEW id \in DOMAIN orders, Fill(id)
      PROVE  OrdersEvolve
  <2>1. \A i \in DOMAIN orders : Sound(orders[i])
    BY DEF OrdersOK
  <2>2. /\ DOMAIN orders' = DOMAIN orders
        /\ \A i \in DOMAIN orders : i # id => orders'[i] = orders[i]
        /\ orders[id].state \in LiveStates
        /\ orders'[id] = [hash |-> orders[id].hash, qty |-> orders[id].qty,
                         filled |-> orders[id].filled + 1,
                         state |-> IF orders[id].filled + 1 = orders[id].qty
                                   THEN "filled"
                                   ELSE IF orders[id].state = "new"
                                   THEN "partially_filled"
                                   ELSE orders[id].state]
    BY <1>5 DEF Fill
  <2>3. orders[id].filled + 1 <= orders[id].qty
    BY <2>1, <2>2 DEF Sound, BrokerOrder, LiveStates
  <2>4. Advances(orders[id], orders'[id])
    BY <2>1, <2>2, <2>3
       DEF Advances, Sound, BrokerOrder, OrderState, TerminalStates, LiveStates
  <2>. QED
    BY <2>1, <2>2, <2>4 DEF OrdersEvolve, Advances
<1>6. ASSUME NEW m \in wire, BrokerAccepts(m)
      PROVE  OrdersEvolve
  <2>1. PICK s \in {"new", "rejected"} :
           orders' = [id \in DOMAIN orders \cup {m.id} |->
                        IF id = m.id THEN [hash |-> m.hash, state |-> s,
                                           filled |-> 0, qty |-> m.qty]
                        ELSE orders[id]]
    BY <1>6 DEF BrokerAccepts
  <2>2. m.id \notin DOMAIN orders
    BY <1>6 DEF BrokerAccepts
  <2>. QED
    BY <2>1, <2>2 DEF OrdersEvolve, OrdersOK, Advances, Arrives
<1>. QED
  BY <1>1, <1>2, <1>3, <1>4, <1>5, <1>6
     DEF Next, BrokerStep, EngineStep, vars, kernelVars, Mint, TtlElapses, Execute,
         NotTransmitted, Submit, SubmitFaults, SubmitMisread, LookupFinds, LookupFindsNothing,
         Poll, PollFails, PollEnds, Confirm, ConfirmFails, Finalise,
         BrokerRefuses, WireLoses, Crash

(***************************************************************************)
(* What one step does to the calls                                         *)
(***************************************************************************)

\* Thread u is outside execute() after the step.
Leaves(u) == step'[u] = "idle"

\* Thread u goes on with the payload it has; if it now holds an order it has
\* read, it read it before or in this very step.
GoesOn(u) ==
    /\ step[u] # "idle"
    /\ payload'[u] = payload[u]
    /\ step'[u] \in Reading =>
          \/ step[u] \in Reading /\ seen'[u] = seen[u]
          \/ /\ ClientOrderId(payload[u]) \in DOMAIN orders'
             /\ seen'[u] = orders'[ClientOrderId(payload[u])]

\* Thread u is authorised to enter: it alone moves, under a fresh nonce.
Enters(u) ==
    /\ step'[u] = "submit"
    /\ \E v \in Verdicts, p \in Proposals :
          /\ Authorizes(v, p)
          /\ verdict[v].owner = u
          /\ payload'[u] = [nonce |-> v, hash |-> p,
                            contracts |-> verdict[v].contracts]
          /\ nonces' = nonces \cup {v}
    /\ UNCHANGED <<verdict, wire, orders, ended>>
    /\ \A t \in Threads : t # u => step'[t] = step[t] /\ payload'[t] = payload[t]

CallsEvolve ==
    /\ step' \in [Threads -> Step]
    /\ payload' \in [Threads -> Payload \cup {Nothing}]
    /\ attempt' \in [Threads -> 0 .. MaxRetries]
    /\ seen' \in [Threads -> BrokerOrder \cup {NoOrder}]
    /\ \A u \in Threads : Leaves(u) \/ GoesOn(u) \/ Enters(u)

CallTypes ==
    /\ step \in [Threads -> Step]
    /\ payload \in [Threads -> Payload \cup {Nothing}]
    /\ attempt \in [Threads -> 0 .. MaxRetries]
    /\ seen \in [Threads -> BrokerOrder \cup {NoOrder}]

LEMMA StepNames ==
    \A s \in {"idle", "submit", "submitting", "lookup", "polling", "confirming",
              "finalising"} : s \in Step
BY DEF Step

\* A call that ends leaves; nobody else moves.
LEMMA EndCalls ==
    ASSUME CallTypes, NEW t \in Threads, NEW status, NEW filled,
           End(t, status, filled)
    PROVE  CallsEvolve
BY StepNames DEF CallTypes, End, CallsEvolve, Leaves, GoesOn, Reading, Step

LEMMA CallsUnchanged ==
    ASSUME CallTypes, UNCHANGED callVars
    PROVE  CallsEvolve
BY DEF CallTypes, callVars, CallsEvolve, Leaves, GoesOn, Reading

\* A call that moves to step s without touching the broker and reads nothing
\* new.
LEMMA MoveCalls ==
    ASSUME CallTypes, NEW t \in Threads, NEW s \in Step, step[t] # "idle",
           s \in Reading => step[t] \in Reading,
           step' = [step EXCEPT ![t] = s], attempt' \in [Threads -> 0 .. MaxRetries],
           UNCHANGED <<payload, seen>>
    PROVE  CallsEvolve
BY DEF CallTypes, CallsEvolve, Leaves, GoesOn, Reading

\* A call that reads its order and moves to step s.
LEMMA ReadCalls ==
    ASSUME CallTypes, NEW t \in Threads, NEW s \in Step, step[t] # "idle",
           ClientOrderId(payload[t]) \in DOMAIN orders,
           orders[ClientOrderId(payload[t])] \in BrokerOrder,
           step' = [step EXCEPT ![t] = s],
           seen' = [seen EXCEPT ![t] = orders[ClientOrderId(payload[t])]],
           UNCHANGED <<payload, attempt, orders>>
    PROVE  CallsEvolve
BY DEF CallTypes, CallsEvolve, Leaves, GoesOn, Reading

LEMMA EngineCalls ==
    ASSUME TypeOK, SeenOK, OrdersOK, NEW t \in Threads, EngineStep(t)
    PROVE  CallsEvolve
<1>0. CallTypes
  BY DEF TypeOK, CallTypes
<1>1. \A id \in DOMAIN orders : orders[id] \in BrokerOrder
  BY DEF OrdersOK, Sound
<1>2. \A status, filled : End(t, status, filled) => CallsEvolve
  BY <1>0, EndCalls
<1>3. CASE NotTransmitted(t) \/ SubmitMisread(t) \/ LookupFindsNothing(t)
           \/ PollFails(t) \/ CancelRaises(t) \/ Finalise(t)
  BY <1>2, <1>3
     DEF NotTransmitted, SubmitMisread, LookupFindsNothing, PollFails, CancelRaises,
         Finalise
<1>4. CASE Submit(t)
  <2>1. attempt' \in [Threads -> 0 .. MaxRetries]
    BY <1>0, <1>4 DEF Submit, CallTypes
  <2>. QED
    BY <1>0, <1>4, <2>1, StepNames, MoveCalls DEF Submit, Reading
<1>5. CASE SubmitFaults(t)
  <2>1. PICK s \in {"lookup", "submit"} : step' = [step EXCEPT ![t] = s]
    BY <1>5 DEF SubmitFaults
  <2>. QED
    BY <1>0, <1>5, <2>1, StepNames, MoveCalls DEF SubmitFaults, Reading, CallTypes
<1>6. CASE LookupFinds(t)
  BY <1>0, <1>1, <1>6, StepNames, ReadCalls DEF LookupFinds
<1>7. CASE Poll(t)
  <2>1. step' = [step EXCEPT ![t] = "polling"]
    BY <1>0, <1>7 DEF Poll, MustPoll, CallTypes
  <2>2. ClientOrderId(payload[t]) \in DOMAIN orders
    BY <1>7 DEF Poll, MustPoll, SeenOK, Reading
  <2>. QED
    BY <1>0, <1>1, <1>7, <2>1, <2>2, StepNames, ReadCalls DEF Poll, MustPoll
<1>8. CASE PollEnds(t)
  BY <1>0, <1>8, StepNames, MoveCalls DEF PollEnds, Reading, CallTypes
<1>9. CASE CancelOnTimeout(t)
  BY <1>0, <1>9, StepNames, MoveCalls
     DEF CancelOnTimeout, DeadlinePasses, MustPoll, Reading, CallTypes
<1>10. CASE Confirm(t)
  <2>1. ClientOrderId(payload[t]) \in DOMAIN orders
    BY <1>10 DEF Confirm, SeenOK, Reading
  <2>2. CASE End(t, "TIMED_OUT", 0)
    BY <1>2, <2>2
  <2>3. CASE /\ step' = [step EXCEPT ![t] = "finalising"]
             /\ seen' = [seen EXCEPT ![t] = orders[ClientOrderId(payload[t])]]
             /\ UNCHANGED <<payload, attempt, orders>>
    BY <1>0, <1>1, <1>10, <2>1, <2>3, StepNames, ReadCalls DEF Confirm
  <2>. QED
    BY <1>10, <2>2, <2>3 DEF Confirm
<1>11. CASE ConfirmFails(t)
  <2>1. CASE End(t, "TIMED_OUT", 0) \/ End(t, "RAISED", 0)
    BY <1>2, <2>1
  <2>2. CASE /\ step' = [step EXCEPT ![t] = "finalising"]
             /\ UNCHANGED <<payload, attempt, seen>>
    BY <1>0, <1>11, <2>2, StepNames, MoveCalls DEF ConfirmFails, Reading, CallTypes
  <2>. QED
    BY <1>11, <2>1, <2>2 DEF ConfirmFails
<1>. QED
  BY <1>3, <1>4, <1>5, <1>6, <1>7, <1>8, <1>9, <1>10, <1>11 DEF EngineStep

LEMMA CallsStep ==
    ASSUME TypeOK, PayloadOK, WireOK, SeenOK, OrdersOK, [Next]_vars
    PROVE  CallsEvolve
<1>0. CallTypes
  BY DEF TypeOK, CallTypes
<1>1. ASSUME NEW t \in Threads, EngineStep(t)
      PROVE  CallsEvolve
  BY <1>1, EngineCalls
<1>2. CASE UNCHANGED callVars
  BY <1>0, <1>2, CallsUnchanged
<1>3. ASSUME NEW t \in Threads, NEW v \in Verdicts, NEW p \in Proposals,
             Execute(t, v, p)
      PROVE  CallsEvolve
  <2>1. [nonce |-> v, hash |-> p, contracts |-> verdict[v].contracts] \in Payload
    BY <1>3 DEF Execute, Authorizes, TypeOK, Verdict, Payload
  <2>2. Enters(t)
    BY <1>0, <1>3 DEF Execute, Enters, CallTypes
  <2>3. \A u \in Threads : u # t => Leaves(u) \/ GoesOn(u)
    BY <1>0, <1>3 DEF Execute, Leaves, GoesOn, CallTypes
  <2>. QED
    BY <1>0, <1>3, <2>1, <2>2, <2>3, StepNames DEF Execute, CallsEvolve, CallTypes
<1>4. ASSUME NEW m \in wire, BrokerAccepts(m)
      PROVE  CallsEvolve
  <2>1. PICK o \in BrokerOrder :
           /\ m.id \in DOMAIN orders'
           /\ orders'[m.id] = o
           /\ step' = [t \in Threads |->
                         IF Awaits(t, m) THEN "polling" ELSE step[t]]
           /\ seen' = [t \in Threads |-> IF Awaits(t, m) THEN o ELSE seen[t]]
    BY <1>4 DEF BrokerAccepts, TypeOK, Submission, BrokerOrder, OrderState,
                TerminalStates, LiveStates
  <2>2. \A t \in Threads : Awaits(t, m) =>
           step[t] # "idle" /\ ClientOrderId(payload[t]) = m.id
    BY DEF Awaits, PayloadOK, WireOK, Approves
  <2>3. UNCHANGED <<payload, attempt>>
    BY <1>4 DEF BrokerAccepts
  <2>. QED
    BY <1>0, <2>1, <2>2, <2>3, StepNames
       DEF CallsEvolve, CallTypes, Leaves, GoesOn, Reading
<1>5. ASSUME NEW m \in wire, BrokerRefuses(m)
      PROVE  CallsEvolve
  BY <1>0, <1>2, <1>5, EndCalls DEF BrokerRefuses
<1>6. CASE Crash
  BY <1>6, StepNames, RetriesAssumption DEF Crash, CallsEvolve, Leaves
<1>. QED
  BY <1>1, <1>2, <1>3, <1>4, <1>5, <1>6
     DEF Next, BrokerStep, vars, callVars, Mint, TtlElapses, WireLoses, Fill,
         OrderCloses

(***************************************************************************)
(* What one step does to the wire and to the results                       *)
(***************************************************************************)

\* What is newly on the wire is some running call's payload.
WireEvolves ==
    \A m \in wire' : m \in wire \/ \E t \in Threads :
        /\ step[t] # "idle"
        /\ attempt[t] < MaxRetries
        /\ m = [id |-> ClientOrderId(payload[t]), hash |-> payload[t].hash,
                nonce |-> payload[t].nonce, attempt |-> attempt[t] + 1,
                qty |-> payload[t].contracts]

LEMMA WireStep ==
    ASSUME [Next]_vars
    PROVE  WireEvolves
<1>1. CASE wire' \subseteq wire
  BY <1>1 DEF WireEvolves
<1>2. ASSUME NEW t \in Threads, Submit(t)
      PROVE  WireEvolves
  BY <1>2 DEF Submit, WireEvolves
<1>. QED
  BY <1>1, <1>2
     DEF Next, BrokerStep, EngineStep, vars, Mint, TtlElapses, Execute,
         NotTransmitted, SubmitFaults, SubmitMisread, LookupFinds, LookupFindsNothing, Poll,
         PollFails, PollEnds, CancelOnTimeout, CancelRaises, Confirm,
         ConfirmFails, Finalise, BrokerAccepts, BrokerRefuses, WireLoses, Fill,
         OrderCloses, Crash

\* The call of thread t ends with result r; a fill is only ever reported of the
\* order as the call last read it.
Reports(t, r) ==
    /\ step[t] # "idle"
    /\ step'[t] = "idle"
    /\ \A u \in Threads : u # t => step'[u] = step[u] /\ payload'[u] = payload[u]
    /\ UNCHANGED <<verdict, nonces>>
    /\ \E status \in Status, filled \in 0 .. MaxContracts :
          /\ r = [nonce |-> payload[t].nonce, hash |-> payload[t].hash,
                  id |-> ClientOrderId(payload[t]), status |-> status,
                  contracts |-> payload[t].contracts, filled |-> filled]
          /\ status \in {"FILLED", "PARTIAL"} =>
                /\ step[t] = "finalising"
                /\ status = Classify(seen[t])
                /\ filled = seen[t].filled

ResultsEvolve ==
    \/ ended' = ended
    \/ \E t \in Threads : \E r : Reports(t, r) /\ ended' = ended \cup {r}

LEMMA StatusNames ==
    {"FILLED", "PARTIAL", "CANCELLED", "REJECTED", "TIMED_OUT", "FAILED", "RAISED"}
        \subseteq Status
BY DEF Status

\* A call that ends without claiming a fill.
LEMMA EndReports ==
    ASSUME CallTypes, NEW t \in Threads, NEW status \in Status,
           NEW filled \in 0 .. MaxContracts, step[t] # "idle",
           End(t, status, filled), UNCHANGED kernelVars,
           status \in {"FILLED", "PARTIAL"} =>
               /\ step[t] = "finalising"
               /\ status = Classify(seen[t])
               /\ filled = seen[t].filled
    PROVE  ResultsEvolve
<1>. DEFINE r == [nonce |-> payload[t].nonce, hash |-> payload[t].hash,
                  id |-> ClientOrderId(payload[t]), status |-> status,
                  contracts |-> payload[t].contracts, filled |-> filled]
<1>1. ended' = ended \cup {r}
  BY DEF End
<1>2. /\ step'[t] = "idle"
      /\ \A u \in Threads : u # t => step'[u] = step[u] /\ payload'[u] = payload[u]
      /\ UNCHANGED <<verdict, nonces>>
  BY DEF End, CallTypes, kernelVars
<1>3. Reports(t, r)
  BY <1>2 DEF Reports
<1>. QED
  BY <1>1, <1>3 DEF ResultsEvolve

LEMMA ResultsStep ==
    ASSUME TypeOK, SeenOK, [Next]_vars
    PROVE  ResultsEvolve
<1>0. CallTypes /\ 0 \in 0 .. MaxContracts
  BY DEF TypeOK, CallTypes
<1>1. ASSUME NEW t \in Threads, NEW status \in {"REJECTED", "FAILED", "TIMED_OUT",
                                                "RAISED"},
             step[t] # "idle", End(t, status, 0), UNCHANGED kernelVars
      PROVE  ResultsEvolve
  BY <1>0, <1>1, StatusNames, EndReports
<1>2. CASE UNCHANGED ended
  BY <1>2 DEF ResultsEvolve
<1>3. ASSUME NEW t \in Threads, Finalise(t)
      PROVE  ResultsEvolve
  <2>1. Classify(seen[t]) \in Status
    BY DEF Classify, Status
  <2>2. seen[t].filled \in 0 .. MaxContracts
    BY <1>0, <1>3 DEF Finalise, SeenOK, Reading, BrokerOrder
  <2>3. step[t] = "finalising" /\ End(t, Classify(seen[t]), seen[t].filled)
        /\ UNCHANGED kernelVars
    BY <1>3 DEF Finalise
  <2>. QED
    BY <1>0, <2>1, <2>2, <2>3, EndReports
<1>4. ASSUME NEW t \in Threads, EngineStep(t)
      PROVE  ResultsEvolve
  <2>1. CASE NotTransmitted(t)
    BY <1>1, <2>1 DEF NotTransmitted
  <2>2. CASE LookupFindsNothing(t) \/ SubmitMisread(t)
    BY <1>1, <2>2 DEF LookupFindsNothing, SubmitMisread
  <2>3. CASE PollFails(t)
    BY <1>1, <2>3 DEF PollFails, MustPoll
  <2>4. CASE CancelRaises(t)
    BY <1>1, <2>4 DEF CancelRaises, DeadlinePasses, MustPoll
  <2>5. CASE Confirm(t)
    BY <1>1, <1>2, <2>5 DEF Confirm
  <2>6. CASE ConfirmFails(t)
    BY <1>1, <1>2, <2>6 DEF ConfirmFails
  <2>. QED
    BY <1>2, <1>3, <1>4, <2>1, <2>2, <2>3, <2>4, <2>5, <2>6
       DEF EngineStep, Submit, SubmitFaults, LookupFinds, Poll, PollEnds,
           CancelOnTimeout
<1>5. ASSUME NEW m \in wire, BrokerRefuses(m)
      PROVE  ResultsEvolve
  BY <1>1, <1>2, <1>5 DEF BrokerRefuses, Awaits
<1>. QED
  BY <1>2, <1>4, <1>5
     DEF Next, BrokerStep, vars, Mint, TtlElapses, Execute, BrokerAccepts,
         WireLoses, Fill, OrderCloses, Crash

(***************************************************************************)
(* IInv is inductive                                                       *)
(***************************************************************************)

LEMMA InitInv == Init => IInv
<1>. SUFFICES ASSUME Init PROVE IInv
  OBVIOUS
<1>1. NotMinted \in Verdict /\ 0 \in 0 .. MaxRetries /\ "idle" \in Step
  BY DEF NotMinted, Verdict, Step
<1>2. TypeOK
  BY <1>1 DEF Init, TypeOK
<1>. QED
  BY <1>2 DEF Init, IInv, PayloadOK, WireOK, OrdersOK, SeenOK, EndedOK, Reading,
              VerdictUsedOnce, ReportedFillsAreReal

\* The types of what the Kernel and the clock own.
LEMMA VerdictTypes ==
    ASSUME TypeOK, [Next]_vars
    PROVE  /\ verdict' \in [Verdicts -> Verdict]
           /\ expired' \subseteq Verdicts
           /\ nonces' \subseteq Verdicts
<1>1. CASE UNCHANGED kernelVars
  BY <1>1 DEF kernelVars, TypeOK
<1>2. ASSUME NEW t \in Threads, NEW v \in Verdicts, Mint(t, v)
      PROVE  /\ verdict' \in [Verdicts -> Verdict]
             /\ UNCHANGED <<expired, nonces>>
  <2>1. PICK p \in Proposals, n \in 0 .. MaxContracts :
           verdict' = [verdict EXCEPT ![v] =
               [owner |-> t, hash |-> p, contracts |-> n,
                decision |-> IF n > 0 THEN "APPROVE" ELSE "REJECT"]]
    BY <1>2 DEF Mint
  <2>2. [owner |-> t, hash |-> p, contracts |-> n,
         decision |-> IF n > 0 THEN "APPROVE" ELSE "REJECT"] \in Verdict
    BY DEF Verdict
  <2>. QED
    BY <1>2, <2>1, <2>2 DEF Mint, TypeOK
<1>3. CASE Crash
  <2>1. \A v \in Verdicts : [verdict[v] EXCEPT !.owner = Nobody] \in Verdict
    BY DEF TypeOK, Verdict
  <2>. QED
    BY <1>3, <2>1 DEF Crash, TypeOK
<1>. QED
  BY <1>1, <1>2, <1>3
     DEF Next, BrokerStep, EngineStep, TypeOK, vars, kernelVars, TtlElapses, Execute,
         NotTransmitted, Submit, SubmitFaults, SubmitMisread, LookupFinds, LookupFindsNothing,
         Poll, PollFails, PollEnds, CancelOnTimeout, CancelRaises, Confirm,
         ConfirmFails, Finalise, BrokerAccepts, BrokerRefuses, WireLoses, Fill,
         OrderCloses

\* A running call's payload is what a submission or a result is made of.
LEMMA PayloadTypes ==
    ASSUME PayloadOK, NEW t \in Threads, step[t] # "idle"
    PROVE  /\ payload[t].nonce \in Verdicts
           /\ payload[t].hash \in Proposals
           /\ payload[t].contracts \in 1 .. MaxContracts
           /\ ClientOrderId(payload[t]) \in ClientOrderIds
<1>1. payload[t] \in Payload
  BY DEF PayloadOK
<1>2. /\ payload[t].nonce \in Verdicts
      /\ payload[t].hash \in Proposals
      /\ payload[t].contracts \in 1 .. MaxContracts
  BY <1>1 DEF Payload
<1>. QED
  BY <1>2 DEF ClientOrderIds

LEMMA TypeStep ==
    ASSUME TypeOK, PayloadOK, WireOK, SeenOK, OrdersOK, [Next]_vars
    PROVE  TypeOK'
<1>1. CallsEvolve
  BY CallsStep
<1>2. wire' \subseteq Submission
  <2>. SUFFICES ASSUME NEW m \in wire' PROVE m \in Submission
    OBVIOUS
  <2>1. CASE m \in wire
    BY <2>1 DEF TypeOK
  <2>2. ASSUME NEW t \in Threads, step[t] # "idle", attempt[t] < MaxRetries,
               m = [id |-> ClientOrderId(payload[t]), hash |-> payload[t].hash,
                    nonce |-> payload[t].nonce, attempt |-> attempt[t] + 1,
                    qty |-> payload[t].contracts]
        PROVE  m \in Submission
    <3>1. attempt[t] + 1 \in 1 .. MaxRetries
      BY <2>2 DEF TypeOK
    <3>. QED
      BY <2>2, <3>1, PayloadTypes DEF Submission
  <2>. QED
    BY <2>1, <2>2, WireStep DEF WireEvolves
<1>3. /\ DOMAIN orders' \subseteq ClientOrderIds
      /\ \A id \in DOMAIN orders' : orders'[id] \in BrokerOrder
  <2>1. OrdersEvolve
    BY OrdersStep
  <2>2. \A id \in DOMAIN orders : orders'[id] \in BrokerOrder
    BY <2>1 DEF OrdersEvolve, Advances, Sound
  <2>3. ASSUME NEW id \in DOMAIN orders', Arrives(id, orders'[id])
        PROVE  id \in ClientOrderIds /\ orders'[id] \in BrokerOrder
    BY <2>3 DEF Arrives, TypeOK, Submission, BrokerOrder, OrderState,
                TerminalStates, LiveStates
  <2>. QED
    BY <2>1, <2>2, <2>3 DEF OrdersEvolve, TypeOK
<1>4. ended' \subseteq Result
  <2>1. ASSUME NEW t \in Threads, NEW r, Reports(t, r)
        PROVE  r \in Result
    BY <2>1, PayloadTypes DEF Reports, Result
  <2>. QED
    BY <2>1, ResultsStep DEF ResultsEvolve, TypeOK
<1>. QED
  BY <1>1, <1>2, <1>3, <1>4, VerdictTypes DEF CallsEvolve, TypeOK

LEMMA PayloadStep ==
    ASSUME IInv, [Next]_vars
    PROVE  PayloadOK'
<1>1. VerdictsEvolve /\ CallsEvolve
  BY VerdictsStep, CallsStep DEF IInv
<1>. SUFFICES ASSUME NEW t \in Threads, step'[t] # "idle"
     PROVE  /\ payload'[t] \in Payload
            /\ Approves(payload[t].nonce, payload[t].hash, payload[t].contracts)'
            /\ verdict'[payload'[t].nonce].owner = t
            /\ payload'[t].nonce \in nonces'
  BY DEF PayloadOK, Approves
<1>2. CASE GoesOn(t)
  <2>1. /\ payload[t] \in Payload
        /\ Approves(payload[t].nonce, payload[t].hash, payload[t].contracts)
        /\ verdict[payload[t].nonce].owner = t
        /\ payload[t].nonce \in nonces
        /\ payload'[t] = payload[t]
    BY <1>2 DEF GoesOn, IInv, PayloadOK
  <2>2. payload[t].nonce \in Verdicts
    BY <2>1 DEF Payload
  <2>3. /\ nonces \subseteq nonces'
        /\ verdict[payload[t].nonce].decision = "APPROVE" =>
              verdict'[payload[t].nonce] = verdict[payload[t].nonce]
    BY <1>1, <2>2 DEF VerdictsEvolve
  <2>. QED
    BY <2>1, <2>3 DEF Approves
<1>3. CASE Enters(t)
  <2>1. PICK v \in Verdicts, p \in Proposals :
           /\ Authorizes(v, p)
           /\ verdict[v].owner = t
           /\ payload'[t] = [nonce |-> v, hash |-> p,
                             contracts |-> verdict[v].contracts]
           /\ nonces' = nonces \cup {v}
    BY <1>3 DEF Enters
  <2>2. verdict' = verdict
    BY <1>3 DEF Enters
  <2>3. verdict[v].contracts \in 1 .. MaxContracts
    BY <2>1 DEF Authorizes, IInv, TypeOK, Verdict
  <2>. QED
    BY <2>1, <2>2, <2>3 DEF Authorizes, Approves, Payload
<1>. QED
  BY <1>1, <1>2, <1>3 DEF CallsEvolve, Leaves

LEMMA WireOKStep ==
    ASSUME IInv, [Next]_vars
    PROVE  WireOK'
<1>1. VerdictsEvolve /\ WireEvolves
  BY VerdictsStep, WireStep DEF IInv
<1>. SUFFICES ASSUME NEW m \in wire'
     PROVE  m.id = ClientOrderId(m) /\ Approves(m.nonce, m.hash, m.qty)'
  BY DEF WireOK, Approves
<1>2. CASE m \in wire
  <2>1. m.nonce \in Verdicts
    BY <1>2 DEF IInv, TypeOK, Submission
  <2>. QED
    BY <1>1, <1>2, <2>1 DEF VerdictsEvolve, IInv, WireOK
<1>3. ASSUME NEW t \in Threads, step[t] # "idle",
             m = [id |-> ClientOrderId(payload[t]), hash |-> payload[t].hash,
                  nonce |-> payload[t].nonce, attempt |-> attempt[t] + 1,
                  qty |-> payload[t].contracts]
      PROVE  m.id = ClientOrderId(m) /\ Approves(m.nonce, m.hash, m.qty)'
  <2>1. Approves(payload[t].nonce, payload[t].hash, payload[t].contracts)
    BY <1>3 DEF IInv, PayloadOK
  <2>2. payload[t].nonce \in Verdicts
    BY <1>3, PayloadTypes DEF IInv
  <2>3. /\ m.id = ClientOrderId(m) /\ m.nonce = payload[t].nonce
        /\ m.hash = payload[t].hash /\ m.qty = payload[t].contracts
    BY <1>3
  <2>. QED
    BY <1>1, <2>1, <2>2, <2>3 DEF VerdictsEvolve
<1>. QED
  BY <1>1, <1>2, <1>3 DEF WireEvolves

\* An approval that covers an order goes on covering it.
LEMMA CoveredStays ==
    ASSUME VerdictsEvolve, NEW p, NEW n, Covered(p, n)
    PROVE  Covered(p, n)'
BY DEF VerdictsEvolve, Covered, Approves

LEMMA OrdersOKStep ==
    ASSUME IInv, [Next]_vars
    PROVE  OrdersOK'
<1>1. VerdictsEvolve /\ OrdersEvolve
  BY VerdictsStep, OrdersStep DEF IInv
<1>. SUFFICES ASSUME NEW id \in DOMAIN orders'
     PROVE  /\ id = ClientOrderId(orders'[id])
            /\ Sound(orders'[id])
            /\ Covered(orders[id].hash, orders[id].qty)'
  BY DEF OrdersOK, Covered
<1>2. CASE id \in DOMAIN orders
  <2>1. Advances(orders[id], orders'[id])
    BY <1>1, <1>2 DEF OrdersEvolve
  <2>2. /\ id = ClientOrderId(orders[id])
        /\ Covered(orders[id].hash, orders[id].qty)
    BY <1>2 DEF IInv, OrdersOK
  <2>3. Covered(orders[id].hash, orders[id].qty)'
    BY <1>1, <2>1, <2>2 DEF VerdictsEvolve, Covered, Approves, Advances
  <2>. QED
    BY <2>1, <2>2, <1>1 DEF Advances, VerdictsEvolve, Covered, Approves
<1>3. CASE id \notin DOMAIN orders
  <2>1. PICK m \in wire, s \in {"new", "rejected"} :
           /\ id = m.id
           /\ orders'[id] = [hash |-> m.hash, state |-> s, filled |-> 0, qty |-> m.qty]
    BY <1>1, <1>3 DEF OrdersEvolve, Arrives
  <2>2. m \in Submission /\ m.id = ClientOrderId(m) /\ Approves(m.nonce, m.hash, m.qty)
    BY DEF IInv, TypeOK, WireOK
  <2>3. Sound(orders'[id])
    BY <2>1, <2>2 DEF Sound, Submission, BrokerOrder, OrderState, TerminalStates,
                      LiveStates
  <2>4. Covered(orders[id].hash, orders[id].qty)'
    BY <1>1, <2>1, <2>2 DEF VerdictsEvolve, Covered, Approves, Submission
  <2>. QED
    BY <2>1, <2>2, <2>3, <2>4
<1>. QED
  BY <1>2, <1>3

LEMMA SeenOKStep ==
    ASSUME IInv, [Next]_vars
    PROVE  SeenOK'
<1>1. CallsEvolve /\ OrdersEvolve /\ OrdersOK'
  BY CallsStep, OrdersStep, OrdersOKStep DEF IInv
<1>. SUFFICES ASSUME NEW t \in Threads, step'[t] \in Reading
     PROVE  /\ ClientOrderId(payload'[t]) \in DOMAIN orders'
            /\ seen'[t] \in BrokerOrder
            /\ seen'[t].state \in TerminalStates =>
                  seen'[t] = orders'[ClientOrderId(payload'[t])]
  BY DEF SeenOK
<1>2. GoesOn(t)
  BY <1>1 DEF CallsEvolve, Leaves, Enters, Reading
<1>3. CASE step[t] \in Reading /\ seen'[t] = seen[t]
  BY <1>1, <1>2, <1>3 DEF GoesOn, OrdersEvolve, Advances, IInv, SeenOK
<1>4. CASE /\ ClientOrderId(payload[t]) \in DOMAIN orders'
           /\ seen'[t] = orders'[ClientOrderId(payload[t])]
  BY <1>1, <1>2, <1>4 DEF GoesOn, OrdersOK, Sound
<1>. QED
  BY <1>2, <1>3, <1>4 DEF GoesOn

LEMMA EndedOKStep ==
    ASSUME IInv, [Next]_vars
    PROVE  EndedOK'
<1>1. VerdictsEvolve /\ ResultsEvolve
  BY VerdictsStep, ResultsStep DEF IInv
<1>2. ASSUME NEW r \in ended
      PROVE  /\ verdict'[r.nonce].decision = "APPROVE"
             /\ r.nonce \in nonces' \/ verdict'[r.nonce].owner = Nobody
  <2>1. r.nonce \in Verdicts
    BY DEF IInv, TypeOK, Result
  <2>2. /\ verdict[r.nonce].decision = "APPROVE"
        /\ r.nonce \in nonces \/ verdict[r.nonce].owner = Nobody
    BY DEF IInv, EndedOK
  <2>. QED
    BY <1>1, <2>1, <2>2 DEF VerdictsEvolve, Approves
<1>3. ASSUME NEW t \in Threads, NEW r, Reports(t, r)
      PROVE  /\ verdict'[r.nonce].decision = "APPROVE"
             /\ r.nonce \in nonces'
  BY <1>3 DEF Reports, IInv, PayloadOK, Approves
<1>. QED
  BY <1>1, <1>2, <1>3 DEF ResultsEvolve, EndedOK

LEMMA UsedOnceStep ==
    ASSUME IInv, [Next]_vars
    PROVE  VerdictUsedOnce'
<1>1. VerdictsEvolve /\ CallsEvolve /\ ResultsEvolve
  BY VerdictsStep, CallsStep, ResultsStep DEF IInv
<1>2. \A t \in Threads : step[t] # "idle" => payload[t].nonce \in nonces
  BY DEF IInv, PayloadOK
<1>3. ASSUME NEW t \in Threads, NEW u \in Threads, t # u,
             step'[t] # "idle", step'[u] # "idle"
      PROVE  payload'[t].nonce # payload'[u].nonce
  <2>1. ASSUME NEW x \in Threads, NEW y \in Threads, x # y, Enters(x),
               step'[y] # "idle"
        PROVE  payload'[x].nonce # payload'[y].nonce
    <3>1. payload'[x].nonce \notin nonces
      BY <2>1 DEF Enters, Authorizes
    <3>2. CASE GoesOn(y)
      BY <1>2, <3>1, <3>2 DEF GoesOn
    <3>3. CASE Enters(y)
      BY <2>1, <3>3 DEF Enters
    <3>. QED
      BY <1>1, <2>1, <3>2, <3>3 DEF CallsEvolve, Leaves
  <2>2. CASE GoesOn(t) /\ GoesOn(u)
    BY <1>3, <2>2 DEF GoesOn, IInv, VerdictUsedOnce
  <2>. QED
    BY <1>1, <1>3, <2>1, <2>2 DEF CallsEvolve, Leaves
<1>4. ASSUME NEW t \in Threads, NEW r \in ended', step'[t] # "idle"
      PROVE  r.nonce # payload'[t].nonce
  <2>1. ASSUME NEW u \in Threads, Reports(u, r)
        PROVE  r.nonce # payload'[t].nonce
    BY <1>4, <2>1 DEF Reports, IInv, VerdictUsedOnce
  <2>2. CASE r \in ended /\ GoesOn(t)
    BY <2>2 DEF GoesOn, IInv, VerdictUsedOnce
  <2>3. CASE r \in ended /\ Enters(t)
    BY <2>3 DEF Enters, Authorizes, IInv, EndedOK
  <2>. QED
    BY <1>1, <1>4, <2>1, <2>2, <2>3 DEF CallsEvolve, ResultsEvolve, Leaves
<1>5. ASSUME NEW r \in ended', NEW s \in ended', r.nonce = s.nonce
      PROVE  r = s
  <2>1. ASSUME NEW t \in Threads, NEW x, Reports(t, x), NEW y \in ended
        PROVE  x.nonce # y.nonce
    BY <2>1 DEF Reports, IInv, VerdictUsedOnce
  <2>. QED
    BY <1>1, <1>5, <2>1 DEF ResultsEvolve, IInv, VerdictUsedOnce
<1>. QED
  BY <1>3, <1>4, <1>5 DEF VerdictUsedOnce

LEMMA RealFillsStep ==
    ASSUME IInv, [Next]_vars
    PROVE  ReportedFillsAreReal'
<1>1. OrdersEvolve /\ ResultsEvolve
  BY OrdersStep, ResultsStep DEF IInv
<1>. DEFINE Real(r, o) == /\ o.state \in TerminalStates
                          /\ o.filled = r.filled
                          /\ r.filled > 0
                          /\ r.status = "FILLED" <=> r.filled = o.qty
<1>2. ASSUME NEW id \in DOMAIN orders, orders[id].state \in TerminalStates
      PROVE  id \in DOMAIN orders' /\ orders'[id] = orders[id]
  BY <1>1, <1>2 DEF OrdersEvolve, Advances
<1>3. ASSUME NEW r \in ended, r.status \in {"FILLED", "PARTIAL"}
      PROVE  r.id \in DOMAIN orders' /\ Real(r, orders'[r.id])
  BY <1>2, <1>3 DEF IInv, ReportedFillsAreReal
<1>4. ASSUME NEW t \in Threads, NEW r, Reports(t, r),
             r.status \in {"FILLED", "PARTIAL"}
      PROVE  r.id \in DOMAIN orders' /\ Real(r, orders'[r.id])
  <2>1. /\ step[t] = "finalising"
        /\ r.id = ClientOrderId(payload[t])
        /\ r.status = Classify(seen[t])
        /\ r.filled = seen[t].filled
    BY <1>4 DEF Reports
  <2>2. \/ IsPartial(seen[t]) /\ r.status = "PARTIAL"
        \/ seen[t].state = "filled" /\ r.status = "FILLED"
    BY <1>4, <2>1 DEF Classify
  <2>3. seen[t].state \in TerminalStates
    BY <2>2 DEF IsPartial, TerminalStates
  <2>4. r.id \in DOMAIN orders /\ seen[t] = orders[r.id]
    BY <2>1, <2>3 DEF IInv, SeenOK, Reading
  <2>5. Sound(orders[r.id])
    BY <2>4 DEF IInv, OrdersOK
  <2>6. Real(r, orders[r.id])
    BY <2>1, <2>2, <2>3, <2>4, <2>5 DEF Sound, BrokerOrder, IsPartial
  <2>. QED
    BY <1>2, <2>3, <2>4, <2>6
<1>. QED
  BY <1>1, <1>3, <1>4 DEF ResultsEvolve, ReportedFillsAreReal

LEMMA NextInv == IInv /\ [Next]_vars => IInv'
BY TypeStep, PayloadStep, WireOKStep, OrdersOKStep, SeenOKStep, EndedOKStep,
   UsedOnceStep, RealFillsStep
   DEF IInv

LEMMA SpecInv == Spec => []IInv
BY InitInv, NextInv, PTL DEF Spec

(***************************************************************************)
(* The theorems                                                            *)
(***************************************************************************)

LEMMA InvApproved == IInv => OnlyApprovedOrders
BY DEF IInv, TypeOK, Submission, WireOK, OrdersOK, Approves, Covered,
       OnlyApprovedOrders

LEMMA InvOneOrder == IInv => OneOrderPerProposal
BY DEF IInv, OrdersOK, OneOrderPerProposal

\* Every variable keeps its type; the retry loop of _transmit never counts past
\* MAX_RETRIES.
THEOREM TypeCorrect == Spec => []TypeOK
BY SpecInv, PTL DEF IInv

\* Whatever reaches the wire or the broker was approved, for exactly that
\* proposal and that size: authorize() and the payload built from the verdict.
THEOREM OrdersAreApproved == Spec => []OnlyApprovedOrders
BY SpecInv, InvApproved, PTL

\* One verdict, one call: the nonce registry together with the death of the
\* verdict objects in a crash.
THEOREM VerdictsAreSingleUse == Spec => []VerdictUsedOnce
BY SpecInv, PTL DEF IInv

\* One order for each proposal, however many threads, verdicts, retries and
\* restarts: client_order_id is a function of the proposal hash.
THEOREM OrdersAreUnique == Spec => []OneOrderPerProposal
BY SpecInv, InvOneOrder, PTL

\* A reported fill is final and exact: _finalise trusts only a terminal order.
THEOREM FillsAreReal == Spec => []ReportedFillsAreReal
BY SpecInv, PTL DEF IInv

(***************************************************************************)
(* The execution path implements the promise about exposure                *)
(***************************************************************************)

\* A step that neither creates nor fills an order leaves every entry alone.
LEMMA EntriesStay ==
    ASSUME OrdersOK, DOMAIN orders' = DOMAIN orders,
           \A id \in DOMAIN orders : /\ orders'[id].hash = orders[id].hash
                                     /\ orders'[id].qty = orders[id].qty
                                     /\ orders'[id].filled = orders[id].filled
    PROVE  Book' = Book
BY DEF Book, Entry

LEMMA StateKeepsEntries ==
    ASSUME OrdersOK, NEW id \in DOMAIN orders, NEW s,
           orders' = [orders EXCEPT ![id].state = s]
    PROVE  Book' = Book
<1>1. orders'[id] = [orders[id] EXCEPT !.state = s]
  OBVIOUS
<1>2. orders[id] \in BrokerOrder
  BY DEF OrdersOK, Sound
<1>3. /\ orders'[id].hash = orders[id].hash
      /\ orders'[id].qty = orders[id].qty
      /\ orders'[id].filled = orders[id].filled
  BY <1>1, <1>2 DEF BrokerOrder
<1>. QED
  BY <1>3, EntriesStay

LEMMA AcceptPermits ==
    ASSUME IInv, NEW m \in wire, BrokerAccepts(m)
    PROVE  \E p \in Proposals, n \in 1 .. MaxContracts :
              /\ \A e \in Book : e.hash # p
              /\ Book' = Book \cup {[hash |-> p, qty |-> n, filled |-> 0]}
<1>1. PICK s \in {"new", "rejected"} :
         orders' = [id \in DOMAIN orders \cup {m.id} |->
                      IF id = m.id THEN [hash |-> m.hash, state |-> s,
                                         filled |-> 0, qty |-> m.qty]
                      ELSE orders[id]]
  BY DEF BrokerAccepts
<1>2. m.id \notin DOMAIN orders /\ m.id = ClientOrderId(m)
  BY DEF BrokerAccepts, IInv, WireOK
<1>3. m.hash \in Proposals /\ m.qty \in 1 .. MaxContracts
  BY DEF IInv, TypeOK, Submission
<1>4. \A e \in Book : e.hash # m.hash
  BY <1>2 DEF Book, Entry, IInv, OrdersOK
<1>5. /\ DOMAIN orders' = DOMAIN orders \cup {m.id}
      /\ \A id \in DOMAIN orders : orders'[id] = orders[id]
      /\ orders'[m.id] = [hash |-> m.hash, state |-> s, filled |-> 0, qty |-> m.qty]
  BY <1>1, <1>2
<1>6. Book' = Book \cup {[hash |-> m.hash, qty |-> m.qty, filled |-> 0]}
  BY <1>5 DEF Book, Entry
<1>. QED
  BY <1>3, <1>4, <1>6

LEMMA FillTakes ==
    ASSUME IInv, NEW id \in DOMAIN orders, Fill(id)
    PROVE  \E e \in Book :
              /\ e.filled < e.qty
              /\ Book' = (Book \ {e}) \cup {[e EXCEPT !.filled = @ + 1]}
<1>. DEFINE e == Entry(orders[id])
            f == [hash |-> e.hash, qty |-> e.qty, filled |-> e.filled + 1]
<1>1. \A i \in DOMAIN orders : Sound(orders[i]) /\ i = ClientOrderId(orders[i])
  BY DEF IInv, OrdersOK
<1>2. e \in Book /\ e.filled < e.qty
  <2>1. orders[id].filled < orders[id].qty
    BY <1>1 DEF Fill, Sound, BrokerOrder, LiveStates
  <2>2. e.filled = orders[id].filled /\ e.qty = orders[id].qty
    BY DEF Entry
  <2>3. e \in Book
    BY DEF Book
  <2>. QED
    BY <2>1, <2>2, <2>3
<1>3. /\ DOMAIN orders' = DOMAIN orders
      /\ \A i \in DOMAIN orders : i # id => orders'[i] = orders[i]
      /\ Entry(orders'[id]) = f
  BY DEF Fill, Entry
<1>4. \A i \in DOMAIN orders : i # id => Entry(orders[i]) # e
  BY <1>1 DEF Entry
<1>5. Book' = (Book \ {e}) \cup {f}
  <2>1. ASSUME NEW x \in Book' PROVE x \in (Book \ {e}) \cup {f}
    BY <1>3, <1>4, <2>1 DEF Book
  <2>2. ASSUME NEW x \in (Book \ {e}) \cup {f} PROVE x \in Book'
    BY <1>3, <2>2 DEF Book
  <2>. QED
    BY <2>1, <2>2
<1>6. [e EXCEPT !.filled = @ + 1] = f
  BY DEF Entry
<1>. QED
  BY <1>2, <1>5, <1>6

LEMMA PromiseStep ==
    ASSUME IInv, [Next]_vars
    PROVE  \/ Book' = Book
           \/ \E p \in Proposals, n \in 1 .. MaxContracts :
                 /\ \A e \in Book : e.hash # p
                 /\ Book' = Book \cup {[hash |-> p, qty |-> n, filled |-> 0]}
           \/ \E e \in Book :
                 /\ e.filled < e.qty
                 /\ Book' = (Book \ {e}) \cup {[e EXCEPT !.filled = @ + 1]}
<1>1. CASE UNCHANGED orders
  BY <1>1 DEF Book
<1>2. OrdersOK /\ SeenOK
  BY DEF IInv
<1>3. ASSUME NEW t \in Threads, CancelOnTimeout(t) \/ CancelRaises(t)
      PROVE  Book' = Book
  <2>1. ClientOrderId(payload[t]) \in DOMAIN orders
    BY <1>2, <1>3
       DEF CancelOnTimeout, CancelRaises, DeadlinePasses, MustPoll, SeenOK, Reading
  <2>2. \/ UNCHANGED orders
        \/ \E s \in OrderState :
              orders' = [orders EXCEPT ![ClientOrderId(payload[t])].state = s]
    BY <1>3 DEF CancelOnTimeout, CancelRaises, OrderState, TerminalStates, LiveStates
  <2>. QED
    BY <1>2, <2>1, <2>2, StateKeepsEntries DEF Book
<1>4. ASSUME NEW id \in DOMAIN orders, OrderCloses(id)
      PROVE  Book' = Book
  BY <1>2, <1>4, StateKeepsEntries DEF OrderCloses
<1>. QED
  BY <1>1, <1>3, <1>4, AcceptPermits, FillTakes
     DEF Next, BrokerStep, EngineStep, vars, kernelVars, Mint, TtlElapses, Execute,
         NotTransmitted, Submit, SubmitFaults, SubmitMisread, LookupFinds, LookupFindsNothing,
         Poll, PollFails, PollEnds, Confirm, ConfirmFails, Finalise,
         BrokerRefuses, WireLoses, Crash

\* The execution path refines Exposure: one permit for each proposal, never
\* renewed, and never exceeded by what the broker fills.
THEOREM ImplementsPromise == Spec => ImplementsExposure
<1>1. Init => Promise!Init
  BY DEF Init, Promise!Init, Book
<1>2. IInv /\ [Next]_vars => [Promise!Next]_Book
  <2>. SUFFICES ASSUME IInv, [Next]_vars PROVE [Promise!Next]_Book
    OBVIOUS
  <2>. QED
    BY PromiseStep DEF Promise!Next, Promise!Permit, Promise!Take
<1>. QED
  BY <1>1, <1>2, SpecInv, PTL DEF Spec, ImplementsExposure, Promise!Spec
=============================================================================
