------------------------------- MODULE Claims -------------------------------
(***************************************************************************)
(* The Claims Desk over the life of a few policies: the management cycle   *)
(* prices what is open, decides what to close and at what limit, and sends *)
(* it; days pass, with sessions and weekends.                              *)
(*                                                                         *)
(* Time moves in segments: the hours before a session, the session and the *)
(* hours after it, all of one UTC date, which is the date the desk works   *)
(* with.  A cycle takes minutes and a segment hours, so time only moves on *)
(* once a cycle that began in the segment has come to an end.              *)
(*                                                                         *)
(* The engine is reduced to the end of a call (Execution has the detail,   *)
(* Desk the races of a close), the Kernel to the halt, the only thing left *)
(* that refuses a close in the running desk (Portfolio).  Amounts are      *)
(* cents per share.  What a verdict escalates is text in a report, and     *)
(* left out.                                                               *)
(***************************************************************************)
EXTENDS Integers

CONSTANTS
    Policies,
    Terms,          \* Terms[p]: opening credit, short and long strike, expiry
    Quotes,         \* what the data source may answer on a policy's legs:
                    \* short ask, long bid and the last close, each missing
                    \* (an empty set) or there (a set of one)
    Halts,          \* what an operator may set the halt to
    OutOfHours,     \* what may become of an order out of hours
    LastDay         \* bound: time stops after this date

ASSUME TermsAssumption ==
    /\ Terms \in [Policies -> [credit : Nat, short : Nat, long : Nat, expiry : Nat]]
    /\ \A p \in Policies : Terms[p].long < Terms[p].short
ASSUME QuotesAssumption ==
    Quotes \subseteq [ask : SUBSET Nat, bid : SUBSET Nat, close : SUBSET Nat]
ASSUME OutcomesAssumption ==
    /\ Halts \subseteq BOOLEAN /\ LastDay \in Nat
    /\ OutOfHours \subseteq {"refused", "cancelled"} /\ OutOfHours # {}

VARIABLES
    day,            \* the UTC date; day 0 is a Monday
    session,        \* where in that date
    managed,        \* a cycle that began in this segment has ended, or failed
    halted,         \* HALT, or the kill switch
    open,           \* policies at OPEN; nothing settles one
    exit,           \* exit[p]: the broker's closing order, if there is one
    mg,             \* the management cycle
    excused         \* history: policies a cycle meant to close, or did not come
                    \* to, and left without an order: refusals and aborts

vars == <<day, session, managed, halted, open, exit, mg, excused>>

(***************************************************************************)
(* Terms                                                                   *)
(***************************************************************************)
PROFIT_TARGET_PCT == 50
STOP_LOSS_MULTIPLE == 2
FORCE_FLAT_DTE == 2

Dte(p, today) == Terms[p].expiry - today
Width(p) == Terms[p].short - Terms[p].long

\* MAX_DTE and the entry floor of SK-011.
MayOpen(p, today) == Dte(p, today) \in 7 .. 21

TradingDay(d) == d % 7 \in 0 .. 4

(***************************************************************************)
(* Pricing                                                                 *)
(***************************************************************************)
\* Buy the short leg at its ask, sell the long one at its bid, never below zero;
\* nothing unless both are there.
CostToClose(q) ==
    {IF a > b THEN a - b ELSE 0 : a \in {x \in q.ask : x > 0}, b \in q.bid}

Position(q) == [cost |-> CostToClose(q), price |-> q.close]

(***************************************************************************)
(* The decision                                                            *)
(***************************************************************************)
Breached(p, pos) == \E x \in pos.price : x <= Terms[p].short

\* Mutant: the boundary itself is held.
StoppedAbove(p, pos) == \E c \in pos.cost : c > STOP_LOSS_MULTIPLE * Terms[p].credit

AtStop(p, pos) == \E c \in pos.cost : c >= STOP_LOSS_MULTIPLE * Terms[p].credit
AtTarget(p, pos) ==
    \E c \in pos.cost : 100 * c <= (100 - PROFIT_TARGET_PCT) * Terms[p].credit

\* Mutant: a position without a price is set aside before anything is asked.
ClosesWhenPriced(p, pos, today) ==
    /\ pos.cost # {}
    /\ \/ Dte(p, today) <= FORCE_FLAT_DTE
       \/ AtStop(p, pos) \/ Breached(p, pos) \/ AtTarget(p, pos)

\* evaluate().should_close: all but the force flat need a price.  Which reason
\* is named, when several hold, changes nothing but the report.
ShouldClose(p, pos, today) ==
    \/ Dte(p, today) <= FORCE_FLAT_DTE
    \/ /\ pos.cost # {}
       /\ AtStop(p, pos) \/ Breached(p, pos) \/ AtTarget(p, pos)

\* Mutant: without a price the short strike is bid.
TargetAtStrike(p, pos) == IF pos.cost = {} THEN {Terms[p].short} ELSE pos.cost

\* evaluate().target_debit: the cost to close, or the width when there is none.
TargetDebit(p, pos) == IF pos.cost = {} THEN {Width(p)} ELSE pos.cost

\* A target of zero is sent as a cent.
LimitPrice(p, pos) == {IF t = 0 THEN 1 ELSE t : t \in TargetDebit(p, pos)}

(***************************************************************************)
(* Life of the policies                                                    *)
(***************************************************************************)
Idle == [at |-> "idle", today |-> 0, halted |-> FALSE,
         quotes |-> [p \in {} |-> p], left |-> {}, chosen |-> {}]

\* A contract trades up to the close of its last day.
Alive(p) == Dte(p, day) > 0 \/ (Dte(p, day) = 0 /\ session # "post")

Init ==
    /\ day = 0 /\ session = "pre" /\ managed = FALSE
    /\ halted \in Halts \cup {FALSE}
    /\ open = {} /\ exit = [p \in Policies |-> {}]
    /\ mg = Idle /\ excused = {}

\* An entry fills and its policy is recorded.
Open(p) ==
    /\ session = "open" /\ p \notin open /\ MayOpen(p, day) /\ ~halted
    /\ open' = open \cup {p}
    /\ UNCHANGED <<day, session, managed, halted, exit, mg, excused>>

\* A cycle works with the mode it read at its start, so a change meanwhile is
\* as good as one after it.
SetHalt ==
    /\ mg.at = "idle" /\ halted' \in Halts
    /\ UNCHANGED <<day, session, managed, open, exit, mg, excused>>

\* No contract is quoted once it has expired.
QuotesOf(p) == {q \in Quotes : Alive(p) \/ q.ask = {}}

(***************************************************************************)
(* The management cycle                                                    *)
(***************************************************************************)
\* open_positions() and the context that follows it.
StartManagement ==
    /\ mg.at = "idle" /\ open # {}
    /\ \E quotes \in [open -> Quotes] :
        /\ \A p \in open : quotes[p] \in QuotesOf(p)
        /\ mg' = [at |-> "deciding", today |-> day, halted |-> halted,
                  quotes |-> quotes, left |-> open, chosen |-> {}]
    /\ UNCHANGED <<day, session, managed, halted, open, exit, excused>>

Priced(p) == Position(mg.quotes[p])
MustClose(p) == ShouldClose(p, Priced(p), mg.today)

Hold(p) ==
    /\ p \in mg.left /\ ~MustClose(p)
    /\ mg' = [mg EXCEPT !.left = @ \ {p}]
    /\ UNCHANGED <<day, session, managed, halted, open, exit, excused>>

\* The Kernel refuses: the desk was halted when the context was read.
Refuse(p) ==
    /\ p \in mg.left /\ MustClose(p) /\ mg.halted
    /\ mg' = [mg EXCEPT !.left = @ \ {p}, !.chosen = @ \cup {p}]
    /\ excused' = excused \cup {p}
    /\ UNCHANGED <<day, session, managed, halted, open, exit>>

\* What becomes of a closing order: nothing, if the broker has one under its
\* client_order_id or the contracts are gone; otherwise it is a DAY order.
Outcomes(p) ==
    IF exit[p] # {} \/ ~Alive(p) THEN {"refused"}
    ELSE IF session = "open" /\ TradingDay(day)
         THEN {"filled", "refused", "cancelled"}
         ELSE OutOfHours

Send(p) ==
    /\ p \in mg.left /\ MustClose(p) /\ ~mg.halted
    /\ \E state \in Outcomes(p), limit \in LimitPrice(p, Priced(p)) :
        /\ exit' = IF state = "refused" THEN exit
                   ELSE [exit EXCEPT ![p] =
                            {[state |-> state, limit |-> limit, quote |-> mg.quotes[p]]}]
        /\ excused' = IF state = "refused" THEN excused \cup {p} ELSE excused
    /\ mg' = [mg EXCEPT !.left = @ \ {p}, !.chosen = @ \cup {p}]
    /\ UNCHANGED <<day, session, managed, halted, open>>

\* The loop runs out of positions.
EndCycle ==
    /\ mg.at = "deciding" /\ mg.left = {}
    /\ mg' = Idle /\ managed' = TRUE
    /\ UNCHANGED <<day, session, halted, open, exit, excused>>

\* Or an exit raises, or the process dies, and the rest is not looked at.
Abort ==
    /\ mg.at = "deciding" /\ mg.left # {}
    /\ mg' = Idle /\ managed' = TRUE /\ excused' = excused \cup mg.left
    /\ UNCHANGED <<day, session, halted, open, exit>>

(***************************************************************************)
(* Time                                                                    *)
(***************************************************************************)
\* The scheduler sees to cycles in each segment; a session follows only on a
\* trading day.
Pass ==
    /\ mg.at = "idle" /\ (managed \/ open = {})
    /\ managed' = FALSE
    /\ \/ session = "pre" /\ TradingDay(day)
          /\ session' = "open" /\ excused' = {} /\ UNCHANGED day
       \/ session = "open" /\ session' = "post" /\ UNCHANGED <<day, excused>>
       \/ /\ session = "post" \/ (session = "pre" /\ ~TradingDay(day))
          /\ day < LastDay
          /\ day' = day + 1 /\ session' = "pre" /\ excused' = {}
    /\ UNCHANGED <<halted, open, exit, mg>>

Next ==
    \/ \E p \in Policies : Open(p) \/ Hold(p) \/ Refuse(p) \/ Send(p)
    \/ SetHalt \/ StartManagement \/ EndCycle \/ Abort \/ Pass

Spec == Init /\ [][Next]_vars

(***************************************************************************)
(* Properties                                                              *)
(***************************************************************************)
Orders == [state : {"filled", "cancelled"}, limit : Nat \ {0}, quote : Quotes]

\* The types: dates within the bound, at most one order for each policy, at a
\* positive limit, none for a policy never open, a cycle over open policies only.
TypeOK ==
    /\ day \in 0 .. LastDay /\ session \in {"pre", "open", "post"}
    /\ {managed, halted} \subseteq BOOLEAN
    /\ open \subseteq Policies /\ excused \subseteq open
    /\ \A p \in Policies :
        /\ exit[p] \subseteq Orders /\ \A e, f \in exit[p] : e = f
        /\ exit[p] # {} => p \in open
    /\ mg.at \in {"idle", "deciding"} /\ mg.today \in 0 .. day
    /\ DOMAIN mg.quotes \subseteq open
    /\ mg.left \subseteq DOMAIN mg.quotes
    /\ mg.chosen \subseteq DOMAIN mg.quotes \ mg.left

\* What the desk promises to close (SRS section 15.4), in money: a policy in its
\* last two days; one whose buy-back at the quoted prices would lose the credit
\* over again, or lets it keep half; one whose underlying closed at the strike
\* or below, when it can be bought back at all.
Due(p, q, today) ==
    \/ today >= Terms[p].expiry - 2
    \/ \E a \in q.ask, b \in q.bid :
        /\ a > 0
        /\ \/ a - b - Terms[p].credit >= Terms[p].credit
           \/ 2 * (a - b) <= Terms[p].credit
           \/ \E x \in q.close : x <= Terms[p].short

\* Of the policies a cycle has gone through, it chose to close those that were
\* due and no other (evaluate and cost_to_close, with their boundaries, zeros
\* and missing figures, in whatever order the policies come).
DueAndOnlyDueIsChosen ==
    \A p \in DOMAIN mg.quotes \ mg.left : p \in mg.chosen <=> Due(p, mg.quotes[p], mg.today)

\* When a session in the last two days of a policy is over, its close has been
\* sent, priced or not, in that session or before, unless a refusal or an
\* aborted cycle kept the desk from it (FR-103).
ForceFlatIsTried ==
    (session = "post" /\ TradingDay(day)) =>
        \A p \in open \ excused : Terms[p].expiry - day \in 0 .. 2 => exit[p] # {}

\* No close can cost more than the reserve set aside for the policy, the width
\* less the credit, unless the market itself asked for more (TargetDebit).
LossWithinReserve ==
    \A p \in Policies : \A e \in exit[p] :
        \/ e.limit <= Width(p)
        \/ \E a \in e.quote.ask, b \in e.quote.bid : a - b > Width(p)
=============================================================================
