---------------------------- MODULE ClaimsProofs ----------------------------
(***************************************************************************)
(* Proofs about Claims, for any policies, terms and quotes.                *)
(***************************************************************************)
EXTENDS Claims, TLAPS

(***************************************************************************)
(* The invariant                                                           *)
(***************************************************************************)

\* The shape of the functions that TypeOK does not spell out.
ShapeOK ==
    /\ exit \in [Policies -> SUBSET Orders]
    /\ mg = [at |-> mg.at, today |-> mg.today, halted |-> mg.halted,
             quotes |-> mg.quotes, left |-> mg.left, chosen |-> mg.chosen]
    /\ mg.quotes \in [DOMAIN mg.quotes -> Quotes]

\* Time stands still in a cycle, and what was opened during one is young.
CycleOK ==
    /\ mg.at = "idle" => DOMAIN mg.quotes = {}
    /\ mg.at = "deciding" =>
        /\ mg.today = day
        /\ \A p \in open \ DOMAIN mg.quotes : Dte(p, day) >= 7

\* What a cycle has gone through, and is in its last two days, has an order or
\* an excuse.
GoneThroughOK ==
    mg.at = "deciding" =>
        \A p \in DOMAIN mg.quotes \ mg.left :
            Dte(p, day) <= FORCE_FLAT_DTE => p \in excused \/ exit[p] # {}

\* After a cycle that goes for everything in the book.
ManagedOK ==
    (managed \/ session = "post") /\ (session # "pre") =>
        \A p \in open :
            Dte(p, day) <= FORCE_FLAT_DTE => p \in excused \/ exit[p] # {}

IInv ==
    /\ TypeOK /\ ShapeOK
    /\ CycleOK /\ GoneThroughOK /\ ManagedOK
    /\ DueAndOnlyDueIsChosen /\ LossWithinReserve

(***************************************************************************)
(* Lemmas about the decision                                               *)
(***************************************************************************)

\* Terms are numbers, and the short strike is above the long one.
LEMMA TermsType ==
    ASSUME NEW p \in Policies
    PROVE  /\ Terms[p].credit \in Nat /\ Terms[p].expiry \in Nat
           /\ Terms[p].short \in Nat /\ Terms[p].long \in Nat
           /\ Width(p) \in Nat \ {0}
BY TermsAssumption DEF Width

\* The cost of a close is what the two legs cost, and a number.
LEMMA CostIsQuoted ==
    ASSUME NEW q \in Quotes, NEW c \in CostToClose(q)
    PROVE  /\ c \in Nat
           /\ \E a \in q.ask, b \in q.bid :
                a > 0 /\ c = IF a > b THEN a - b ELSE 0
<1>1. PICK a \in {x \in q.ask : x > 0}, b \in q.bid : c = IF a > b THEN a - b ELSE 0
  BY DEF CostToClose
<1>2. a \in Nat /\ b \in Nat
  BY QuotesAssumption
<1> QED
  BY <1>1, <1>2

\* Wherever both legs are quoted there is a cost.
LEMMA QuotedHasCost ==
    ASSUME NEW q \in Quotes, NEW a \in q.ask, NEW b \in q.bid, a > 0
    PROVE  (IF a > b THEN a - b ELSE 0) \in CostToClose(q)
BY DEF CostToClose

\* evaluate() closes a position exactly when it is due.
LEMMA ClosesWhatIsDue ==
    ASSUME NEW p \in Policies, NEW q \in Quotes, NEW today \in Nat
    PROVE  ShouldClose(p, Position(q), today) <=> Due(p, q, today)
<1> DEFINE pos == Position(q)
<1>1. /\ pos.cost = CostToClose(q) /\ pos.price = q.close
  BY DEF Position
<1>2. Dte(p, today) <= FORCE_FLAT_DTE <=> today >= Terms[p].expiry - 2
  BY TermsType DEF Dte, FORCE_FLAT_DTE
<1>3. ASSUME pos.cost # {}, AtStop(p, pos) \/ Breached(p, pos) \/ AtTarget(p, pos)
      PROVE  Due(p, q, today)
  <2>1. CASE AtStop(p, pos)
    <3>1. PICK c \in CostToClose(q) : c >= 2 * Terms[p].credit
      BY <2>1, <1>1 DEF AtStop, STOP_LOSS_MULTIPLE
    <3>2. PICK a \in q.ask, b \in q.bid : a > 0 /\ c = IF a > b THEN a - b ELSE 0
      BY <3>1, CostIsQuoted
    <3>3. a \in Nat /\ b \in Nat
      BY QuotesAssumption
    <3>4. a - b - Terms[p].credit >= Terms[p].credit \/ 2 * (a - b) <= Terms[p].credit
      BY <3>1, <3>2, <3>3, TermsType
    <3> QED
      BY <3>2, <3>4 DEF Due
  <2>2. CASE Breached(p, pos)
    <3>1. PICK c \in CostToClose(q) : TRUE
      BY <1>1, <1>3
    <3>2. PICK a \in q.ask, b \in q.bid : a > 0
      BY <3>1, CostIsQuoted
    <3> QED
      BY <2>2, <3>2, <1>1 DEF Due, Breached
  <2>3. CASE AtTarget(p, pos)
    <3>1. PICK c \in CostToClose(q) : 100 * c <= 50 * Terms[p].credit
      BY <2>3, <1>1 DEF AtTarget, PROFIT_TARGET_PCT
    <3>2. PICK a \in q.ask, b \in q.bid : a > 0 /\ c = IF a > b THEN a - b ELSE 0
      BY <3>1, CostIsQuoted
    <3>3. a \in Nat /\ b \in Nat
      BY QuotesAssumption
    <3>4. 2 * (a - b) <= Terms[p].credit
      BY <3>1, <3>2, <3>3, TermsType
    <3> QED
      BY <3>2, <3>4 DEF Due
  <2> QED
    BY <1>3, <2>1, <2>2, <2>3
<1>4. ASSUME NEW a \in q.ask, NEW b \in q.bid, a > 0,
             \/ a - b - Terms[p].credit >= Terms[p].credit
             \/ 2 * (a - b) <= Terms[p].credit
             \/ \E x \in q.close : x <= Terms[p].short
      PROVE  pos.cost # {} /\ (AtStop(p, pos) \/ Breached(p, pos) \/ AtTarget(p, pos))
  <2> DEFINE c == IF a > b THEN a - b ELSE 0
  <2>1. c \in pos.cost
    BY <1>1, <1>4, QuotedHasCost
  <2>2. a \in Nat /\ b \in Nat
    BY QuotesAssumption
  <2>3. CASE a - b - Terms[p].credit >= Terms[p].credit
    <3>1. c >= 2 * Terms[p].credit
      BY <2>2, <2>3, TermsType
    <3> QED
      BY <2>1, <3>1 DEF AtStop, STOP_LOSS_MULTIPLE
  <2>4. CASE 2 * (a - b) <= Terms[p].credit
    <3>1. 100 * c <= 50 * Terms[p].credit
      BY <2>2, <2>4, TermsType
    <3>2. 100 * c <= (100 - 50) * Terms[p].credit
      BY <3>1, <2>2, TermsType
    <3> HIDE DEF c
    <3> QED
      BY <2>1, <3>2 DEF AtTarget, PROFIT_TARGET_PCT
  <2>5. CASE \E x \in q.close : x <= Terms[p].short
    BY <2>1, <2>5, <1>1 DEF Breached
  <2> QED
    BY <1>4, <2>3, <2>4, <2>5
<1> QED
  BY <1>2, <1>3, <1>4 DEF ShouldClose, Due

\* A close is bid at a positive price, which is at most the width unless the
\* legs themselves cost more.
LEMMA LimitIsCovered ==
    ASSUME NEW p \in Policies, NEW q \in Quotes, NEW t \in LimitPrice(p, Position(q))
    PROVE  /\ t \in Nat \ {0}
           /\ \/ t <= Width(p)
              \/ \E a \in q.ask, b \in q.bid : a - b > Width(p)
<1>1. PICK c \in TargetDebit(p, Position(q)) : t = IF c = 0 THEN 1 ELSE c
  BY DEF LimitPrice
<1>2. CASE CostToClose(q) = {}
  <2>1. c = Width(p)
    BY <1>1, <1>2 DEF TargetDebit, Position
  <2> QED
    BY <1>1, <2>1, TermsType
<1>3. CASE CostToClose(q) # {}
  <2>1. c \in CostToClose(q)
    BY <1>1, <1>3 DEF TargetDebit, Position
  <2>2. c \in Nat
    BY <2>1, CostIsQuoted
  <2>3. PICK a \in q.ask, b \in q.bid : a > 0 /\ c = IF a > b THEN a - b ELSE 0
    BY <2>1, CostIsQuoted
  <2>4. a \in Nat /\ b \in Nat
    BY QuotesAssumption
  <2>5. CASE c <= Width(p)
    BY <1>1, <2>2, <2>5, TermsType
  <2>6. CASE ~(c <= Width(p))
    <3>1. a - b > Width(p)
      BY <2>2, <2>3, <2>4, <2>6, TermsType
    <3> QED
      BY <1>1, <2>2, <2>3, <3>1
  <2> QED
    BY <2>5, <2>6
<1> QED
  BY <1>2, <1>3

(***************************************************************************)
(* The invariant is inductive                                              *)
(***************************************************************************)

\* Nothing is open at first.
LEMMA InitIInv == Init => IInv
<1>1. SUFFICES ASSUME Init PROVE IInv
  OBVIOUS
<1>2. /\ mg.at = "idle" /\ mg.today = 0 /\ mg.left = {} /\ mg.chosen = {}
      /\ DOMAIN mg.quotes = {}
  BY <1>1 DEF Init, Idle
<1>3. TypeOK
  <2>1. day = 0 /\ session = "pre" /\ managed = FALSE
    BY <1>1 DEF Init
  <2>4. day \in 0 .. LastDay /\ mg.today \in 0 .. day
    BY <2>1, <1>2, OutcomesAssumption
  <2>2. open = {} /\ excused = {} /\ \A p \in Policies : exit[p] = {}
    BY <1>1 DEF Init
  <2>3. halted \in BOOLEAN
    BY <1>1, OutcomesAssumption, Zenon DEF Init
  <2> QED
    BY <1>2, <2>1, <2>2, <2>3, <2>4 DEF TypeOK
<1>4. ShapeOK
  BY <1>1 DEF Init, Idle, ShapeOK
<1>5. CycleOK /\ GoneThroughOK /\ ManagedOK
  BY <1>1, <1>2 DEF Init, CycleOK, GoneThroughOK, ManagedOK
<1>6. DueAndOnlyDueIsChosen /\ LossWithinReserve
  BY <1>1, <1>2 DEF Init, DueAndOnlyDueIsChosen, LossWithinReserve
<1> QED
  BY <1>3, <1>4, <1>5, <1>6 DEF IInv

\* In a cycle, a policy's quotes are quotes, and the decision on it is right.
LEMMA Decision ==
    ASSUME IInv, NEW p \in mg.left
    PROVE  /\ p \in Policies /\ p \in open /\ mg.quotes[p] \in Quotes
           /\ mg.at = "deciding" /\ mg.today = day /\ day \in Nat
           /\ MustClose(p) <=> Due(p, mg.quotes[p], mg.today)
           /\ ~MustClose(p) => Dte(p, day) > FORCE_FLAT_DTE
<1>1. p \in DOMAIN mg.quotes /\ p \in open /\ p \in Policies
  BY DEF IInv, TypeOK
<1>2. mg.quotes[p] \in Quotes
  BY <1>1 DEF IInv, ShapeOK
<1>3. mg.at = "deciding" /\ mg.today = day /\ day \in Nat
  BY <1>1, OutcomesAssumption DEF IInv, TypeOK, CycleOK
<1>4. MustClose(p) <=> Due(p, mg.quotes[p], mg.today)
  BY <1>1, <1>2, <1>3, ClosesWhatIsDue DEF MustClose, Priced
<1>5. ~MustClose(p) => ~(Dte(p, day) <= FORCE_FLAT_DTE)
  BY <1>3 DEF MustClose, ShouldClose
<1> QED
  BY <1>1, <1>2, <1>3, <1>4, <1>5, TermsType DEF Dte, FORCE_FLAT_DTE

\* A new policy is a week from its expiry at least.
LEMMA OpenStep == ASSUME IInv, NEW p \in Policies, Open(p) PROVE IInv'
<1> USE DEF Open
<1>1. Dte(p, day) >= 7 /\ ~(Dte(p, day) <= FORCE_FLAT_DTE)
  BY TermsType, OutcomesAssumption DEF MayOpen, Dte, FORCE_FLAT_DTE, IInv, TypeOK
<1>2. TypeOK' /\ ShapeOK'
  BY DEF IInv, TypeOK, ShapeOK
<1>3. CycleOK'
  BY <1>1 DEF IInv, CycleOK, Dte
<1>4. GoneThroughOK' /\ ManagedOK'
  BY <1>1 DEF IInv, GoneThroughOK, ManagedOK, Dte
<1>5. DueAndOnlyDueIsChosen' /\ LossWithinReserve'
  BY DEF IInv, DueAndOnlyDueIsChosen, LossWithinReserve
<1> QED
  BY <1>2, <1>3, <1>4, <1>5 DEF IInv

LEMMA HaltStep == ASSUME IInv, SetHalt PROVE IInv'
BY OutcomesAssumption
   DEF SetHalt, IInv, TypeOK, ShapeOK, CycleOK, GoneThroughOK, ManagedOK, Dte,
       DueAndOnlyDueIsChosen, LossWithinReserve

\* A cycle begins with the whole book in front of it.
LEMMA StartStep == ASSUME IInv, StartManagement PROVE IInv'
<1>1. PICK quotes \in [open -> Quotes] :
        mg' = [at |-> "deciding", today |-> day, halted |-> halted,
               quotes |-> quotes, left |-> open, chosen |-> {}]
  BY DEF StartManagement
<1>2. UNCHANGED <<day, session, managed, halted, open, exit, excused>>
  BY DEF StartManagement
<1>3. DOMAIN mg'.quotes = open /\ mg'.left = open /\ mg'.chosen = {} /\ mg'.today = day
      /\ mg'.quotes = quotes /\ mg'.at = "deciding"
  BY <1>1
<1>4. TypeOK'
  BY <1>2, <1>3, OutcomesAssumption DEF IInv, TypeOK
<1>5. ShapeOK'
  BY <1>1, <1>2, <1>3 DEF IInv, ShapeOK
<1>6. CycleOK' /\ GoneThroughOK' /\ ManagedOK'
  BY <1>2, <1>3 DEF IInv, CycleOK, GoneThroughOK, ManagedOK, Dte
<1>7. DueAndOnlyDueIsChosen' /\ LossWithinReserve'
  BY <1>2, <1>3 DEF IInv, DueAndOnlyDueIsChosen, LossWithinReserve
<1> QED
  BY <1>4, <1>5, <1>6, <1>7 DEF IInv

LEMMA HoldStep == ASSUME IInv, NEW p \in Policies, Hold(p) PROVE IInv'
<1>1. /\ p \in mg.left /\ ~MustClose(p)
      /\ UNCHANGED <<day, session, managed, halted, open, exit, excused>>
  BY DEF Hold
<1>2. /\ mg'.at = mg.at /\ mg'.today = mg.today /\ mg'.halted = mg.halted
      /\ mg'.quotes = mg.quotes /\ mg'.left = mg.left \ {p} /\ mg'.chosen = mg.chosen
      /\ mg' = [at |-> mg'.at, today |-> mg'.today, halted |-> mg'.halted,
                quotes |-> mg'.quotes, left |-> mg'.left, chosen |-> mg'.chosen]
  BY DEF Hold, IInv, ShapeOK
<1>3. /\ ~Due(p, mg.quotes[p], mg.today) /\ ~(Dte(p, day) <= FORCE_FLAT_DTE)
  BY <1>1, Decision, TermsType, OutcomesAssumption DEF Dte, FORCE_FLAT_DTE
<1>4. TypeOK' /\ ShapeOK'
  BY <1>1, <1>2 DEF IInv, TypeOK, ShapeOK
<1>5. CycleOK' /\ GoneThroughOK' /\ ManagedOK'
  BY <1>1, <1>2, <1>3 DEF IInv, CycleOK, GoneThroughOK, ManagedOK, Dte
<1>6. p \notin mg.chosen
  BY <1>1 DEF IInv, TypeOK
<1>7. DueAndOnlyDueIsChosen'
  BY <1>2, <1>3, <1>6 DEF IInv, DueAndOnlyDueIsChosen, Due
<1>8. LossWithinReserve'
  BY <1>1 DEF IInv, LossWithinReserve
<1> QED
  BY <1>4, <1>5, <1>7, <1>8 DEF IInv

\* What a policy that is gone for leaves behind, whether or not an order goes out.
LEMMA ChosenStep ==
    ASSUME IInv, NEW p \in mg.left, MustClose(p),
           mg' = [mg EXCEPT !.left = @ \ {p}, !.chosen = @ \cup {p}],
           UNCHANGED <<day, session, managed, halted, open>>,
           excused \subseteq excused', excused' \subseteq excused \cup {p},
           exit' \in [Policies -> SUBSET Orders],
           p \in excused' \/ exit'[p] # {},
           \A r \in Policies : r # p => exit'[r] = exit[r],
           exit[p] # {} => exit'[p] # {},
           \A e, f \in exit'[p] : e = f,
           \A e \in exit'[p] :
               \/ e.limit <= Width(p)
               \/ \E a \in e.quote.ask, b \in e.quote.bid : a - b > Width(p)
    PROVE  IInv'
<1>1. /\ mg'.at = mg.at /\ mg'.today = mg.today /\ mg'.halted = mg.halted
      /\ mg'.quotes = mg.quotes /\ mg'.left = mg.left \ {p}
      /\ mg'.chosen = mg.chosen \cup {p}
      /\ mg' = [at |-> mg'.at, today |-> mg'.today, halted |-> mg'.halted,
                quotes |-> mg'.quotes, left |-> mg'.left, chosen |-> mg'.chosen]
  BY DEF IInv, ShapeOK
<1>2. /\ p \in Policies /\ p \in open /\ Due(p, mg.quotes[p], mg.today)
  BY Decision
<1>3. TypeOK'
  BY <1>1, <1>2 DEF IInv, TypeOK
<1>4. ShapeOK'
  BY <1>1 DEF IInv, ShapeOK
<1>5. \A r \in open : r \in excused \/ exit[r] # {} => r \in excused' \/ exit'[r] # {}
  BY DEF IInv, TypeOK
<1>6. CycleOK' /\ GoneThroughOK' /\ ManagedOK'
  <2>1. \A r \in DOMAIN mg.quotes : r \in open
    BY DEF IInv, TypeOK
  <2> QED
    BY <1>1, <1>5, <2>1 DEF IInv, CycleOK, GoneThroughOK, ManagedOK, Dte
<1>7. DueAndOnlyDueIsChosen'
  BY <1>1, <1>2 DEF IInv, DueAndOnlyDueIsChosen, Due
<1>8. LossWithinReserve'
  BY DEF IInv, LossWithinReserve, Width
<1> QED
  BY <1>3, <1>4, <1>6, <1>7, <1>8 DEF IInv

LEMMA RefuseStep == ASSUME IInv, NEW p \in Policies, Refuse(p) PROVE IInv'
<1>1. /\ exit \in [Policies -> SUBSET Orders] /\ \A e, f \in exit[p] : e = f
      /\ \A e \in exit[p] :
            \/ e.limit <= Width(p)
            \/ \E a \in e.quote.ask, b \in e.quote.bid : a - b > Width(p)
  BY DEF IInv, TypeOK, ShapeOK, LossWithinReserve
<1>2. /\ p \in mg.left /\ MustClose(p) /\ exit' = exit
      /\ excused' = excused \cup {p}
      /\ mg' = [mg EXCEPT !.left = @ \ {p}, !.chosen = @ \cup {p}]
      /\ UNCHANGED <<day, session, managed, halted, open>>
  BY DEF Refuse
<1> QED
  BY <1>1, <1>2, ChosenStep

\* The order that goes out is the only one, and is bid with the reserve.
LEMMA SendStep == ASSUME IInv, NEW p \in Policies, Send(p) PROVE IInv'
<1>1. /\ p \in mg.left /\ MustClose(p)
      /\ mg' = [mg EXCEPT !.left = @ \ {p}, !.chosen = @ \cup {p}]
      /\ UNCHANGED <<day, session, managed, halted, open>>
  BY DEF Send
<1>2. PICK state \in Outcomes(p), limit \in LimitPrice(p, Priced(p)) :
        /\ exit' = IF state = "refused" THEN exit
                   ELSE [exit EXCEPT ![p] =
                            {[state |-> state, limit |-> limit, quote |-> mg.quotes[p]]}]
        /\ excused' = IF state = "refused" THEN excused \cup {p} ELSE excused
  BY DEF Send
<1>3. /\ exit \in [Policies -> SUBSET Orders] /\ \A e, f \in exit[p] : e = f
      /\ \A e \in exit[p] :
            \/ e.limit <= Width(p)
            \/ \E a \in e.quote.ask, b \in e.quote.bid : a - b > Width(p)
  BY DEF IInv, TypeOK, ShapeOK, LossWithinReserve
<1>4. mg.quotes[p] \in Quotes
  BY <1>1, Decision
<1>5. CASE state = "refused"
  <2>1. exit' = exit /\ excused' = excused \cup {p}
    BY <1>2, <1>5
  <2> QED
    BY <1>1, <1>3, <2>1, ChosenStep
<1>6. CASE state # "refused"
  <2> DEFINE order == [state |-> state, limit |-> limit, quote |-> mg.quotes[p]]
  <2>1. state \in {"filled", "cancelled"}
    BY <1>2, <1>6, OutcomesAssumption DEF Outcomes
  <2>2. /\ limit \in Nat \ {0}
        /\ \/ limit <= Width(p)
           \/ \E a \in mg.quotes[p].ask, b \in mg.quotes[p].bid : a - b > Width(p)
    BY <1>4, LimitIsCovered DEF Priced
  <2>3. order \in Orders /\ order.limit = limit /\ order.quote = mg.quotes[p]
    BY <1>4, <2>1, <2>2 DEF Orders
  <2>4. exit' = [exit EXCEPT ![p] = {order}] /\ excused' = excused
    BY <1>2, <1>6
  <2> HIDE DEF order
  <2>5. /\ exit' \in [Policies -> SUBSET Orders] /\ exit'[p] = {order}
        /\ \A r \in Policies : r # p => exit'[r] = exit[r]
    BY <1>3, <2>3, <2>4
  <2>6. \A e \in exit'[p] :
            \/ e.limit <= Width(p)
            \/ \E a \in e.quote.ask, b \in e.quote.bid : a - b > Width(p)
    BY <2>2, <2>3, <2>5
  <2> QED
    BY <1>1, <2>4, <2>5, <2>6, ChosenStep
<1> QED
  BY <1>5, <1>6

\* At the end of a cycle the whole book has been gone through, or excused.
LEMMA EndStep == ASSUME IInv, EndCycle \/ Abort PROVE IInv'
<1>1. /\ mg.at = "deciding" /\ mg' = Idle /\ managed' = TRUE
      /\ UNCHANGED <<day, session, halted, open, exit>>
      /\ excused' = excused \cup mg.left
  BY DEF EndCycle, Abort
<1>2. /\ mg'.at = "idle" /\ mg'.today = 0 /\ mg'.left = {} /\ mg'.chosen = {}
      /\ DOMAIN mg'.quotes = {}
  BY <1>1 DEF Idle
<1>3. TypeOK'
  BY <1>1, <1>2, OutcomesAssumption DEF IInv, TypeOK
<1>4. ShapeOK'
  BY <1>1 DEF IInv, ShapeOK, Idle
<1>5. \A p \in open :
        Dte(p, day) <= FORCE_FLAT_DTE => p \in excused' \/ exit[p] # {}
  <2>1. SUFFICES ASSUME NEW p \in open, Dte(p, day) <= FORCE_FLAT_DTE, p \notin mg.left
                 PROVE  p \in excused \/ exit[p] # {}
    BY <1>1
  <2>2. p \in Policies /\ day \in Nat
    BY <2>1, OutcomesAssumption DEF IInv, TypeOK
  <2>3. ~(Dte(p, day) >= 7)
    BY <2>1, <2>2, TermsType DEF Dte, FORCE_FLAT_DTE
  <2>4. p \in DOMAIN mg.quotes
    BY <1>1, <2>1, <2>3 DEF IInv, CycleOK
  <2> QED
    BY <1>1, <2>1, <2>4 DEF IInv, GoneThroughOK
<1>6. CycleOK' /\ GoneThroughOK' /\ ManagedOK'
  BY <1>1, <1>2, <1>5 DEF CycleOK, GoneThroughOK, ManagedOK, Dte
<1>7. DueAndOnlyDueIsChosen' /\ LossWithinReserve'
  BY <1>1, <1>2 DEF IInv, DueAndOnlyDueIsChosen, LossWithinReserve
<1> QED
  BY <1>3, <1>4, <1>6, <1>7 DEF IInv

\* Time passes a managed book only.
LEMMA PassStep == ASSUME IInv, Pass PROVE IInv'
<1>1. /\ mg.at = "idle" /\ (managed \/ open = {}) /\ managed' = FALSE
      /\ UNCHANGED <<halted, open, exit, mg>>
  BY DEF Pass
<1>2. /\ session \in {"pre", "open", "post"} /\ day \in 0 .. LastDay /\ LastDay \in Nat
  BY OutcomesAssumption DEF IInv, TypeOK
<1>3. \/ session' = "post" /\ session = "open" /\ day' = day /\ excused' = excused
      \/ session' \in {"pre", "open"} /\ day' \in day .. LastDay /\ excused' = {}
  BY <1>2 DEF Pass
<1>4. TypeOK'
  <2>1. day' \in 0 .. LastDay /\ session' \in {"pre", "open", "post"} /\ day' >= day
    BY <1>2, <1>3
  <2>2. mg.today \in 0 .. day'
    BY <1>2, <2>1 DEF IInv, TypeOK
  <2>3. excused' \subseteq open
    BY <1>3 DEF IInv, TypeOK
  <2> QED
    BY <1>1, <2>1, <2>2, <2>3 DEF IInv, TypeOK
<1>5. ShapeOK' /\ CycleOK' /\ GoneThroughOK'
  <2>1. ShapeOK'
    BY <1>1 DEF IInv, ShapeOK
  <2>2. mg'.at = "idle" /\ DOMAIN mg'.quotes = {}
    BY <1>1 DEF IInv, CycleOK
  <2> QED
    BY <2>1, <2>2 DEF CycleOK, GoneThroughOK
<1>6. ManagedOK'
  BY <1>1, <1>3 DEF IInv, ManagedOK, Dte
<1>7. DueAndOnlyDueIsChosen' /\ LossWithinReserve'
  BY <1>1 DEF IInv, DueAndOnlyDueIsChosen, LossWithinReserve
<1> QED
  BY <1>4, <1>5, <1>6, <1>7 DEF IInv

LEMMA NextIInv == IInv /\ [Next]_vars => IInv'
<1>1. SUFFICES ASSUME IInv, [Next]_vars PROVE IInv'
  OBVIOUS
<1>2. CASE UNCHANGED vars
  BY <1>1, <1>2
     DEF vars, IInv, TypeOK, ShapeOK, CycleOK, GoneThroughOK, ManagedOK, Dte,
         DueAndOnlyDueIsChosen, Due, LossWithinReserve
<1>3. ASSUME NEW p \in Policies, Open(p) \/ Hold(p) \/ Refuse(p) \/ Send(p)
      PROVE  IInv'
  BY <1>1, <1>3, OpenStep, HoldStep, RefuseStep, SendStep
<1>4. CASE SetHalt \/ StartManagement \/ EndCycle \/ Abort \/ Pass
  BY <1>1, <1>4, HaltStep, StartStep, EndStep, PassStep
<1> QED
  BY <1>1, <1>2, <1>3, <1>4 DEF Next

LEMMA Invariance == Spec => []IInv
BY InitIInv, NextIInv, PTL DEF Spec

(***************************************************************************)
(* The theorems                                                            *)
(***************************************************************************)

\* Types: one positive order at most for each policy, cycles over open ones.
THEOREM TypeCorrect == Spec => []TypeOK
<1>1. IInv => TypeOK
  BY DEF IInv
<1> QED
  BY <1>1, Invariance, PTL

\* A cycle chooses to close what is due and nothing else, whatever the quotes.
THEOREM DueIsChosen == Spec => []DueAndOnlyDueIsChosen
<1>1. IInv => DueAndOnlyDueIsChosen
  BY DEF IInv
<1> QED
  BY <1>1, Invariance, PTL

\* A session in the last two days of a policy does not end without its close
\* having been sent, refused, or lost with its cycle.
THEOREM ForceFlatTried == Spec => []ForceFlatIsTried
<1>1. IInv => ForceFlatIsTried
  <2>1. SUFFICES ASSUME IInv, session = "post", NEW p \in open \ excused,
                        Terms[p].expiry - day \in 0 .. 2
                 PROVE  exit[p] # {}
    BY DEF ForceFlatIsTried
  <2>2. Dte(p, day) <= FORCE_FLAT_DTE
    BY <2>1 DEF Dte, FORCE_FLAT_DTE
  <2> QED
    BY <2>1, <2>2 DEF IInv, ManagedOK
<1> QED
  BY <1>1, Invariance, PTL

\* A close is never bid above the reserve unless the market asks for more.
THEOREM LossesAreReserved == Spec => []LossWithinReserve
<1>1. IInv => LossWithinReserve
  BY DEF IInv
<1> QED
  BY <1>1, Invariance, PTL
=============================================================================
