----------------------------- MODULE DeskProofs -----------------------------
(***************************************************************************)
(* Proofs about the running desk, for any number of proposals, contracts   *)
(* and reconcilers.                                                        *)
(*                                                                         *)
(* The inductive invariant has three parts, each of its own subject: the   *)
(* trail from a verdict to its order, the orders and the policies they     *)
(* back, and the kill switch.  Lemmas about one step of the broker and of  *)
(* the engine keep the proofs of the parts short.  The refinement of Book  *)
(* needs one part more, about what has a policy already; at the end the    *)
(* desk's orders are shown to refine Exposure, as Execution's do.          *)
(***************************************************************************)
EXTENDS Desk, TLAPS

USE ContractsAssumption, NobodyAssumption DEF Nobody

(***************************************************************************)
(* The inductive invariant                                                 *)
(***************************************************************************)

\* From approval to report the underwriting job is about one proposal; and its
\* verdict is in the database before execute() is called.
TrailOK ==
    /\ uw.at \notin {"idle", "pricing"} => uw.p \in Proposals
    /\ uw.at \in {"recorded", "executing", "reported"} => uw.p \in verdicts
    /\ EntriesAreRecorded

\* An order never sent has no fill, and a live one still lacks some.
Sound(o) ==
    /\ o.state = "none" => o.filled = 0
    /\ o.state = "live" => o.filled < Contracts

\* A report stays true of its order; and management only ever sends, or is
\* about to send, exits of entries that filled completely.
OrdersOK ==
    /\ \A p \in Proposals : Sound(entry[p]) /\ Sound(exit[p])
    /\ uw.at = "reported" => MayReport(entry[uw.p], uw.report)
    /\ \A p \in Proposals :
          p \in mg.todo \/ exit[p].state # "none" => entry[p].filled = Contracts
    /\ PoliciesAreBacked

\* Once an entry has outrun the kill switch, the job is past sending, and has
\* begun no new cycle that could send another.
KillSwitchOK ==
    /\ outran <= 1
    /\ ~killSwitch => outran = 0
    /\ outran = 1 =>
          /\ uw.at \notin {"judged", "recorded"}
          /\ uw.at = "pricing" => uw.kill

IInv == TypeOK /\ TrailOK /\ OrdersOK /\ KillSwitchOK

(***************************************************************************)
(* One step of an order                                                    *)
(***************************************************************************)

\* Sending an order and a step of the broker keep it an order, and sound.
LEMMA TransmitSound ==
    ASSUME NEW o \in Order, Sound(o)
    PROVE  /\ Transmit(o) \in Order
           /\ Sound(Transmit(o))
           /\ Transmit(o).filled = o.filled
           /\ Transmit(o).state # "none"
           /\ o.state # "none" => Transmit(o) = o
BY DEF Transmit, Order, Sound

LEMMA FillOrEndSound ==
    ASSUME NEW o \in Order, o.state = "live", Sound(o), NEW n \in FillOrEnd(o)
    PROVE  /\ n \in Order
           /\ Sound(n)
           /\ n.state # "none"
<1>1. CASE n = [o EXCEPT !.state = "over"]
  BY <1>1 DEF Order, Sound
<1>2. CASE n = [filled |-> o.filled + 1,
                state |-> IF o.filled + 1 = Contracts THEN "over" ELSE "live"]
  BY <1>2 DEF Order, Sound
<1>. QED
  BY <1>1, <1>2 DEF FillOrEnd

(***************************************************************************)
(* Type correctness                                                        *)
(***************************************************************************)

\* An idle job, and an order never sent, are of their types.
LEMMA IdleTypes ==
    /\ UwIdle \in Underwriting
    /\ MgIdle \in Management
    /\ RcIdle \in Reconciliation
    /\ NoOrder \in Order
<1>1. {} \in SUBSET Proposals /\ {} \in SUBSET Symbols
  OBVIOUS
<1>2. UwIdle \in Underwriting
  BY DEF UwIdle, Underwriting, Report
<1>3. MgIdle \in Management
  BY <1>1 DEF MgIdle, Management, Mode
<1>4. RcIdle \in Reconciliation
  BY <1>1 DEF RcIdle, Reconciliation
<1>5. NoOrder \in Order
  BY DEF NoOrder, Order
<1>. QED
  BY <1>2, <1>3, <1>4, <1>5

LEMMA TypeInitially == Init => TypeOK
<1>. SUFFICES ASSUME Init PROVE TypeOK
  OBVIOUS
<1>1. mode \in Mode /\ killSwitch \in BOOLEAN /\ outran \in Nat
  BY DEF Init, Mode
<1>2. uw \in Underwriting /\ mg \in Management
  BY IdleTypes DEF Init
<1>3. rc \in [Reconcilers -> Reconciliation]
  BY IdleTypes, Zenon DEF Init
<1>4. entry \in [Proposals -> Order] /\ exit \in [Proposals -> Order]
  BY IdleTypes, Zenon DEF Init
<1>5. policies \in [Proposals -> PolicyStatus]
  BY DEF Init, PolicyStatus
<1>6. /\ verdicts \subseteq Proposals
      /\ exitVerdicts \subseteq Proposals
      /\ alarms \subseteq Symbols
  BY DEF Init
<1>. QED
  BY <1>1, <1>2, <1>3, <1>4, <1>5, <1>6, Zenon DEF TypeOK

LEMMA TypeStep ==
    ASSUME TypeOK, \A p \in Proposals : Sound(entry[p]) /\ Sound(exit[p]),
           uw.at \notin {"idle", "pricing"} => uw.p \in Proposals, [Next]_vars
    PROVE  TypeOK'
<1>. USE DEF TypeOK, config, book, broker
<1>1. CASE UNCHANGED vars
  BY <1>1 DEF vars
<1>2. CASE StartUnderwriting
  BY <1>2 DEF StartUnderwriting, Underwriting
<1>3. ASSUME NEW p \in Proposals, ApproveEntry(p)
      PROVE  TypeOK'
  BY <1>3 DEF ApproveEntry, Underwriting
<1>4. CASE RecordVerdict
  BY <1>4 DEF RecordVerdict, Underwriting
<1>5. CASE SendEntry
  <2>1. Transmit(entry[uw.p]) \in Order
    BY <1>5, TransmitSound DEF SendEntry
  <2>. QED
    BY <1>5, <2>1 DEF SendEntry, Underwriting
<1>6. CASE EntryReported
  BY <1>6 DEF EntryReported, Underwriting
<1>7. CASE RecordExecution
  BY <1>7, IdleTypes DEF RecordExecution, PolicyStatus
<1>8. CASE EndUnderwriting
  BY <1>8, IdleTypes DEF EndUnderwriting
<1>9. CASE StartManagement
  BY <1>9 DEF StartManagement, Management
<1>10. CASE ReadManagementContext
  BY <1>10 DEF ReadManagementContext, Management
<1>11. ASSUME NEW p \in Proposals, Hold(p)
       PROVE  TypeOK'
  BY <1>11 DEF Hold, Management
<1>12. ASSUME NEW p \in Proposals, SendExit(p)
       PROVE  TypeOK'
  <2>1. Transmit(exit[p]) \in Order
    BY <1>12, TransmitSound
  <2>. QED
    BY <1>12, <2>1 DEF SendExit, Management
<1>13. CASE ExitReported
  BY <1>13 DEF ExitReported, Management
<1>14. CASE ExitRaises \/ EndManagement
  BY <1>14, IdleTypes DEF ExitRaises, EndManagement
<1>15. ASSUME NEW r \in Reconcilers, ReadPositions(r)
       PROVE  TypeOK'
  BY <1>15 DEF ReadPositions, Reconciliation
<1>16. ASSUME NEW r \in Reconcilers, RecordReconciliation(r)
       PROVE  TypeOK'
  BY <1>16 DEF RecordReconciliation, Reconciliation
<1>17. ASSUME NEW r \in Reconcilers, ForceManageOnly(r)
       PROVE  TypeOK'
  BY <1>17, IdleTypes DEF ForceManageOnly, Mode
<1>18. ASSUME NEW r \in Reconcilers, ReconcileRaises(r)
       PROVE  TypeOK'
  BY <1>18, IdleTypes DEF ReconcileRaises
<1>19. CASE SetMode
  BY <1>19 DEF SetMode
<1>20. CASE SetKillSwitch
  <2>1. killSwitch' \in BOOLEAN
    BY <1>20, Zenon DEF SetKillSwitch
  <2>. QED
    BY <1>20, <2>1 DEF SetKillSwitch
<1>21. ASSUME NEW p \in Proposals, RequestClose(p)
       PROVE  TypeOK'
  BY <1>21 DEF RequestClose
<1>22. CASE Restart
  BY <1>22, IdleTypes DEF Restart, Mode
<1>23. ASSUME NEW p \in Proposals, Broker(p)
       PROVE  TypeOK'
  BY <1>23, FillOrEndSound DEF Broker
<1>. QED
  BY <1>1, <1>2, <1>3, <1>4, <1>5, <1>6, <1>7, <1>8, <1>9, <1>10, <1>11, <1>12,
     <1>13, <1>14, <1>15, <1>16, <1>17, <1>18, <1>19, <1>20, <1>21, <1>22,
     <1>23
     DEF Next, Underwrite, Manage, Reconcile

(***************************************************************************)
(* The trail from a verdict to its order                                   *)
(***************************************************************************)
LEMMA TrailInitially == Init => TrailOK
BY DEF Init, TrailOK, EntriesAreRecorded, UwIdle, NoOrder

LEMMA TrailStep ==
    ASSUME TypeOK, OrdersOK, TrailOK, [Next]_vars
    PROVE  TrailOK'
<1>. USE DEF TrailOK, EntriesAreRecorded, TypeOK, Underwriting
<1>1. CASE UNCHANGED <<uw, verdicts, entry>>
  BY <1>1
<1>2. CASE uw' = UwIdle /\ UNCHANGED <<verdicts, entry>>
  BY <1>2 DEF UwIdle
<1>3. CASE StartUnderwriting
  BY <1>3 DEF StartUnderwriting, book, broker
<1>4. ASSUME NEW p \in Proposals, ApproveEntry(p)
      PROVE  TrailOK'
  BY <1>4 DEF ApproveEntry, book, broker
<1>5. CASE RecordVerdict
  BY <1>5 DEF RecordVerdict, broker
<1>6. CASE SendEntry
  BY <1>6 DEF SendEntry, book
<1>7. CASE EntryReported
  BY <1>7 DEF EntryReported, book, broker
<1>8. ASSUME NEW p \in Proposals, Broker(p)
      PROVE  TrailOK'
  <2>1. \A q \in Proposals :
            entry'[q].state # "none" => entry[q].state # "none"
    BY <1>8 DEF Broker
  <2>. QED
    BY <1>8, <2>1 DEF Broker, book
<1>. QED
  BY <1>1, <1>2, <1>3, <1>4, <1>5, <1>6, <1>7, <1>8
     DEF Next, vars, config, book, broker, Underwrite, RecordExecution,
         EndUnderwriting, Manage, StartManagement, ReadManagementContext, Hold,
         SendExit, ExitReported, ExitRaises, EndManagement, Reconcile,
         ReadPositions, RecordReconciliation, ForceManageOnly, ReconcileRaises,
         SetMode, SetKillSwitch, RequestClose, Restart

(***************************************************************************)
(* The kill switch                                                         *)
(***************************************************************************)
LEMMA KillSwitchInitially == Init => KillSwitchOK
BY DEF Init, KillSwitchOK

LEMMA KillSwitchStep ==
    ASSUME TypeOK, KillSwitchOK, [Next]_vars
    PROVE  KillSwitchOK'
<1>. USE DEF KillSwitchOK, TypeOK, Underwriting
<1>1. CASE UNCHANGED <<uw, killSwitch, outran>>
  BY <1>1
<1>2. CASE uw' = UwIdle /\ UNCHANGED <<killSwitch, outran>>
  BY <1>2 DEF UwIdle
<1>3. CASE StartUnderwriting
  BY <1>3 DEF StartUnderwriting, config
<1>4. ASSUME NEW p \in Proposals, ApproveEntry(p)
      PROVE  KillSwitchOK'
  BY <1>4 DEF ApproveEntry, config
<1>5. CASE RecordVerdict
  BY <1>5 DEF RecordVerdict, config
<1>6. CASE SendEntry
  BY <1>6 DEF SendEntry, config
<1>7. CASE EntryReported
  BY <1>7 DEF EntryReported, config
<1>8. CASE SetKillSwitch
  <2>1. outran' = 0
    BY <1>8 DEF SetKillSwitch
  <2>. QED
    BY <2>1
<1>. QED
  BY <1>1, <1>2, <1>3, <1>4, <1>5, <1>6, <1>7, <1>8
     DEF Next, vars, config, Underwrite, RecordExecution,
         EndUnderwriting, Manage, StartManagement, ReadManagementContext, Hold,
         SendExit, ExitReported, ExitRaises, EndManagement, Reconcile,
         ReadPositions, RecordReconciliation, ForceManageOnly, ReconcileRaises,
         SetMode, RequestClose, Restart, Broker

(***************************************************************************)
(* The orders and the policies they back                                   *)
(***************************************************************************)
LEMMA OrdersInitially == Init => OrdersOK
BY DEF Init, OrdersOK, Sound, NoOrder, UwIdle, MgIdle, PoliciesAreBacked

\* What the policies, the reports and the exits rely on: an order filled to the
\* last contract, or over, is never touched again.
EntriesSettle ==
    \A p \in Proposals :
        /\ Sound(entry'[p])
        /\ entry[p].filled = Contracts \/ entry[p].state = "over" =>
              entry'[p] = entry[p]

LEMMA EntriesStep ==
    ASSUME TypeOK, OrdersOK, TrailOK, [Next]_vars
    PROVE  EntriesSettle
<1>. USE DEF EntriesSettle, TypeOK, OrdersOK
<1>1. CASE UNCHANGED entry
  BY <1>1
<1>2. CASE SendEntry
  <2>1. uw.p \in Proposals
    BY <1>2 DEF SendEntry, TrailOK
  <2>2. entry' = [entry EXCEPT ![uw.p] = Transmit(entry[uw.p])]
    BY <1>2 DEF SendEntry
  <2>3. entry[uw.p] \in Order /\ Sound(entry[uw.p])
    BY <2>1
  <2>4. Transmit(entry[uw.p]) = entry[uw.p] \/ entry[uw.p].state = "none"
    BY <2>3, TransmitSound
  <2>5. Sound(Transmit(entry[uw.p]))
    BY <2>3, TransmitSound
  <2>6. entry[uw.p].state = "none" => entry[uw.p].filled # Contracts
    BY <2>3 DEF Sound
  <2>. QED
    BY <2>1, <2>2, <2>4, <2>5, <2>6
<1>3. ASSUME NEW p \in Proposals, Broker(p)
      PROVE  EntriesSettle
  <2>1. CASE UNCHANGED entry
    BY <2>1
  <2>2. ASSUME entry[p].state = "live", NEW o \in FillOrEnd(entry[p]),
               entry' = [entry EXCEPT ![p] = o]
        PROVE  EntriesSettle
    <3>1. Sound(o)
      BY <2>2, FillOrEndSound
    <3>2. entry[p].filled # Contracts
      BY <2>2 DEF Sound
    <3>. QED
      BY <2>2, <3>1, <3>2
  <2>. QED
    BY <1>3, <2>1, <2>2 DEF Broker
<1>. QED
  BY <1>1, <1>2, <1>3
     DEF Next, vars, broker, Underwrite, StartUnderwriting, ApproveEntry,
         RecordVerdict, EntryReported, RecordExecution, EndUnderwriting,
         Manage, StartManagement, ReadManagementContext, Hold,
         SendExit, ExitReported, ExitRaises, EndManagement, Reconcile,
         ReadPositions, RecordReconciliation, ForceManageOnly, ReconcileRaises,
         SetMode, SetKillSwitch, RequestClose, Restart

\* An exit is sent only for what management was given, and a sent one only
\* fills as the broker lets it.
ExitsAdvance ==
    \A p \in Proposals :
        /\ Sound(exit'[p])
        /\ exit'[p].state # "none" => exit[p].state # "none" \/ p \in mg.todo

LEMMA ExitsStep ==
    ASSUME TypeOK, OrdersOK, [Next]_vars
    PROVE  ExitsAdvance
<1>. USE DEF ExitsAdvance, TypeOK, OrdersOK
<1>1. CASE UNCHANGED exit
  BY <1>1
<1>2. ASSUME NEW p \in Proposals, SendExit(p)
      PROVE  ExitsAdvance
  <2>1. Sound(Transmit(exit[p]))
    BY TransmitSound
  <2>. QED
    BY <1>2, <2>1 DEF SendExit
<1>3. ASSUME NEW p \in Proposals, exit[p].state = "live",
             NEW o \in FillOrEnd(exit[p]), exit' = [exit EXCEPT ![p] = o]
      PROVE  ExitsAdvance
  <2>1. Sound(o)
    BY <1>3, FillOrEndSound
  <2>. QED
    BY <1>3, <2>1
<1>. QED
  BY <1>1, <1>2, <1>3
     DEF Next, vars, broker, Underwrite, StartUnderwriting, ApproveEntry,
         RecordVerdict, SendEntry, EntryReported, RecordExecution,
         EndUnderwriting, Manage, StartManagement, ReadManagementContext, Hold,
         ExitReported, ExitRaises, EndManagement, Reconcile,
         ReadPositions, RecordReconciliation, ForceManageOnly, ReconcileRaises,
         SetMode, SetKillSwitch, RequestClose, Restart, Broker

\* What the engine reported of an entry, and what the book says of one, stay
\* true whatever happens next.
LEMMA ReportsStayTrue ==
    ASSUME TypeOK, EntriesSettle, NEW p \in Proposals, NEW report,
           report # "UNFILLED", MayReport(entry[p], report)
    PROVE  MayReport(entry[p]', report)
BY DEF MayReport, EntriesSettle

LEMMA BackingStaysTrue ==
    ASSUME TypeOK, EntriesSettle, PoliciesAreBacked, UNCHANGED policies
    PROVE  PoliciesAreBacked'
BY DEF PoliciesAreBacked, EntriesSettle

\* What is sent, or about to be, is an exit of an entry filled to the end.
ExitsOfWholeEntries ==
    \A p \in Proposals :
        p \in mg.todo \/ exit[p].state # "none" => entry[p].filled = Contracts

ReportHolds == uw.at = "reported" => MayReport(entry[uw.p], uw.report)

LEMMA ReportStep ==
    ASSUME TypeOK, TrailOK, ReportHolds, EntriesSettle, [Next]_vars
    PROVE  ReportHolds'
<1>. USE DEF ReportHolds, TypeOK, Underwriting, TrailOK
<1>1. CASE UNCHANGED uw
  <2>. SUFFICES ASSUME uw.at = "reported"
                PROVE  MayReport(entry'[uw.p], uw.report)
    BY <1>1
  <2>1. uw.p \in Proposals /\ MayReport(entry[uw.p], uw.report)
    OBVIOUS
  <2>2. CASE uw.report = "UNFILLED"
    BY <2>2 DEF MayReport
  <2>3. CASE uw.report # "UNFILLED"
    BY <2>1, <2>3, ReportsStayTrue
  <2>. QED
    BY <2>2, <2>3
<1>2. CASE uw'.at # "reported"
  BY <1>2
<1>3. CASE EntryReported
  BY <1>3 DEF EntryReported, broker
<1>4. ASSUME ~UNCHANGED uw, uw'.at = "reported"
      PROVE  EntryReported
  <2>1. uw' # UwIdle
    BY <1>4 DEF UwIdle
  <2>2. ~StartUnderwriting /\ ~RecordVerdict /\ ~SendEntry
    BY <1>4 DEF StartUnderwriting, RecordVerdict, SendEntry, UwIdle
  <2>3. \A p \in Proposals : ~ApproveEntry(p)
    BY <1>4 DEF ApproveEntry
  <2>. QED
    BY <1>4, <2>1, <2>2, <2>3
       DEF Next, vars, Underwrite, RecordExecution, EndUnderwriting,
           Manage, StartManagement, ReadManagementContext, Hold, SendExit,
           ExitReported, ExitRaises, EndManagement, Reconcile, ReadPositions,
           RecordReconciliation, ForceManageOnly, ReconcileRaises, SetMode,
           SetKillSwitch, RequestClose, Restart, Broker
<1>. QED
  BY <1>1, <1>2, <1>3, <1>4

LEMMA PoliciesStep ==
    ASSUME TypeOK, TrailOK, ReportHolds, PoliciesAreBacked, EntriesSettle,
           [Next]_vars
    PROVE  PoliciesAreBacked'
<1>1. CASE UNCHANGED policies
  BY <1>1, BackingStaysTrue
<1>2. CASE RecordExecution
  <2>1. UNCHANGED entry /\ uw.p \in Proposals /\ MayReport(entry[uw.p], uw.report)
    BY <1>2 DEF RecordExecution, broker, TrailOK, ReportHolds
  <2>2. ASSUME NEW p \in Proposals, p # uw.p
        PROVE  policies'[p] = policies[p]
    BY <1>2, <2>2 DEF RecordExecution, TypeOK
  <2>3. policies'[uw.p] = CASE uw.report = "FILLED" -> "OPEN"
                            [] uw.report = "PARTIAL" -> "LEG_RISK"
                            [] OTHER -> policies[uw.p]
    BY <1>2, <2>1 DEF RecordExecution, TypeOK
  <2>. QED
    BY <2>1, <2>2, <2>3 DEF PoliciesAreBacked, MayReport
<1>. QED
  BY <1>1, <1>2
     DEF Next, vars, book, Underwrite, StartUnderwriting, ApproveEntry,
         RecordVerdict, SendEntry, EntryReported, EndUnderwriting,
         Manage, StartManagement, ReadManagementContext, Hold, SendExit,
         ExitReported, ExitRaises, EndManagement, Reconcile, ReadPositions,
         RecordReconciliation, ForceManageOnly, ReconcileRaises, SetMode,
         SetKillSwitch, RequestClose, Restart, Broker

LEMMA WholeEntriesStep ==
    ASSUME TypeOK, ExitsOfWholeEntries, PoliciesAreBacked, EntriesSettle,
           ExitsAdvance, [Next]_vars
    PROVE  ExitsOfWholeEntries'
<1>. SUFFICES ASSUME NEW p \in Proposals, p \in mg'.todo \/ exit'[p].state # "none"
              PROVE  entry'[p].filled = Contracts
  BY DEF ExitsOfWholeEntries
<1>1. CASE exit'[p].state # "none"
  BY <1>1 DEF ExitsAdvance, ExitsOfWholeEntries, EntriesSettle
<1>2. CASE p \in mg.todo
  BY <1>2 DEF ExitsOfWholeEntries, EntriesSettle
<1>3. CASE p \in mg'.todo /\ p \notin mg.todo
  <2>1. StartManagement
    <3>. USE DEF TypeOK, Management
    <3>1. ~UNCHANGED mg /\ mg' # MgIdle
      BY <1>3 DEF MgIdle
    <3>2. ~ReadManagementContext /\ ~ExitReported
      BY <1>3 DEF ReadManagementContext, ExitReported
    <3>3. \A q \in Proposals : ~Hold(q) /\ ~SendExit(q)
      <4>1. ASSUME NEW q \in Proposals, Hold(q) \/ SendExit(q)
            PROVE  mg'.todo = mg.todo \ {q}
        BY <4>1 DEF Hold, SendExit
      <4>. QED
        BY <1>3, <4>1
    <3>. QED
      BY <3>1, <3>2, <3>3
         DEF Next, vars, Underwrite, StartUnderwriting, ApproveEntry,
             RecordVerdict, SendEntry, EntryReported, RecordExecution,
             EndUnderwriting, Manage, ExitRaises, EndManagement, Reconcile,
             ReadPositions, RecordReconciliation, ForceManageOnly,
             ReconcileRaises, SetMode, SetKillSwitch, RequestClose, Restart,
             Broker
  <2>2. policies[p] = "OPEN" /\ UNCHANGED entry
    BY <1>3, <2>1 DEF StartManagement, Managed, MgIdle, broker, TypeOK, Management
  <2>. QED
    BY <2>2 DEF PoliciesAreBacked
<1>. QED
  BY <1>1, <1>2, <1>3

LEMMA OrdersStep ==
    ASSUME TypeOK, OrdersOK, TrailOK, [Next]_vars
    PROVE  OrdersOK'
<1>1. EntriesSettle /\ ExitsAdvance
  BY EntriesStep, ExitsStep
<1>2. ReportHolds /\ ExitsOfWholeEntries /\ PoliciesAreBacked
  BY DEF OrdersOK, ReportHolds, ExitsOfWholeEntries
<1>3. \A p \in Proposals : Sound(entry'[p]) /\ Sound(exit'[p])
  BY <1>1 DEF EntriesSettle, ExitsAdvance
<1>4. ReportHolds'
  BY <1>1, <1>2, ReportStep
<1>5. PoliciesAreBacked'
  BY <1>1, <1>2, PoliciesStep
<1>6. ExitsOfWholeEntries'
  BY <1>1, <1>2, WholeEntriesStep
<1>. QED
  BY <1>3, <1>4, <1>5, <1>6 DEF OrdersOK, ReportHolds, ExitsOfWholeEntries

(***************************************************************************)
(* The theorems                                                            *)
(***************************************************************************)
LEMMA Inductive == Spec => []IInv
<1>1. Init => IInv
  BY TypeInitially, TrailInitially, OrdersInitially, KillSwitchInitially DEF IInv
<1>2. IInv /\ [Next]_vars => IInv'
  <2>. SUFFICES ASSUME IInv, [Next]_vars PROVE IInv'
    OBVIOUS
  <2>1. TypeOK'
    BY TypeStep DEF IInv, OrdersOK, TrailOK
  <2>2. TrailOK'
    BY TrailStep DEF IInv
  <2>3. OrdersOK'
    BY OrdersStep DEF IInv
  <2>4. KillSwitchOK'
    BY KillSwitchStep DEF IInv
  <2>. QED
    BY <2>1, <2>2, <2>3, <2>4 DEF IInv
<1>. QED
  BY <1>1, <1>2, PTL DEF Spec

\* Every variable of the desk keeps its type: what execute() reports is never
\* written down as a policy's status (_record_execution).
THEOREM TypeCorrect == Spec => []TypeOK
<1>1. IInv => TypeOK
  BY DEF IInv
<1>. QED
  BY <1>1, Inductive, PTL

\* Whatever crashed or raised in between, no entry is at the broker without its
\* verdict in the database (_record_verdict comes before execute()).
THEOREM EntriesRecorded == Spec => []EntriesAreRecorded
<1>1. IInv => EntriesAreRecorded
  BY DEF IInv, TrailOK
<1>. QED
  BY <1>1, Inductive, PTL

\* Every policy _record_execution wrote is backed by a fill at the broker that
\* is final, and its status says whether all of it filled.
THEOREM PoliciesBacked == Spec => []PoliciesAreBacked
<1>1. IInv => PoliciesAreBacked
  BY DEF IInv, OrdersOK
<1>. QED
  BY <1>1, Inductive, PTL

\* However often management retries a close, over crashes and timeouts, the desk
\* never closes more than it opened: the order id of a close never changes.
THEOREM ExitsNeverOverclose == Spec => []NeverOverclosed
<1>1. IInv => NeverOverclosed
  <2>. SUFFICES ASSUME IInv, NEW p \in Proposals
                PROVE  exit[p].filled <= entry[p].filled
    BY DEF NeverOverclosed
  <2>1. exit[p] \in Order /\ entry[p] \in Order /\ Sound(exit[p])
    BY DEF IInv, TypeOK, OrdersOK
  <2>2. CASE exit[p].state = "none"
    BY <2>1, <2>2 DEF Sound, Order
  <2>3. CASE exit[p].state # "none"
    BY <2>1, <2>3 DEF IInv, OrdersOK, Order
  <2>. QED
    BY <2>2, <2>3
<1>. QED
  BY <1>1, Inductive, PTL

\* From the moment set_kill_switch commits, at most one more entry is sent until
\* it is released: the one whose cycle had already read its context.
THEOREM KillSwitchObeyed == Spec => []KillSwitchStopsEntries
<1>1. IInv => KillSwitchStopsEntries
  BY DEF IInv, KillSwitchOK, KillSwitchStopsEntries
<1>. QED
  BY <1>1, Inductive, PTL

(***************************************************************************)
(* The refinement                                                          *)
(***************************************************************************)

\* The proposal at hand has no policy yet, and what is closed, or about to be,
\* has one for a whole entry.
BookOK ==
    /\ uw.at \notin {"idle", "pricing"} => policies[uw.p] = "none"
    /\ \A p \in Proposals :
          p \in mg.todo \/ exit[p].state # "none" => policies[p] = "OPEN"

\* A policy, once written, is never written again.
LEMMA PoliciesStay ==
    ASSUME TypeOK, TrailOK, BookOK, [Next]_vars
    PROVE  \A p \in Proposals : policies[p] # "none" => policies'[p] = policies[p]
<1>1. CASE UNCHANGED policies
  BY <1>1
<1>2. CASE RecordExecution
  <2>1. uw.p \in Proposals /\ policies[uw.p] = "none"
    BY <1>2 DEF RecordExecution, TrailOK, BookOK
  <2>. QED
    BY <1>2, <2>1 DEF RecordExecution, TypeOK
<1>. QED
  BY <1>1, <1>2
     DEF Next, vars, book, Underwrite, StartUnderwriting, ApproveEntry,
         RecordVerdict, SendEntry, EntryReported, EndUnderwriting,
         Manage, StartManagement, ReadManagementContext, Hold, SendExit,
         ExitReported, ExitRaises, EndManagement, Reconcile, ReadPositions,
         RecordReconciliation, ForceManageOnly, ReconcileRaises, SetMode,
         SetKillSwitch, RequestClose, Restart, Broker

\* The job takes up a proposal without a policy, and writes one only when it is
\* done with it.
LEMMA ProposalStep ==
    ASSUME IInv, BookOK, [Next]_vars
    PROVE  (uw.at \notin {"idle", "pricing"} => policies[uw.p] = "none")'
<1>. USE DEF IInv, TypeOK, Underwriting
<1>1. CASE UNCHANGED <<uw, policies>>
  BY <1>1 DEF BookOK
<1>2. CASE uw' = UwIdle \/ StartUnderwriting
  <2>1. CASE uw' = UwIdle
    BY <2>1 DEF UwIdle
  <2>2. CASE StartUnderwriting
    BY <2>2 DEF StartUnderwriting
  <2>. QED
    BY <1>2, <2>1, <2>2
<1>3. ASSUME NEW p \in Proposals, ApproveEntry(p)
      PROVE  (uw.at \notin {"idle", "pricing"} => policies[uw.p] = "none")'
  <2>1. uw'.p = p /\ policies' = policies /\ entry[p] = NoOrder
    BY <1>3 DEF ApproveEntry, book
  <2>2. entry[p].state = "none" /\ entry[p].filled = 0
    BY <2>1 DEF NoOrder
  <2>3. policies[p] # "OPEN" /\ policies[p] # "LEG_RISK"
    BY <2>2 DEF OrdersOK, PoliciesAreBacked
  <2>4. policies[p] = "none"
    BY <2>3 DEF PolicyStatus
  <2>. QED
    BY <2>1, <2>4
<1>4. CASE RecordVerdict \/ SendEntry \/ EntryReported
  BY <1>4 DEF RecordVerdict, SendEntry, EntryReported, book, BookOK
<1>. QED
  BY <1>1, <1>2, <1>3, <1>4
     DEF Next, vars, book, Underwrite, RecordExecution, EndUnderwriting,
         Manage, StartManagement, ReadManagementContext, Hold, SendExit,
         ExitReported, ExitRaises, EndManagement, Reconcile, ReadPositions,
         RecordReconciliation, ForceManageOnly, ReconcileRaises, SetMode,
         SetKillSwitch, RequestClose, Restart, Broker

\* Management takes up open policies only.
LEMMA ManagedStep ==
    ASSUME IInv, BookOK, [Next]_vars, NEW p \in Proposals, p \in mg'.todo
    PROVE  p \in mg.todo \/ policies[p] = "OPEN"
<1>. USE DEF IInv, TypeOK, Management
<1>1. CASE UNCHANGED mg
  BY <1>1
<1>2. CASE StartManagement
  BY <1>2 DEF StartManagement, Managed, MgIdle
<1>3. ASSUME NEW q \in Proposals, Hold(q) \/ SendExit(q)
      PROVE  p \in mg.todo
  <2>1. mg'.todo = mg.todo \ {q}
    BY <1>3 DEF Hold, SendExit
  <2>. QED
    BY <2>1
<1>4. CASE ReadManagementContext \/ ExitReported
  BY <1>4 DEF ReadManagementContext, ExitReported
<1>5. mg' # MgIdle
  BY DEF MgIdle
<1>. QED
  BY <1>1, <1>2, <1>3, <1>4, <1>5
     DEF Next, vars, Underwrite, StartUnderwriting, ApproveEntry,
         RecordVerdict, SendEntry, EntryReported, RecordExecution,
         EndUnderwriting, Manage, ExitRaises, EndManagement, Reconcile,
         ReadPositions, RecordReconciliation, ForceManageOnly, ReconcileRaises,
         SetMode, SetKillSwitch, RequestClose, Restart, Broker

LEMMA BookStep ==
    ASSUME IInv, BookOK, [Next]_vars
    PROVE  BookOK'
<1>1. ASSUME NEW p \in Proposals, p \in mg'.todo \/ exit'[p].state # "none"
      PROVE  policies'[p] = "OPEN"
  <2>1. p \in mg.todo \/ exit[p].state # "none" \/ policies[p] = "OPEN"
    BY <1>1, ExitsStep, ManagedStep DEF IInv, ExitsAdvance
  <2>2. policies[p] = "OPEN"
    BY <2>1 DEF BookOK
  <2>. QED
    BY <2>2, PoliciesStay DEF IInv
<1>. QED
  BY <1>1, ProposalStep DEF BookOK

LEMMA BookInductive == Spec => [](IInv /\ BookOK)
<1>1. Init => BookOK
  BY DEF Init, BookOK, UwIdle, MgIdle, NoOrder
<1>2. IInv /\ BookOK /\ [Next]_vars => BookOK'
  BY BookStep
<1>. QED
  BY <1>1, <1>2, Inductive, PTL DEF Spec

\* The fills, as the promise sees them.
Opened == [p \in Proposals |-> entry[p].filled]
Closed == [p \in Proposals |-> exit[p].filled]
Unseen == UNCHANGED <<verdicts, Opened, Closed, policies>>

LEMMA SendingIsUnseen ==
    ASSUME IInv, SendEntry \/ \E p \in Proposals : SendExit(p)
    PROVE  Unseen
<1>. USE DEF IInv, TypeOK, OrdersOK, Unseen, Opened, Closed, book
<1>1. CASE SendEntry
  <2>1. uw.p \in Proposals
    BY <1>1 DEF SendEntry, TrailOK
  <2>2. Transmit(entry[uw.p]).filled = entry[uw.p].filled
    BY <2>1, TransmitSound
  <2>3. \A p \in Proposals : entry'[p].filled = entry[p].filled
    BY <1>1, <2>1, <2>2 DEF SendEntry
  <2>. QED
    BY <1>1, <2>3 DEF SendEntry
<1>2. ASSUME NEW q \in Proposals, SendExit(q)
      PROVE  Unseen
  <2>1. Transmit(exit[q]).filled = exit[q].filled
    BY TransmitSound
  <2>2. \A p \in Proposals : exit'[p].filled = exit[p].filled
    BY <1>2, <2>1 DEF SendExit
  <2>. QED
    BY <1>2, <2>2 DEF SendExit
<1>. QED
  BY <1>1, <1>2

\* What the job writes down is what the promise calls for.
LEMMA WritingIsWriting ==
    ASSUME IInv, BookOK, RecordExecution
    PROVE  Unseen \/ \E p \in Proposals : Promise!Write(p)
<1>. USE DEF IInv, TypeOK, RecordExecution, Unseen, Opened, Closed, broker
<1>1. uw.p \in Proposals /\ policies[uw.p] = "none" /\ MayReport(entry[uw.p], uw.report)
  BY DEF TrailOK, BookOK, OrdersOK
<1>2. CASE uw.report \in {"FILLED", "PARTIAL"}
  <2>1. entry[uw.p].filled > 0
    BY <1>1, <1>2 DEF MayReport
  <2>2. policies' = [policies EXCEPT ![uw.p] =
                        IF entry[uw.p].filled = Contracts THEN "OPEN" ELSE "LEG_RISK"]
    <3>1. CASE uw.report = "FILLED"
      <4>1. entry[uw.p].filled = Contracts
        BY <1>1, <3>1 DEF MayReport
      <4>. QED
        BY <1>1, <3>1, <4>1
    <3>2. CASE uw.report = "PARTIAL"
      <4>1. entry[uw.p].filled # Contracts
        BY <1>1, <3>2 DEF MayReport
      <4>. QED
        BY <1>1, <3>2, <4>1
    <3>. QED
      BY <1>2, <3>1, <3>2
  <2>3. UNCHANGED <<verdicts, Opened, Closed>>
    OBVIOUS
  <2>4. Promise!Write(uw.p)
    BY <1>1, <2>1, <2>2, <2>3 DEF Promise!Write
  <2>. QED
    BY <1>1, <2>4
<1>3. CASE uw.report \notin {"FILLED", "PARTIAL"}
  <2>1. policies' = policies
    BY <1>1, <1>3
  <2>. QED
    BY <2>1
<1>. QED
  BY <1>2, <1>3

\* What the broker fills is what the promise allows to be opened or closed.
LEMMA FillingIsFilling ==
    ASSUME IInv, BookOK, NEW p \in Proposals, Broker(p)
    PROVE  Unseen \/ Promise!Open(p) \/ Promise!Close(p)
<1>. USE DEF IInv, TypeOK, OrdersOK, Unseen, Opened, Closed, book
<1>1. UNCHANGED <<verdicts, policies>>
  BY DEF Broker
<1>2. ASSUME entry[p].state = "live", NEW o \in FillOrEnd(entry[p]),
             entry' = [entry EXCEPT ![p] = o], UNCHANGED exit
      PROVE  Unseen \/ Promise!Open(p)
  <2>1. o.filled \in {entry[p].filled, entry[p].filled + 1}
    BY <1>2 DEF FillOrEnd, Order
  <2>2. CASE o.filled = entry[p].filled
    BY <1>1, <1>2, <2>2
  <2>3. CASE o.filled = entry[p].filled + 1
    <3>1. p \in verdicts
      BY <1>2 DEF TrailOK, EntriesAreRecorded
    <3>2. entry[p].filled < Contracts
      BY <1>2 DEF Sound
    <3>3. policies[p] # "OPEN" /\ policies[p] # "LEG_RISK"
      BY <1>2, <3>2 DEF PoliciesAreBacked
    <3>4. policies[p] = "none"
      BY <3>3 DEF PolicyStatus
    <3>5. Opened' = [Opened EXCEPT ![p] = @ + 1]
      BY <1>2, <2>3
    <3>. QED
      BY <1>1, <1>2, <3>1, <3>2, <3>4, <3>5 DEF Promise!Open
  <2>. QED
    BY <2>1, <2>2, <2>3
<1>3. ASSUME exit[p].state = "live", NEW o \in FillOrEnd(exit[p]),
             exit' = [exit EXCEPT ![p] = o], UNCHANGED entry
      PROVE  Unseen \/ Promise!Close(p)
  <2>1. o.filled \in {exit[p].filled, exit[p].filled + 1}
    BY <1>3 DEF FillOrEnd, Order
  <2>2. CASE o.filled = exit[p].filled
    BY <1>1, <1>3, <2>2
  <2>3. CASE o.filled = exit[p].filled + 1
    <3>1. policies[p] = "OPEN"
      BY <1>3 DEF BookOK
    <3>2. exit[p].filled < Contracts /\ entry[p].filled = Contracts
      BY <1>3 DEF Sound
    <3>3. Closed' = [Closed EXCEPT ![p] = @ + 1]
      BY <1>3, <2>3
    <3>. QED
      BY <1>1, <1>3, <3>1, <3>2, <3>3 DEF Promise!Close
  <2>. QED
    BY <2>1, <2>2, <2>3
<1>. QED
  BY <1>2, <1>3 DEF Broker

LEMMA PromiseStep ==
    ASSUME IInv, BookOK, [Next]_vars
    PROVE  [Promise!Next]_(Promise!bookVars)
<1>1. CASE UNCHANGED <<verdicts, entry, exit, policies>>
  BY <1>1 DEF Promise!bookVars
<1>2. CASE Unseen
  BY <1>2 DEF Unseen, Opened, Closed, Promise!bookVars
<1>3. CASE RecordVerdict
  <2>1. Promise!Approve(uw.p)
    BY <1>3 DEF RecordVerdict, broker, Promise!Approve
  <2>2. uw.p \in Proposals
    BY <1>3 DEF RecordVerdict, IInv, TrailOK
  <2>. QED
    BY <2>1, <2>2 DEF Promise!Next
<1>4. CASE SendEntry \/ \E p \in Proposals : SendExit(p)
  BY <1>2, <1>4, SendingIsUnseen
<1>5. CASE RecordExecution
  BY <1>2, <1>5, WritingIsWriting DEF Promise!Next
<1>6. CASE \E p \in Proposals : Broker(p)
  BY <1>2, <1>6, FillingIsFilling DEF Promise!Next
<1>. QED
  BY <1>1, <1>3, <1>4, <1>5, <1>6
     DEF Next, vars, book, broker, Underwrite, StartUnderwriting, ApproveEntry,
         EntryReported, EndUnderwriting, Manage, StartManagement,
         ReadManagementContext, Hold, ExitReported, ExitRaises, EndManagement,
         Reconcile, ReadPositions, RecordReconciliation, ForceManageOnly,
         ReconcileRaises, SetMode, SetKillSwitch, RequestClose, Restart

\* The desk implements Book: of every entry the verdict is committed first, then
\* contracts are opened, then _record_execution writes the one policy it gets,
\* which says whether all of it filled; and only whole ones are ever closed.
THEOREM KeepsItsPromise == Spec => ImplementsBook
<1>1. Init => Promise!Init
  BY DEF Init, Promise!Init, NoOrder
<1>2. IInv /\ BookOK /\ [Next]_vars => [Promise!Next]_(Promise!bookVars)
  BY PromiseStep
<1>. QED
  BY <1>1, <1>2, BookInductive, PTL DEF Spec, ImplementsBook, Promise!Spec

(***************************************************************************)
(* The orders of the desk, and Execution's promise                         *)
(***************************************************************************)
AllSent == Sent("entry", entry) \cup Sent("exit", exit)

\* An order is told from the others by its side and its proposal.
LEMMA SentApart ==
    ASSUME NEW side, NEW orders, NEW e \in Sent(side, orders)
    PROVE  \E q \in Proposals : /\ orders[q].state # "none"
                                /\ e = OrderOf(side, q, orders[q])
                                /\ e.hash = <<side, q>>
BY DEF Sent, OrderOf

\* A first transmission is a permit, given once.
LEMMA SendingPermits ==
    ASSUME NEW side, NEW orders \in [Proposals -> Order], NEW p \in Proposals,
           NEW o \in Order, NEW after,
           after[p] = o, \A q \in Proposals \ {p} : after[q] = orders[q],
           orders[p].state = "none", o.state # "none"
    PROVE  /\ Sent(side, after) = Sent(side, orders) \cup {OrderOf(side, p, o)}
           /\ \A e \in Sent(side, orders) : e.hash # <<side, p>>
<1>2. ASSUME NEW e \in Sent(side, after)
      PROVE  e \in Sent(side, orders) \cup {OrderOf(side, p, o)}
  <2>1. PICK q \in Proposals : after[q].state # "none" /\ e = OrderOf(side, q, after[q])
    BY <1>2, SentApart
  <2>. QED
    BY <2>1 DEF Sent
<1>3. ASSUME NEW e \in Sent(side, orders)
      PROVE  e \in Sent(side, after) /\ e.hash # <<side, p>>
  <2>1. PICK q \in Proposals :
            orders[q].state # "none" /\ e = OrderOf(side, q, orders[q]) /\ e.hash = <<side, q>>
    BY <1>3, SentApart
  <2>2. q # p
    BY <2>1
  <2>. QED
    BY <2>1, <2>2 DEF Sent
<1>4. OrderOf(side, p, o) \in Sent(side, after)
  BY DEF Sent
<1>5. Sent(side, after) = Sent(side, orders) \cup {OrderOf(side, p, o)}
  BY <1>2, <1>3, <1>4
<1>. QED
  BY <1>3, <1>5

\* A change of an order at the broker is a change of its permit and of no other.
LEMMA ChangingTakes ==
    ASSUME NEW side, NEW orders \in [Proposals -> Order], NEW p \in Proposals,
           NEW o \in Order, NEW after,
           after[p] = o, \A q \in Proposals \ {p} : after[q] = orders[q],
           orders[p].state # "none", o.state # "none"
    PROVE  /\ OrderOf(side, p, orders[p]) \in Sent(side, orders)
           /\ Sent(side, after)
                = (Sent(side, orders) \ {OrderOf(side, p, orders[p])})
                    \cup {OrderOf(side, p, o)}
<1>. DEFINE old == OrderOf(side, p, orders[p])
            new == OrderOf(side, p, o)
<1>2. old \in Sent(side, orders) /\ old.hash = <<side, p>>
  BY DEF Sent, OrderOf
<1>. HIDE DEF old
<1>3. ASSUME NEW e \in Sent(side, after)
      PROVE  e \in (Sent(side, orders) \ {old}) \cup {new}
  <2>1. PICK q \in Proposals :
            after[q].state # "none" /\ e = OrderOf(side, q, after[q]) /\ e.hash = <<side, q>>
    BY <1>3, SentApart
  <2>2. CASE q = p
    BY <2>1, <2>2
  <2>3. CASE q # p
    <3>1. e \in Sent(side, orders)
      BY <2>1, <2>3 DEF Sent
    <3>2. e # old
      BY <1>2, <2>1, <2>3
    <3>. QED
      BY <3>1, <3>2
  <2>. QED
    BY <2>2, <2>3
<1>4. ASSUME NEW e \in Sent(side, orders), e # old
      PROVE  e \in Sent(side, after)
  <2>1. PICK q \in Proposals : orders[q].state # "none" /\ e = OrderOf(side, q, orders[q])
    BY <1>4, SentApart
  <2>2. q # p
    BY <1>4, <2>1 DEF old
  <2>. QED
    BY <2>1, <2>2 DEF Sent
<1>5. new \in Sent(side, after)
  BY DEF Sent
<1>. HIDE DEF new
<1>6. Sent(side, after) = (Sent(side, orders) \ {old}) \cup {new}
  BY <1>3, <1>4, <1>5
<1>. QED
  BY <1>2, <1>6 DEF old, new

\* Orders of the other side are other orders.
LEMMA SidesApart ==
    ASSUME NEW side, NEW other, side # other, NEW orders, NEW p,
           NEW e \in Sent(other, orders)
    PROVE  e.hash # <<side, p>>
BY SentApart

\* How transmission and the broker move an order.
Moved(old, new) ==
    \/ new = old
    \/ old = NoOrder /\ new.state # "none" /\ new.filled = 0
    \/ /\ old.state # "none" /\ new.state # "none"
       /\ new.filled = old.filled \/ new.filled = old.filled + 1

LEMMA OneOrderMoves ==
    ASSUME NEW side \in {"entry", "exit"}, NEW other, side # other,
           NEW orders \in [Proposals -> Order], NEW rest,
           NEW p \in Proposals, NEW o \in Order,
           NEW after \in [Proposals -> Order],
           after[p] = o, \A q \in Proposals \ {p} : after[q] = orders[q],
           AllSent = Sent(side, orders) \cup Sent(other, rest),
           AllSent' = Sent(side, after) \cup Sent(other, rest),
           Moved(orders[p], o)
    PROVE  [Permits!Next]_AllSent
<1>1. CASE o = orders[p]
  <2>1. \A q \in Proposals : after[q] = orders[q]
    BY <1>1
  <2>2. after = orders
    BY <2>1
  <2>. QED
    BY <2>2
<1>2. CASE orders[p] = NoOrder /\ o.state # "none" /\ o.filled = 0
  <2>1. orders[p].state = "none"
    BY <1>2 DEF NoOrder
  <2>2. /\ Sent(side, after) = Sent(side, orders) \cup {OrderOf(side, p, o)}
        /\ \A e \in Sent(side, orders) : e.hash # <<side, p>>
    BY <1>2, <2>1, SendingPermits
  <2>3. \A e \in AllSent : e.hash # <<side, p>>
    BY <2>2, SidesApart
  <2>4. AllSent' = AllSent \cup {[hash |-> <<side, p>>, qty |-> Contracts, filled |-> 0]}
    BY <1>2, <2>2 DEF OrderOf
  <2>5. Permits!Permit(<<side, p>>, Contracts)
    BY <2>3, <2>4 DEF Permits!Permit, AllSent
  <2>6. <<side, p>> \in {"entry", "exit"} \X Proposals /\ Contracts \in 1 .. Contracts
    OBVIOUS
  <2>. QED
    BY <2>5, <2>6 DEF Permits!Next
<1>3. CASE /\ orders[p].state # "none" /\ o.state # "none"
           /\ o.filled = orders[p].filled \/ o.filled = orders[p].filled + 1
  <2>. DEFINE old == OrderOf(side, p, orders[p])
              new == OrderOf(side, p, o)
  <2>1. /\ old \in Sent(side, orders)
        /\ Sent(side, after) = (Sent(side, orders) \ {old}) \cup {new}
    BY <1>3, ChangingTakes
  <2>2. old \notin Sent(other, rest)
    BY SidesApart DEF OrderOf
  <2>3. AllSent' = (AllSent \ {old}) \cup {new} /\ old \in AllSent
    BY <2>1, <2>2
  <2>4. CASE o.filled = orders[p].filled
    <3>1. old = new
      BY <2>4 DEF OrderOf
    <3>. QED
      BY <2>3, <3>1
  <2>5. CASE o.filled = orders[p].filled + 1
    <3>1. new = [old EXCEPT !.filled = @ + 1]
      BY <2>5 DEF OrderOf
    <3>2. old.filled < old.qty
      BY <2>5 DEF OrderOf, Order
    <3>3. Permits!Take(old)
      BY <2>3, <3>1, <3>2 DEF Permits!Take, AllSent
    <3>. QED
      BY <2>3, <3>3 DEF Permits!Next, AllSent
  <2>. QED
    BY <1>3, <2>4, <2>5
<1>. QED
  BY <1>1, <1>2, <1>3 DEF Moved

LEMMA PermitStep ==
    ASSUME IInv, [Next]_vars
    PROVE  [Permits!Next]_AllSent
<1>. USE DEF IInv, TypeOK
<1>1. CASE UNCHANGED <<entry, exit>>
  BY <1>1 DEF AllSent
<1>2. ASSUME NEW orders \in [Proposals -> Order], NEW p \in Proposals,
             Sound(orders[p])
      PROVE  /\ Transmit(orders[p]) \in Order
             /\ Moved(orders[p], Transmit(orders[p]))
  BY <1>2 DEF Transmit, Order, NoOrder, Sound, Moved
<1>3. ASSUME NEW orders \in [Proposals -> Order], NEW p \in Proposals,
             Sound(orders[p]), orders[p].state = "live", NEW o \in FillOrEnd(orders[p])
      PROVE  o \in Order /\ Moved(orders[p], o)
  BY <1>3 DEF FillOrEnd, Order, Sound, Moved
<1>4. \A p \in Proposals : Sound(entry[p]) /\ Sound(exit[p])
  BY DEF OrdersOK
<1>5. ASSUME NEW p \in Proposals, NEW o \in Order,
             entry' = [entry EXCEPT ![p] = o], UNCHANGED exit,
             Moved(entry[p], o)
      PROVE  [Permits!Next]_AllSent
  <2>1. /\ AllSent = Sent("entry", entry) \cup Sent("exit", exit)
        /\ AllSent' = Sent("entry", entry') \cup Sent("exit", exit)
    BY <1>5 DEF AllSent
  <2>2. /\ entry' \in [Proposals -> Order] /\ entry'[p] = o
        /\ \A q \in Proposals \ {p} : entry'[q] = entry[q]
    BY <1>5
  <2>. QED
    BY <1>5, <2>1, <2>2, OneOrderMoves
<1>6. ASSUME NEW p \in Proposals, NEW o \in Order,
             exit' = [exit EXCEPT ![p] = o], UNCHANGED entry,
             Moved(exit[p], o)
      PROVE  [Permits!Next]_AllSent
  <2>1. /\ AllSent = Sent("exit", exit) \cup Sent("entry", entry)
        /\ AllSent' = Sent("exit", exit') \cup Sent("entry", entry)
    BY <1>6 DEF AllSent
  <2>2. /\ exit' \in [Proposals -> Order] /\ exit'[p] = o
        /\ \A q \in Proposals \ {p} : exit'[q] = exit[q]
    BY <1>6
  <2>. QED
    BY <1>6, <2>1, <2>2, OneOrderMoves
<1>7. CASE SendEntry
  <2>1. /\ uw.p \in Proposals /\ UNCHANGED exit
        /\ entry' = [entry EXCEPT ![uw.p] = Transmit(entry[uw.p])]
    BY <1>7 DEF SendEntry, TrailOK
  <2>. QED
    BY <1>2, <1>4, <1>5, <2>1
<1>8. CASE \E p \in Proposals : SendExit(p)
  <2>1. PICK p \in Proposals : /\ UNCHANGED entry
                               /\ exit' = [exit EXCEPT ![p] = Transmit(exit[p])]
    BY <1>8 DEF SendExit
  <2>. QED
    BY <1>2, <1>4, <1>6, <2>1
<1>9. CASE \E p \in Proposals : Broker(p)
  <2>1. PICK p \in Proposals : Broker(p)
    BY <1>9
  <2>2. CASE entry[p].state = "live" /\ UNCHANGED exit
             /\ \E o \in FillOrEnd(entry[p]) : entry' = [entry EXCEPT ![p] = o]
    <3>1. PICK o \in FillOrEnd(entry[p]) : entry' = [entry EXCEPT ![p] = o]
      BY <2>2
    <3>2. o \in Order /\ Moved(entry[p], o)
      BY <1>3, <1>4, <2>2
    <3>. QED
      BY <1>5, <2>2, <3>1, <3>2
  <2>3. CASE exit[p].state = "live" /\ UNCHANGED entry
             /\ \E o \in FillOrEnd(exit[p]) : exit' = [exit EXCEPT ![p] = o]
    <3>1. PICK o \in FillOrEnd(exit[p]) : exit' = [exit EXCEPT ![p] = o]
      BY <2>3
    <3>2. o \in Order /\ Moved(exit[p], o)
      BY <1>3, <1>4, <2>3
    <3>. QED
      BY <1>6, <2>3, <3>1, <3>2
  <2>. QED
    BY <2>1, <2>2, <2>3 DEF Broker
<1>. QED
  BY <1>1, <1>7, <1>8, <1>9
     DEF Next, vars, book, broker, Underwrite, StartUnderwriting, ApproveEntry,
         RecordVerdict, EntryReported, RecordExecution, EndUnderwriting, Manage,
         StartManagement, ReadManagementContext, Hold, ExitReported, ExitRaises,
         EndManagement, Reconcile, ReadPositions, RecordReconciliation,
         ForceManageOnly, ReconcileRaises, SetMode, SetKillSwitch, RequestClose,
         Restart

\* What the desk makes of the engine and the broker, with its retried exits, its
\* crashes and its early reports, keeps the promise that ExecutionProofs proves
\* of execute() itself: one order for each entry and exit, filled up to its size.
THEOREM OrdersKeepExecutionsPromise == Spec => ImplementsExposure
<1>1. Init => Permits!Init
  BY DEF Init, Permits!Init, NoOrder, Sent
<1>2. IInv /\ [Next]_vars => [Permits!Next]_AllSent
  BY PermitStep
<1>. QED
  BY <1>1, <1>2, Inductive, PTL DEF Spec, ImplementsExposure, Permits!Spec, AllSent
=============================================================================
