-------------------------- MODULE SchedulerProofs --------------------------
(***************************************************************************)
(* For any jobs and cadences, any grace below the shortest of them, however*)
(* late the loop and the threads are and however often the process dies:   *)
(* runs are spaced, a job out of work runs again in time, and entries come *)
(* with a reconciliation.                                                  *)
(***************************************************************************)
EXTENDS Scheduler, TLAPS

DownOK == process = "down" => Settled

\* Each run is for a time of the trigger no other run was for.
SpacingOK ==
    \A j \in Jobs :
        /\ sinceStart[j] >= Lateness(j) - Grace
        /\ j \in missed => \/ sinceStart[j] >= Interval[j]
                            \/ sinceStart[j] >= Interval[j] + Lateness(j) - Grace
        /\ step[j] = "submitted" => \/ sinceStart[j] >= Interval[j]
                                     \/ sinceStart[j] >= Interval[j] + age[j] - Grace
        /\ step[j] = "submitted" /\ age[j] <= Grace =>
              Lateness(j) = age[j] /\ j \notin missed

\* A punctual job has been out of work since the last time of its trigger, or
\* since the one before and is about to be taken up.
PunctualOK ==
    \A j \in punctual :
        /\ step[j] = "submitted" =>
              \/ age[j] <= Grace /\ idleFor[j] <= Interval[j] + age[j]
              \/ age[j] > Grace /\ idleFor[j] <= Lateness(j)
        /\ process = "up" =>
              /\ idleFor[j] <= Interval[j] + Grace
              /\ step[j] = "idle" /\ j \notin missed => idleFor[j] <= Lateness(j)
              /\ step[j] = "idle" /\ j \in missed =>
                    \/ idleFor[j] <= Lateness(j)
                    \/ /\ Lateness(j) <= Grace
                       /\ idleFor[j] <= Interval[j] + Lateness(j)

\* Whenever entries fall due, so does the check.
AlignedOK ==
    /\ \E k \in Nat : due[Entries] = due[Check] + k * Interval[Check]
    /\ Entries \in missed => Check \in missed

\* While an entry run waits for a thread, the check is out or was just now.
CheckOK ==
    /\ step[Entries] = "submitted"
    /\ age[Entries] <= Grace
    /\ step[Check] = "idle"
    /\ Check \in punctual
    => idleFor[Check] <= age[Entries]

\* Until a first check has ended none is dropped while the loop and the threads
\* keep up, and so none is missing when entries are about to start.
CheckedOK ==
    /\ Check \in punctual /\ step[Check] = "submitted" /\ age[Check] > Grace => checked
    /\ Check \in punctual /\ Check \in missed /\ Lateness(Check) > Grace => checked
    /\ /\ step[Entries] = "submitted"
       /\ age[Entries] <= Grace
       /\ step[Check] = "idle"
       /\ Check \in punctual
       => checked

FailuresOK ==
    /\ FailingIsOnRecord
    /\ \A j \in Jobs : step[j] = "done" => failures[j] = 0

IInv ==
    /\ TypeOK /\ DownOK
    /\ SpacingOK /\ PunctualOK
    /\ AlignedOK /\ CheckOK /\ CheckedOK
    /\ FailuresOK

LEMMA ConstantFacts ==
    /\ Entries \in Jobs /\ Check \in Jobs
    /\ Grace \in Nat
    /\ MaxFailures \in Nat /\ MaxFailures >= 1
    /\ Interval \in [Jobs -> Nat]
    /\ \A j \in Jobs : Interval[j] \in Nat /\ Interval[j] >= 1 /\ Grace < Interval[j]
  BY JobsAssumption, IntervalAssumption, GraceAssumption, MaxFailuresAssumption

\* What is left of a whole number of cadences.
LEMMA MultipleFacts ==
    ASSUME NEW n \in Nat, NEW k \in Int
    PROVE  /\ k * n \in Int
           /\ (k + 1) * n = k * n + n
           /\ (k - 1) * n = k * n - n
           /\ k >= 1 => k * n >= n
           /\ k >= 0 => k * n >= 0
           /\ k <= -1 => k * n <= -n
           /\ 0 * n = 0
  OBVIOUS

\* An entry time no longer ago than the grace was a time of the check too.
LEMMA SameLateness ==
    ASSUME TypeOK, AlignedOK, Lateness(Entries) <= Grace
    PROVE  Lateness(Check) = Lateness(Entries)
  <1> DEFINE n == Interval[Check]
  <1> USE ConstantFacts
  <1>1. n \in Nat /\ Grace < n /\ due[Check] \in 1 .. n /\ due[Entries] \in 1 .. Interval[Entries]
    BY DEF TypeOK
  <1>2. PICK k \in Nat : due[Entries] = due[Check] + k * n
    BY DEF AlignedOK
  <1>3. PICK m \in 1 .. Interval[Entries] : Interval[Entries] = m * n
    BY CadenceAssumption
  <1>4. m \in Nat /\ Interval[Entries] \in Nat
    OBVIOUS
  <1> DEFINE d == m - k
  <1>5. d \in Int /\ d * n \in Int /\ m * n = k * n + d * n /\ k * n \in Int
    BY <1>1, <1>2, <1>4
  <1> HIDE DEF d, n
  <1>6. Lateness(Entries) = d * n - due[Check]
    BY <1>1, <1>2, <1>3, <1>4, <1>5 DEF Lateness
  <1>7. Lateness(Check) = n - due[Check]
    BY DEF Lateness, n
  <1>8. d = 1
    <2>1. CASE d <= 0
      <3>1. d * n <= 0
        BY <2>1, <1>1, <1>5, MultipleFacts
      <3> QED BY <3>1, <1>1, <1>2, <1>3, <1>4, <1>5, <1>6 DEF Lateness
    <2>2. CASE d >= 2
      <3>1. (d - 1) * n >= n /\ (d - 1) * n = d * n - n
        BY <2>2, <1>1, <1>5, MultipleFacts
      <3> QED BY <3>1, <1>1, <1>5, <1>6
    <2> QED BY <2>1, <2>2, <1>5
  <1> QED BY <1>1, <1>5, <1>6, <1>7, <1>8

\* The triggers are made together, and so name their times together.
LEMMA InitiallyAligned ==
    \E k \in Nat : Interval[Entries] = Interval[Check] + k * Interval[Check]
  <1> USE ConstantFacts
  <1>1. PICK m \in 1 .. Interval[Entries] : Interval[Entries] = m * Interval[Check]
    BY CadenceAssumption
  <1>2. m - 1 \in Nat /\ m \in Int /\ Interval[Check] \in Nat
    OBVIOUS
  <1>3. Interval[Entries] = Interval[Check] + (m - 1) * Interval[Check]
    BY <1>1, <1>2, MultipleFacts
  <1> QED BY <1>2, <1>3

LEMMA InitOK == Init => IInv
  <1> SUFFICES ASSUME Init PROVE IInv
    OBVIOUS
  <1> USE ConstantFacts DEF Init
  <1>1. TypeOK
    <2>1. checked \in BOOLEAN
      BY Zenon
    <2> QED BY <2>1 DEF TypeOK, Step, LateAge, LongIdle
  <1>2. DownOK /\ SpacingOK /\ PunctualOK
    BY DEF DownOK, Settled, SpacingOK, PunctualOK, Lateness
  <1>3. AlignedOK
    BY InitiallyAligned DEF AlignedOK
  <1>4. CheckOK /\ CheckedOK /\ FailuresOK
    BY DEF CheckOK, CheckedOK, FailuresOK, FailingIsOnRecord
  <1> QED BY <1>1, <1>2, <1>3, <1>4 DEF IInv

LEMMA BootOK == ASSUME IInv, Boot PROVE IInv'
  <1> USE ConstantFacts DEF Boot, clockVars, runVars, history
  <1>1. TypeOK'
    <2>1. checked' \in BOOLEAN
      BY Zenon
    <2> QED BY <2>1 DEF IInv, TypeOK, Step, LateAge, LongIdle, Capped
  <1>2. DownOK'
    BY DEF IInv, TypeOK, DownOK, Settled
  <1>3. SpacingOK'
    BY DEF IInv, TypeOK, DownOK, Settled, SpacingOK, Lateness, LateAge, Capped
  <1>4. PunctualOK'
    BY DEF IInv, TypeOK, DownOK, Settled, SpacingOK, PunctualOK, Lateness, LateAge, LongIdle, Capped
  <1>5. AlignedOK'
    BY InitiallyAligned DEF AlignedOK
  <1>6. CheckOK'
    BY DEF IInv, TypeOK, DownOK, Settled, CheckOK
  <1>7. FailuresOK'
    BY DEF IInv, TypeOK, DownOK, Settled, FailuresOK, FailingIsOnRecord, Capped
  <1>8. CheckedOK'
    BY DEF IInv, TypeOK, DownOK, Settled, CheckedOK, Lateness, LateAge, Capped
  <1> QED BY <1>1, <1>2, <1>3, <1>4, <1>5, <1>6, <1>7, <1>8 DEF IInv

LEMMA ShutdownOK == ASSUME IInv, Shutdown PROVE IInv'
  <1> USE ConstantFacts DEF Shutdown, clockVars, runVars, history
  <1>1. TypeOK'
    BY DEF IInv, TypeOK, Step, LateAge, LongIdle, Capped
  <1>2. DownOK'
    BY DEF IInv, TypeOK, DownOK, Settled
  <1>3. SpacingOK'
    BY DEF IInv, TypeOK, DownOK, Settled, SpacingOK, Lateness, LateAge, Capped
  <1>4. PunctualOK'
    BY DEF IInv, TypeOK, DownOK, Settled, SpacingOK, PunctualOK, Lateness, LateAge, LongIdle, Capped
  <1>5. AlignedOK'
    BY DEF IInv, AlignedOK
  <1>6. CheckOK'
    BY DEF IInv, TypeOK, DownOK, Settled, CheckOK
  <1>7. FailuresOK'
    BY DEF IInv, TypeOK, DownOK, Settled, FailuresOK, FailingIsOnRecord, Capped
  <1>8. CheckedOK'
    BY DEF IInv, TypeOK, DownOK, Settled, CheckedOK, Lateness, LateAge, Capped
  <1> QED BY <1>1, <1>2, <1>3, <1>4, <1>5, <1>6, <1>7, <1>8 DEF IInv

LEMMA StoppedOK == ASSUME IInv, Stopped PROVE IInv'
  <1> USE ConstantFacts DEF Stopped, clockVars, runVars, history
  <1>1. TypeOK'
    BY DEF IInv, TypeOK, Step, LateAge, LongIdle, Capped
  <1>2. DownOK'
    BY DEF IInv, TypeOK, DownOK, Settled
  <1>3. SpacingOK'
    BY DEF IInv, TypeOK, DownOK, Settled, SpacingOK, Lateness, LateAge, Capped
  <1>4. PunctualOK'
    BY DEF IInv, TypeOK, DownOK, Settled, SpacingOK, PunctualOK, Lateness, LateAge, LongIdle, Capped
  <1>5. AlignedOK'
    BY DEF IInv, AlignedOK
  <1>6. CheckOK'
    BY DEF IInv, TypeOK, DownOK, Settled, CheckOK
  <1>7. FailuresOK'
    BY DEF IInv, TypeOK, DownOK, Settled, FailuresOK, FailingIsOnRecord, Capped
  <1>8. CheckedOK'
    BY DEF IInv, TypeOK, DownOK, Settled, CheckedOK, Lateness, LateAge, Capped
  <1> QED BY <1>1, <1>2, <1>3, <1>4, <1>5, <1>6, <1>7, <1>8 DEF IInv

LEMMA CrashOK == ASSUME IInv, Crash PROVE IInv'
  <1> USE ConstantFacts DEF Crash, clockVars, runVars, history
  <1>1. TypeOK'
    BY DEF IInv, TypeOK, Step, LateAge, LongIdle, Capped
  <1>2. DownOK'
    BY DEF IInv, TypeOK, DownOK, Settled
  <1>3. SpacingOK'
    BY DEF IInv, TypeOK, DownOK, Settled, SpacingOK, Lateness, LateAge, Capped
  <1>4. PunctualOK'
    BY DEF IInv, TypeOK, DownOK, Settled, SpacingOK, PunctualOK, Lateness, LateAge, LongIdle, Capped
  <1>5. AlignedOK'
    BY DEF IInv, AlignedOK
  <1>6. CheckOK'
    BY DEF IInv, TypeOK, DownOK, Settled, CheckOK
  <1>7. FailuresOK'
    BY DEF IInv, TypeOK, DownOK, Settled, FailuresOK, FailingIsOnRecord, Capped
  <1>8. CheckedOK'
    BY DEF IInv, TypeOK, DownOK, Settled, CheckedOK, Lateness, LateAge, Capped
  <1> QED BY <1>1, <1>2, <1>3, <1>4, <1>5, <1>6, <1>7, <1>8 DEF IInv

LEMMA AlignedTicks == ASSUME TypeOK, AlignedOK, Tick PROVE AlignedOK'
  <1> USE ConstantFacts DEF Tick
  <1> DEFINE n == Interval[Check]
  <1>1. /\ n \in Nat /\ n >= 1
        /\ due[Check] \in 1 .. n /\ due[Entries] \in 1 .. Interval[Entries]
    BY DEF TypeOK
  <1>2. PICK k \in Nat : due[Entries] = due[Check] + k * n
    BY DEF AlignedOK
  <1>3. k * n \in Nat /\ (k >= 1 => k * n >= n)
    BY <1>1, MultipleFacts
  <1>4. due[Entries] = 1 => due[Check] = 1
    BY <1>1, <1>2, <1>3
  <1>5. \E i \in Nat : due'[Entries] = due'[Check] + i * n
    <2>1. CASE due[Check] # 1
      BY <2>1, <1>1, <1>2, <1>3, <1>4
    <2>2. CASE due[Check] = 1 /\ due[Entries] = 1
      BY <2>2, <1>1, InitiallyAligned
    <2>3. CASE due[Check] = 1 /\ due[Entries] # 1
      <3>1. k - 1 \in Nat /\ (k - 1) * n = k * n - n
        <4>1. k # 0
          BY <2>3, <1>1, <1>2, MultipleFacts
        <4> QED BY <4>1, <1>1, MultipleFacts
      <3>2. due'[Entries] = due'[Check] + (k - 1) * n
        BY <2>3, <3>1, <1>1, <1>2, <1>3
      <3> QED BY <3>1, <3>2
    <2> QED BY <2>1, <2>2, <2>3
  <1>6. (Entries \in missed => Check \in missed)'
    BY <1>4 DEF AlignedOK
  <1> QED BY <1>5, <1>6 DEF AlignedOK

LEMMA TickOK == ASSUME IInv, Tick PROVE IInv'
  <1> USE ConstantFacts DEF Tick, clockVars, runVars, history
  <1>1. TypeOK'
    BY DEF IInv, TypeOK, Step, LateAge, LongIdle, Capped
  <1>2. DownOK'
    BY DEF IInv, TypeOK, DownOK, Settled
  <1>3. SpacingOK'
    BY DEF IInv, TypeOK, DownOK, Settled, SpacingOK, Lateness, LateAge, Capped
  <1>4. PunctualOK'
    BY DEF IInv, TypeOK, DownOK, Settled, SpacingOK, PunctualOK, Lateness, LateAge, LongIdle, Capped
  <1>5. AlignedOK'
    BY AlignedTicks DEF IInv
  <1>6. CheckOK'
    BY DEF IInv, TypeOK, PunctualOK, SpacingOK, CheckOK, LateAge, LongIdle, Capped
  <1>7. FailuresOK'
    BY DEF IInv, TypeOK, DownOK, Settled, FailuresOK, FailingIsOnRecord, Capped
  <1>8. CheckedOK'
    BY DEF IInv, TypeOK, DownOK, Settled, CheckedOK, Lateness, LateAge, Capped
  <1> QED BY <1>1, <1>2, <1>3, <1>4, <1>5, <1>6, <1>7, <1>8 DEF IInv

LEMMA WakeLoopOK == ASSUME IInv, WakeLoop PROVE IInv'
  <1> USE ConstantFacts DEF WakeLoop, clockVars, runVars, history
  <1>1. TypeOK'
    BY DEF IInv, TypeOK, Step, LateAge, LongIdle, Capped, Lateness
  <1>2. DownOK'
    BY DEF IInv, TypeOK, DownOK, Settled
  <1>3. SpacingOK'
    BY DEF IInv, TypeOK, DownOK, Settled, SpacingOK, Lateness, LateAge, Capped
  <1>4. PunctualOK'
    BY DEF IInv, TypeOK, DownOK, Settled, SpacingOK, PunctualOK, Lateness, LateAge, LongIdle, Capped
  <1>5. AlignedOK'
    BY DEF IInv, AlignedOK
  <1>6. CheckOK'
    BY DEF IInv, TypeOK, AlignedOK, CheckOK
  <1>7. FailuresOK'
    BY DEF IInv, TypeOK, DownOK, Settled, FailuresOK, FailingIsOnRecord, Capped
  <1>8. CheckedOK'
    BY DEF IInv, TypeOK, AlignedOK, CheckedOK, LateAge, Capped, Lateness
  <1> QED BY <1>1, <1>2, <1>3, <1>4, <1>5, <1>6, <1>7, <1>8 DEF IInv

LEMMA StartRunOK == ASSUME IInv, NEW j \in Jobs, StartRun(j) PROVE IInv'
  <1> USE ConstantFacts DEF StartRun, clockVars, runVars, history
  <1>1. TypeOK'
    BY DEF IInv, TypeOK, Step, LateAge, LongIdle, Capped
  <1>2. DownOK'
    BY DEF IInv, TypeOK, DownOK, Settled
  <1>3. SpacingOK'
    BY DEF IInv, TypeOK, DownOK, Settled, SpacingOK, Lateness, LateAge, Capped
  <1>4. PunctualOK'
    BY DEF IInv, TypeOK, DownOK, Settled, SpacingOK, PunctualOK, Lateness, LateAge, LongIdle, Capped
  <1>5. AlignedOK'
    BY DEF IInv, AlignedOK
  <1>6. CheckOK'
    BY DEF IInv, TypeOK, DownOK, Settled, CheckOK
  <1>7. FailuresOK'
    BY DEF IInv, TypeOK, DownOK, Settled, FailuresOK, FailingIsOnRecord, Capped
  <1>8. CheckedOK'
    BY DEF IInv, TypeOK, DownOK, Settled, CheckedOK, Lateness, LateAge, Capped
  <1> QED BY <1>1, <1>2, <1>3, <1>4, <1>5, <1>6, <1>7, <1>8 DEF IInv

LEMMA MisfireOK == ASSUME IInv, NEW j \in Jobs, Misfire(j) PROVE IInv'
  <1> USE ConstantFacts DEF Misfire, clockVars, runVars, history
  <1>1. TypeOK'
    BY DEF IInv, TypeOK, Step, LateAge, LongIdle, Capped
  <1>2. DownOK'
    BY DEF IInv, TypeOK, DownOK, Settled
  <1>3. SpacingOK'
    BY DEF IInv, TypeOK, DownOK, Settled, SpacingOK, Lateness, LateAge, Capped
  <1>4. PunctualOK'
    BY DEF IInv, TypeOK, DownOK, Settled, SpacingOK, PunctualOK, Lateness, LateAge, LongIdle, Capped
  <1>5. AlignedOK'
    BY DEF IInv, AlignedOK
  <1>6. CheckOK'
    BY SameLateness DEF IInv, TypeOK, SpacingOK, PunctualOK, CheckOK
  <1>7. FailuresOK'
    BY DEF IInv, TypeOK, DownOK, Settled, FailuresOK, FailingIsOnRecord, Capped
  <1>8. CheckedOK'
    BY DEF IInv, TypeOK, DownOK, Settled, CheckedOK, Lateness, LateAge, Capped
  <1> QED BY <1>1, <1>2, <1>3, <1>4, <1>5, <1>6, <1>7, <1>8 DEF IInv

LEMMA RunFailsOK == ASSUME IInv, NEW j \in Jobs, RunFails(j) PROVE IInv'
  <1> USE ConstantFacts DEF RunFails, clockVars, runVars, history
  <1>1. TypeOK'
    BY DEF IInv, TypeOK, Step, LateAge, LongIdle, Capped
  <1>2. DownOK'
    BY DEF IInv, TypeOK, DownOK, Settled
  <1>3. SpacingOK'
    BY DEF IInv, TypeOK, DownOK, Settled, SpacingOK, Lateness, LateAge, Capped
  <1>4. PunctualOK'
    BY DEF IInv, TypeOK, DownOK, Settled, SpacingOK, PunctualOK, Lateness, LateAge, LongIdle, Capped
  <1>5. AlignedOK'
    BY DEF IInv, AlignedOK
  <1>6. CheckOK'
    BY DEF IInv, TypeOK, DownOK, Settled, CheckOK
  <1>7. FailuresOK'
    BY DEF IInv, TypeOK, DownOK, Settled, FailuresOK, FailingIsOnRecord, Capped
  <1>8. CheckedOK'
    BY DEF IInv, TypeOK, DownOK, Settled, CheckedOK, Lateness, LateAge, Capped
  <1> QED BY <1>1, <1>2, <1>3, <1>4, <1>5, <1>6, <1>7, <1>8 DEF IInv

LEMMA RunReturnsOK == ASSUME IInv, NEW j \in Jobs, RunReturns(j) PROVE IInv'
  <1> USE ConstantFacts DEF RunReturns, clockVars, runVars, history
  <1>1. TypeOK'
    BY DEF IInv, TypeOK, Step, LateAge, LongIdle, Capped
  <1>2. DownOK'
    BY DEF IInv, TypeOK, DownOK, Settled
  <1>3. SpacingOK'
    BY DEF IInv, TypeOK, DownOK, Settled, SpacingOK, Lateness, LateAge, Capped
  <1>4. PunctualOK'
    BY DEF IInv, TypeOK, DownOK, Settled, SpacingOK, PunctualOK, Lateness, LateAge, LongIdle, Capped
  <1>5. AlignedOK'
    BY DEF IInv, AlignedOK
  <1>6. CheckOK'
    BY DEF IInv, TypeOK, DownOK, Settled, CheckOK
  <1>7. FailuresOK'
    BY DEF IInv, TypeOK, DownOK, Settled, FailuresOK, FailingIsOnRecord, Capped
  <1>8. CheckedOK'
    BY DEF IInv, TypeOK, DownOK, Settled, CheckedOK, Lateness, LateAge, Capped
  <1> QED BY <1>1, <1>2, <1>3, <1>4, <1>5, <1>6, <1>7, <1>8 DEF IInv

LEMMA RecordRunOK == ASSUME IInv, NEW j \in Jobs, RecordRun(j) PROVE IInv'
  <1> USE ConstantFacts DEF RecordRun, clockVars, runVars, history
  <1>1. TypeOK'
    BY DEF IInv, TypeOK, Step, LateAge, LongIdle, Capped
  <1>2. DownOK'
    BY DEF IInv, TypeOK, DownOK, Settled
  <1>3. SpacingOK'
    BY DEF IInv, TypeOK, DownOK, Settled, SpacingOK, Lateness, LateAge, Capped
  <1>4. PunctualOK'
    BY DEF IInv, TypeOK, DownOK, Settled, SpacingOK, PunctualOK, Lateness, LateAge, LongIdle, Capped
  <1>5. AlignedOK'
    BY DEF IInv, AlignedOK
  <1>6. CheckOK'
    BY DEF IInv, TypeOK, DownOK, Settled, CheckOK
  <1>7. FailuresOK'
    BY DEF IInv, TypeOK, DownOK, Settled, FailuresOK, FailingIsOnRecord, Capped
  <1>8. CheckedOK'
    BY DEF IInv, TypeOK, DownOK, Settled, CheckedOK, Lateness, LateAge, Capped
  <1> QED BY <1>1, <1>2, <1>3, <1>4, <1>5, <1>6, <1>7, <1>8 DEF IInv

LEMMA NextOK == IInv /\ [Next]_vars => IInv'
  <1> SUFFICES ASSUME IInv, [Next]_vars PROVE IInv'
    OBVIOUS
  <1>1. CASE Boot \/ Shutdown \/ Stopped \/ Crash
    BY <1>1, BootOK, ShutdownOK, StoppedOK, CrashOK
  <1>2. CASE Tick \/ WakeLoop
    BY <1>2, TickOK, WakeLoopOK
  <1>3. ASSUME NEW j \in Jobs, Run(j) PROVE IInv'
    BY <1>3, StartRunOK, MisfireOK, RunFailsOK, RunReturnsOK, RecordRunOK DEF Run
  <1>4. CASE UNCHANGED vars
    BY <1>4 DEF vars, clockVars, runVars, history, IInv, TypeOK, DownOK, Settled,
                SpacingOK, PunctualOK, AlignedOK, CheckOK, CheckedOK,
                FailuresOK, FailingIsOnRecord, Lateness
  <1> QED BY <1>1, <1>2, <1>3, <1>4 DEF Next

LEMMA Invariance == Spec => []IInv
  BY InitOK, NextOK, PTL DEF Spec

\* Every variable of the scheduler keeps its type.
THEOREM TypeCorrect == Spec => []TypeOK
  <1>1. IInv => TypeOK
    BY DEF IInv
  <1> QED BY <1>1, Invariance, PTL

\* A job out of work runs again within its interval and the grace, as long as
\* the loop and the pool keep up.
THEOREM IdleJobsRun == Spec => []IdleJobsRunAgain
  <1>1. IInv => IdleJobsRunAgain
    BY DEF IInv, PunctualOK, IdleJobsRunAgain
  <1> QED BY <1>1, Invariance, PTL

\* What is counted as failing has an error as its last row.
THEOREM FailingRecorded == Spec => []FailingIsOnRecord
  <1>1. IInv => FailingIsOnRecord
    BY DEF IInv, FailuresOK
  <1> QED BY <1>1, Invariance, PTL

\* Only StartRun takes a submitted run to running.
LEMMA OnlyStartRunStarts ==
    ASSUME IInv, [Next]_vars, NEW j \in Jobs, Starts(j)
    PROVE  age[j] <= Grace
  <1> USE DEF Starts
  <1>1. CASE Boot \/ Shutdown \/ Stopped \/ Crash \/ Tick \/ WakeLoop \/ UNCHANGED vars
    BY <1>1 DEF Boot, Shutdown, Stopped, Crash, Tick, WakeLoop, vars, runVars,
                IInv, TypeOK
  <1>2. ASSUME NEW i \in Jobs, Run(i) PROVE age[j] <= Grace
    BY <1>2 DEF Run, StartRun, Misfire, RunFails, RunReturns, RecordRun, IInv, TypeOK
  <1> QED BY <1>1, <1>2 DEF Next

\* Runs of a job start an interval apart, less the grace: no backlog is ever
\* replayed, whatever was missed.
THEOREM RunsSpaced == Spec => RunsAreSpaced
  <1>1. ASSUME IInv, [Next]_vars
        PROVE  \A j \in Jobs : Starts(j) => sinceStart[j] >= Interval[j] - Grace
    <2> SUFFICES ASSUME NEW j \in Jobs, Starts(j)
                 PROVE  sinceStart[j] >= Interval[j] - Grace
      OBVIOUS
    <2>1. age[j] <= Grace
      BY <1>1, OnlyStartRunStarts
    <2> QED BY <1>1, <2>1, ConstantFacts DEF IInv, TypeOK, SpacingOK, Starts, LateAge
  <1> QED BY <1>1, Invariance, PTL DEF Spec, RunsAreSpaced

\* The underwriting job never starts without a reconciliation that is out or has
\* just ended, unless that one was itself late.
THEOREM EntriesChecked == Spec => EntriesComeWithACheck
  <1>1. ASSUME IInv, [Next]_vars
        PROVE  Starts(Entries) /\ Check \in punctual =>
                  step[Check] # "idle" \/ (checked /\ idleFor[Check] <= Grace)
    <2> SUFFICES ASSUME Starts(Entries), Check \in punctual, step[Check] = "idle"
                 PROVE  checked /\ idleFor[Check] <= Grace
      OBVIOUS
    <2>1. age[Entries] <= Grace
      BY <1>1, OnlyStartRunStarts, ConstantFacts
    <2>2. checked
      BY <1>1, <2>1 DEF IInv, CheckedOK, Starts
    <2>3. idleFor[Check] <= Grace
      BY <1>1, <2>1, ConstantFacts DEF IInv, TypeOK, CheckOK, Starts, LateAge
    <2> QED BY <2>2, <2>3
  <1> QED BY <1>1, Invariance, PTL DEF Spec, EntriesComeWithACheck
=============================================================================
