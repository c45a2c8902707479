----------------------------- MODULE Scheduler -----------------------------
(***************************************************************************)
(* The process and its scheduler: the lifespan of the server starts the    *)
(* jobs, a loop submits those that are due to a pool of threads, and       *)
(* run_job runs one, counts its failures and records it.  The loop and the *)
(* pool are APScheduler's: they are modelled from how start() sets them up *)
(* (an interval trigger, max_instances=1, coalesce, misfire_grace_time).   *)
(*                                                                         *)
(* What a job does is in Desk; here it returns, raises or hangs.           *)
(***************************************************************************)
EXTENDS Integers

CONSTANTS
    Jobs,           \* the jobs the process is wired for
    Entries,        \* the job that opens positions (underwrite)
    Check,          \* the job that compares the book with the broker (reconcile)
    Interval,       \* Interval[j]: ticks from one run of j to the next
    Grace,          \* misfire_grace_time, in ticks
    MaxFailures     \* highest count of failures told apart (a bound)

ASSUME JobsAssumption == {Entries, Check} \subseteq Jobs
ASSUME IntervalAssumption == Interval \in [Jobs -> Nat \ {0}]
ASSUME GraceAssumption == Grace \in Nat /\ \A j \in Jobs : Grace < Interval[j]
\* 30 and 5 minutes: whenever entries are due, so is a reconciliation.
ASSUME CadenceAssumption ==
    \E m \in 1 .. Interval[Entries] : Interval[Entries] = m * Interval[Check]
ASSUME MaxFailuresAssumption == MaxFailures \in Nat \ {0}

VARIABLES
    process,        \* "down", "up", or "stopping"
    due,            \* due[j]: ticks to the next time the trigger names
    missed,         \* jobs a time of whose trigger passed since the loop looked
    step,           \* step[j]: where the one instance of j stands
    age,            \* age[j]: ticks since the time a submitted run was for
    failures,       \* failures[j]: CycleScheduler._failures
    rows,           \* rows[j]: status of the last SchedulerRun row of j
    sinceStart,     \* history: ticks since a run of j last started
    idleFor,        \* history: ticks j has been without a run in this process
    punctual,       \* history: jobs for which no loop or thread was late since
                    \* their last run
    checked         \* history: a run of Check has ended in this process

clockVars == <<due, missed>>
runVars == <<step, age>>
history == <<sinceStart, idleFor, punctual, checked>>
vars == <<process, clockVars, runVars, failures, rows, history>>

Step == {"idle", "submitted", "running", "failed", "done"}

\* Ticks are counted up to where nothing depends on them any more.
Capped(n, bound) == IF n > bound THEN bound ELSE n
LateAge == Grace + 1
LongIdle(j) == Interval[j] + Grace + 1

Init ==
    /\ process = "down"
    /\ due = Interval
    /\ missed = {}
    /\ step = [j \in Jobs |-> "idle"]
    /\ age = [j \in Jobs |-> 0]
    /\ failures = [j \in Jobs |-> 0]
    /\ rows = [j \in Jobs |-> "none"]
    /\ sinceStart = Interval
    /\ idleFor = [j \in Jobs |-> 0]
    /\ punctual = Jobs
    /\ checked = FALSE

Settled == \A j \in Jobs : step[j] = "idle"

(***************************************************************************)
(* The process                                                             *)
(***************************************************************************)

\* Mutant: the first entries are looked for at once.
BootWithEntriesDue ==
    /\ process = "down"
    /\ process' = "up"
    /\ due' = Interval
    /\ missed' = {Entries}
    /\ failures' = [j \in Jobs |-> 0]
    /\ idleFor' = [j \in Jobs |-> 0]
    /\ punctual' = Jobs
    /\ checked' = FALSE
    /\ UNCHANGED <<runVars, rows, sinceStart>>

\* lifespan: the jobs are added and the scheduler started.  A trigger names its
\* first time one interval after it is made; counts start from nothing.
Boot ==
    /\ process = "down"
    /\ process' = "up"
    /\ due' = Interval
    /\ missed' = {}
    /\ failures' = [j \in Jobs |-> 0]
    /\ idleFor' = [j \in Jobs |-> 0]
    /\ punctual' = Jobs
    /\ checked' = FALSE
    /\ UNCHANGED <<runVars, rows, sinceStart>>

\* lifespan, leaving: shutdown(wait=True) submits no more.
Shutdown ==
    /\ process = "up"
    /\ process' = "stopping"
    /\ UNCHANGED <<clockVars, runVars, failures, rows, history>>

\* What was submitted has run its course, and the process ends.
Stopped ==
    /\ process = "stopping"
    /\ Settled
    /\ process' = "down"
    /\ UNCHANGED <<clockVars, runVars, failures, rows, history>>

\* The process dies: runs under way leave no row, counts are forgotten.
Crash ==
    /\ process # "down"
    /\ process' = "down"
    /\ step' = [j \in Jobs |-> "idle"]
    /\ age' = [j \in Jobs |-> 0]
    /\ UNCHANGED <<clockVars, failures, rows, history>>

(***************************************************************************)
(* Time and the loop                                                       *)
(***************************************************************************)

\* How long ago the last time was that the trigger of j named.
Lateness(j) == Interval[j] - due[j]

\* Time passes, whether or not the loop and the threads keep up with it.
Tick ==
    LET passes == {j \in Jobs : due[j] = 1} IN
    /\ due' = [j \in Jobs |-> IF j \in passes THEN Interval[j] ELSE due[j] - 1]
    /\ missed' = IF process = "up" THEN missed \cup passes ELSE missed
    /\ age' = [j \in Jobs |-> IF step[j] = "submitted"
                               THEN Capped(age[j] + 1, LateAge) ELSE age[j]]
    /\ sinceStart' = [j \in Jobs |-> Capped(sinceStart[j] + 1, Interval[j])]
    /\ idleFor' = [j \in Jobs |-> IF step[j] \in {"idle", "submitted"}
                                   THEN Capped(idleFor[j] + 1, LongIdle(j))
                                   ELSE idleFor[j]]
    /\ punctual' = {j \in punctual :
                      /\ j \in missed => Lateness(j) < Grace
                      /\ step[j] = "submitted" => age[j] < Grace}
    /\ UNCHANGED <<process, step, failures, rows, checked>>

\* The loop wakes and submits every job that is due, once, for the last time its
\* trigger named (coalesce); one whose instance is still out is passed over
\* (max_instances).
WakeLoop ==
    LET submitted == {j \in missed : step[j] = "idle"} IN
    /\ process = "up"
    /\ missed # {}
    /\ missed' = {}
    /\ step' = [j \in Jobs |-> IF j \in submitted THEN "submitted" ELSE step[j]]
    /\ age' = [j \in Jobs |-> IF j \in submitted
                               THEN Capped(Lateness(j), LateAge) ELSE age[j]]
    /\ UNCHANGED <<process, due, failures, rows, history>>

(***************************************************************************)
(* One run                                                                 *)
(***************************************************************************)

\* Mutant: a run is started however late it is.
StartHoweverLate(j) ==
    /\ step[j] = "submitted"
    /\ step' = [step EXCEPT ![j] = "running"]
    /\ age' = [age EXCEPT ![j] = 0]
    /\ sinceStart' = [sinceStart EXCEPT ![j] = 0]
    /\ UNCHANGED <<process, clockVars, failures, rows, idleFor, punctual, checked>>

\* A thread of the pool takes the run and calls run_job.
StartRun(j) ==
    /\ step[j] = "submitted"
    /\ age[j] <= Grace
    /\ step' = [step EXCEPT ![j] = "running"]
    /\ age' = [age EXCEPT ![j] = 0]
    /\ sinceStart' = [sinceStart EXCEPT ![j] = 0]
    /\ UNCHANGED <<process, clockVars, failures, rows, idleFor, punctual, checked>>

\* Mutant: a run that is late at all is dropped.
MisfireAtOnce(j) ==
    /\ step[j] = "submitted"
    /\ age[j] > 0
    /\ step' = [step EXCEPT ![j] = "idle"]
    /\ age' = [age EXCEPT ![j] = 0]
    /\ UNCHANGED <<process, clockVars, failures, rows, history>>

\* A run taken too late is dropped: run_job is not called, nothing is recorded.
Misfire(j) ==
    /\ step[j] = "submitted"
    /\ age[j] > Grace
    /\ step' = [step EXCEPT ![j] = "idle"]
    /\ age' = [age EXCEPT ![j] = 0]
    /\ UNCHANGED <<process, clockVars, failures, rows, history>>

\* The job raises or reports an ERROR; _track_failures counts it.  The third in
\* a row, and each one after, is logged.
RunFails(j) ==
    /\ step[j] = "running"
    /\ step' = [step EXCEPT ![j] = "failed"]
    /\ failures' = [failures EXCEPT ![j] = Capped(@ + 1, MaxFailures)]
    /\ UNCHANGED <<process, clockVars, age, rows, history>>

\* The job returns with anything else, NO_ACTION and ABORTED included.
RunReturns(j) ==
    /\ step[j] = "running"
    /\ step' = [step EXCEPT ![j] = "done"]
    /\ failures' = [failures EXCEPT ![j] = 0]
    /\ UNCHANGED <<process, clockVars, age, rows, history>>

\* _record: the SchedulerRun row is committed, or its write fails and is given
\* up; the thread returns to the pool either way.
RecordRun(j) ==
    /\ step[j] \in {"failed", "done"}
    /\ step' = [step EXCEPT ![j] = "idle"]
    /\ \E row \in {step[j], "lost"} : rows' = [rows EXCEPT ![j] = row]
    /\ idleFor' = [idleFor EXCEPT ![j] = 0]
    /\ punctual' = punctual \cup {j}
    /\ checked' = (checked \/ j = Check)
    /\ UNCHANGED <<process, clockVars, age, failures, sinceStart>>

Run(j) ==
    \/ StartRun(j)
    \/ Misfire(j)
    \/ RunFails(j)
    \/ RunReturns(j)
    \/ RecordRun(j)

Next ==
    \/ Boot
    \/ Shutdown
    \/ Stopped
    \/ Crash
    \/ Tick
    \/ WakeLoop
    \/ \E j \in Jobs : Run(j)

Spec == Init /\ [][Next]_vars

(***************************************************************************)
(* Properties                                                              *)
(***************************************************************************)

\* Every variable of the scheduler has its type.
TypeOK ==
    /\ process \in {"down", "up", "stopping"}
    /\ due \in [Jobs -> Nat]
    /\ \A j \in Jobs : due[j] \in 1 .. Interval[j]
    /\ missed \subseteq Jobs
    /\ step \in [Jobs -> Step]
    /\ age \in [Jobs -> 0 .. LateAge]
    /\ failures \in [Jobs -> 0 .. MaxFailures]
    /\ rows \in [Jobs -> {"none", "done", "failed", "lost"}]
    /\ sinceStart \in [Jobs -> Nat]
    /\ \A j \in Jobs : sinceStart[j] <= Interval[j]
    /\ idleFor \in [Jobs -> Nat]
    /\ \A j \in Jobs : idleFor[j] <= LongIdle(j)
    /\ punctual \subseteq Jobs
    /\ checked \in BOOLEAN

Starts(j) == step[j] = "submitted" /\ step'[j] = "running"

\* Runs are never replayed as a backlog: however late the loop and the threads
\* are, and across restarts, two runs of a job start at least its interval
\* apart, less the grace (coalesce and misfire_grace_time together).
RunsAreSpaced ==
    [][\A j \in Jobs : Starts(j) => sinceStart[j] >= Interval[j] - Grace]_vars

\* A missed run is not lost for long: as long as neither the loop nor the pool
\* is later than the grace, a job that is out of work runs again within its
\* interval and the grace, whatever runs it overran or lost before.
IdleJobsRunAgain ==
    process = "up" =>
        \A j \in punctual : idleFor[j] <= Interval[j] + Grace

\* No entries are looked for without a look at the broker (ERR-007): when the
\* underwriting job starts, a reconciliation is out as well or has ended no
\* longer ago than the grace and since the boot, unless a reconciliation was
\* itself taken up too late.
EntriesComeWithACheck ==
    [][Starts(Entries) /\ Check \in punctual =>
          step[Check] # "idle" \/ (checked /\ idleFor[Check] <= Grace)]_vars

\* What the health check calls failing is on record: a job counted as failing
\* has an ERROR as its last row, unless that write was lost.
FailingIsOnRecord ==
    \A j \in Jobs :
        process = "up" /\ failures[j] > 0 /\ step[j] \notin {"failed", "done"} =>
            rows[j] \in {"failed", "lost"}
=============================================================================
