---------------------------- MODULE TokenBucket ----------------------------
(***************************************************************************)
(* The client-side rate limiter: one token bucket, without a lock, that    *)
(* every broker call of the execution engine goes through.  The engine is  *)
(* built once and the scheduler runs each job on a thread of its own, so   *)
(* two jobs may be inside acquire() together.                              *)
(*                                                                         *)
(* The bucket holds time: a level of n means that n ticks' worth of refill *)
(* is there, and one call costs Token ticks.  Rates are exact this way.    *)
(*                                                                         *)
(* A thread is switched out only where it calls something (the clock, max, *)
(* min, sleep): there CPython looks for a switch request.  The shared      *)
(* attributes touched between two calls are touched in one step.           *)
(*                                                                         *)
(* An observer measures windows of time.  The clock counts from the start  *)
(* of its window, so that a window may open at any quiet moment of an      *)
(* unbounded run; times before that are negative.                          *)
(***************************************************************************)
EXTENDS Integers

CONSTANTS
    Threads,    \* the job threads that share the engine
    Token,      \* ticks in which one token is refilled (60 / rate_per_minute)
    Burst,      \* the bucket's capacity, in tokens
    Window      \* longest window the observer watches, in ticks (a bound)

ASSUME TokenAssumption == Token \in Nat \ {0}
ASSUME BurstAssumption == Burst \in Nat \ {0}
ASSUME WindowAssumption == Window \in Nat

VARIABLES
    clock,      \* time.monotonic(), from the start of the window
    level,      \* _tokens, in ticks' worth of refill
    last,       \* _last
    step,       \* step[t]: what thread t does next inside acquire()
    woken,      \* woken[t]: it has slept and refills a second time
    now,        \* now[t]: the clock as _refill read it
    held,       \* held[t]: elapsed, or the level about to be written
    wake,       \* wake[t]: when its sleep is over
    quiet,      \* no two calls have overlapped in this window
    granted,    \* calls let through in it; the count ends with the quiet
    returned    \* when a call last returned

bucket == <<level, last>>
locals == <<step, woken, now, held, wake>>
observer == <<quiet, granted, returned>>
vars == <<clock, bucket, locals, observer>>

Capacity == Burst * Token

Smaller(a, b) == IF a < b THEN a ELSE b
Larger(a, b) == IF a > b THEN a ELSE b

Step == {"idle", "compare", "stamp", "fill", "asleep", "take"}

Init ==
    /\ clock = 0
    /\ level = Capacity
    /\ last = 0
    /\ step = [t \in Threads |-> "idle"]
    /\ woken = [t \in Threads |-> FALSE]
    /\ now = [t \in Threads |-> 0]
    /\ held = [t \in Threads |-> 0]
    /\ wake = [t \in Threads |-> 0]
    /\ granted = 0
    /\ quiet = TRUE
    /\ returned = 0

AllIdle == \A t \in Threads : step[t] = "idle"

(***************************************************************************)
(* acquire()                                                               *)
(***************************************************************************)

\* A broker call is due and its thread enters acquire(); _refill reads the
\* clock.
Acquire(t) ==
    /\ step[t] = "idle"
    /\ clock < Window
    /\ step' = [step EXCEPT ![t] = "compare"]
    /\ now' = [now EXCEPT ![t] = clock]
    /\ quiet' = (quiet /\ AllIdle)
    /\ granted' = IF AllIdle THEN granted ELSE 0
    /\ UNCHANGED <<clock, bucket, woken, held, wake, returned>>

\* _refill: elapsed = max(0, now - _last).
Compare(t) ==
    /\ step[t] = "compare"
    /\ step' = [step EXCEPT ![t] = "stamp"]
    /\ held' = [held EXCEPT ![t] = Larger(0, now[t] - last)]
    /\ UNCHANGED <<clock, bucket, woken, now, wake, observer>>

\* _refill: what min() makes of the level and the elapsed time.
Filled(t) == Smaller(Capacity, level + held[t])

\* Mutant: the time of the refill is not kept.
StampForgets(t) ==
    /\ step[t] = "stamp"
    /\ step' = [step EXCEPT ![t] = "fill"]
    /\ held' = [held EXCEPT ![t] = Filled(t)]
    /\ UNCHANGED <<clock, bucket, woken, now, wake, observer>>

\* _refill: _last is written, and the level read and refilled.
Stamp(t) ==
    /\ step[t] = "stamp"
    /\ step' = [step EXCEPT ![t] = "fill"]
    /\ last' = now[t]
    /\ held' = [held EXCEPT ![t] = Filled(t)]
    /\ UNCHANGED <<clock, level, woken, now, wake, observer>>

\* The call returns, and the broker call it stands for goes out.
Return(t) ==
    /\ step' = [step EXCEPT ![t] = "idle"]
    /\ woken' = [woken EXCEPT ![t] = FALSE]
    /\ now' = [now EXCEPT ![t] = 0]
    /\ held' = [held EXCEPT ![t] = 0]
    /\ wake' = [wake EXCEPT ![t] = 0]
    /\ granted' = IF quiet THEN granted + 1 ELSE 0
    /\ returned' = clock

\* The refilled level is written; there is a token, and it is taken.
TakeAtOnce(t) ==
    /\ step[t] = "fill"
    /\ ~woken[t]
    /\ held[t] >= Token
    /\ level' = held[t] - Token
    /\ Return(t)
    /\ UNCHANGED <<clock, last, quiet>>

\* The refilled level is written; it falls short, and the thread sleeps until
\* the deficit will have been refilled.
Sleep(t) ==
    /\ step[t] = "fill"
    /\ ~woken[t]
    /\ held[t] < Token
    /\ level' = held[t]
    /\ step' = [step EXCEPT ![t] = "asleep"]
    /\ held' = [held EXCEPT ![t] = 0]
    /\ wake' = [wake EXCEPT ![t] = clock + (Token - held[t])]
    /\ UNCHANGED <<clock, last, woken, now, observer>>

\* Mutant: the thread waits for the bucket to be refilled, not for the clock.
WakeWhenRefilled(t) ==
    /\ step[t] = "asleep"
    /\ level >= Token
    /\ step' = [step EXCEPT ![t] = "compare"]
    /\ woken' = [woken EXCEPT ![t] = TRUE]
    /\ now' = [now EXCEPT ![t] = clock]
    /\ wake' = [wake EXCEPT ![t] = 0]
    /\ UNCHANGED <<clock, bucket, held, observer>>

\* time.sleep returns, on time or late, and the second _refill reads the clock.
Wake(t) ==
    /\ step[t] = "asleep"
    /\ clock >= wake[t]
    /\ step' = [step EXCEPT ![t] = "compare"]
    /\ woken' = [woken EXCEPT ![t] = TRUE]
    /\ now' = [now EXCEPT ![t] = clock]
    /\ wake' = [wake EXCEPT ![t] = 0]
    /\ UNCHANGED <<clock, bucket, held, observer>>

\* Mutant: a token that is not there is taken on credit.
FillAgainOnCredit(t) ==
    /\ step[t] = "fill"
    /\ woken[t]
    /\ level' = held[t]
    /\ step' = [step EXCEPT ![t] = "take"]
    /\ held' = [held EXCEPT ![t] = held[t] - Token]
    /\ UNCHANGED <<clock, last, woken, now, wake, observer>>

\* The second refill is written, and max(0, level - token) computed from it.
FillAgain(t) ==
    /\ step[t] = "fill"
    /\ woken[t]
    /\ level' = held[t]
    /\ step' = [step EXCEPT ![t] = "take"]
    /\ held' = [held EXCEPT ![t] = Larger(0, held[t] - Token)]
    /\ UNCHANGED <<clock, last, woken, now, wake, observer>>

\* The call that slept takes its token, or what there is of one.
Take(t) ==
    /\ step[t] = "take"
    /\ level' = held[t]
    /\ Return(t)
    /\ UNCHANGED <<clock, last, quiet>>

(***************************************************************************)
(* Time and the observer                                                   *)
(***************************************************************************)

\* Time passes, to the end of the window and on for those still due to sleep.
Tick ==
    /\ clock < Window \/ \E t \in Threads : step[t] = "asleep" /\ clock < wake[t]
    /\ clock' = clock + 1
    /\ UNCHANGED <<bucket, locals, observer>>

\* With no call inside, the observer opens a new window.  A bucket left alone
\* for the time of its capacity is full, so older times need not be told apart.
OpenWindow ==
    /\ AllIdle
    /\ clock' = 0
    /\ last' = Larger(last - clock, -Capacity)
    /\ returned' = Larger(returned - clock, -Capacity)
    /\ granted' = 0
    /\ quiet' = TRUE
    /\ UNCHANGED <<level, locals>>

(***************************************************************************)
(* Specification                                                           *)
(***************************************************************************)

\* A thread inside acquire() runs on.
Runs(t) ==
    \/ Compare(t)
    \/ Stamp(t)
    \/ TakeAtOnce(t)
    \/ Sleep(t)
    \/ Wake(t)
    \/ FillAgain(t)
    \/ Take(t)

Next ==
    \/ \E t \in Threads : Acquire(t) \/ Runs(t)
    \/ Tick
    \/ OpenWindow

Spec == Init /\ [][Next]_vars

\* Threads are scheduled and time passes; nobody has to call.
FairSpec == Spec /\ WF_vars(Tick) /\ \A t \in Threads : WF_vars(Runs(t))

(***************************************************************************)
(* Properties                                                              *)
(***************************************************************************)

\* Every variable of the bucket has its type.  Whatever threads race, the level
\* stays between empty and full, and no sleep is longer than one token takes.
TypeOK ==
    /\ clock \in Nat
    /\ level \in 0 .. Capacity
    /\ last \in Int /\ last <= clock
    /\ step \in [Threads -> Step]
    /\ woken \in [Threads -> BOOLEAN]
    /\ now \in [Threads -> Int]
    /\ held \in [Threads -> Int]
    /\ wake \in [Threads -> Int]
    /\ \A t \in Threads : wake[t] <= clock + Token
    /\ granted \in Nat
    /\ quiet \in BOOLEAN
    /\ returned \in Int

\* The bucket paces its callers (FR-088): in any window in which calls do not
\* overlap, no more go through than the burst and what the window refills.  It
\* holds again as soon as a race is over, whatever the race left in the bucket.
QuietCallsArePaced ==
    quiet => granted * Token <= Capacity + clock

\* The bucket takes no more time than pacing needs: a call that comes at least
\* one token's time after the last one returned, and overlaps no other, never
\* sleeps, not even after a race has left a stale level or a stale _last.
SpacedCallsNeverSleep ==
    quiet => \A t \in Threads : step[t] = "asleep" => now[t] < returned + Token

\* Every acquire() returns: nobody is starved of tokens by the other threads.
EveryAcquireReturns ==
    \A t \in Threads : step[t] # "idle" ~> step[t] = "idle"
=============================================================================
