------------------------- MODULE TokenBucketProofs -------------------------
(***************************************************************************)
(* For any number of threads, any rate, burst and window: the bucket keeps *)
(* its bounds whatever races, paces calls that do not overlap, and never   *)
(* makes a caller wait that came alone and late enough.                    *)
(***************************************************************************)
EXTENDS TokenBucket, TLAPS

\* What a thread inside acquire() carries is what it read or computed.
LocalsOK ==
    \A t \in Threads :
        /\ 0 <= now[t] /\ now[t] <= clock
        /\ step[t] = "idle" => now[t] = 0
        /\ step[t] # "asleep" => wake[t] = 0
        /\ step[t] \in {"idle", "asleep"} => ~woken[t]
        /\ step[t] = "stamp" => held[t] >= 0
        /\ step[t] \in {"fill", "take"} => held[t] \in 0 .. Capacity

\* The bucket was last refilled before the last call returned.
ClockOK == returned <= clock /\ (AllIdle => last <= returned)

AloneOK ==
    quiet => \A t, u \in Threads :
                t # u => step[t] = "idle" \/ step[u] = "idle"

\* Granted calls and what is in the bucket, or about to be, never exceed the
\* burst and the time refilled; a sleep is long enough for a whole token.
PacedOK ==
    quiet =>
        /\ granted > 0 => last >= 0
        /\ (\A t \in Threads : step[t] \notin {"fill", "take"}) =>
              granted * Token + level <= Capacity + Larger(last, 0)
        /\ \A t \in Threads :
              /\ step[t] = "fill" =>
                    /\ last >= 0
                    /\ granted * Token + held[t] <= Capacity + last
                    /\ woken[t] => held[t] >= Token
              /\ step[t] = "take" =>
                    /\ last >= 0
                    /\ granted * Token + Token + held[t] <= Capacity + last
              /\ step[t] \in {"compare", "stamp"} =>
                    /\ last <= now[t]
                    /\ woken[t] => level + now[t] - last >= Token
              /\ step[t] = "stamp" => held[t] = now[t] - last
              /\ step[t] = "asleep" => wake[t] >= last + Token - level

\* What a call sees of the time since the last one returned.
SpacedOK ==
    quiet => \A t \in Threads :
        /\ step[t] \in {"compare", "stamp"} /\ ~woken[t] => last <= returned
        /\ step[t] = "fill" /\ ~woken[t] =>
              held[t] >= Smaller(Capacity, now[t] - returned)
        /\ step[t] = "asleep" => now[t] < returned + Token

IInv == TypeOK /\ LocalsOK /\ ClockOK /\ AloneOK /\ PacedOK /\ SpacedOK

\* One token fits the bucket.
LEMMA CapacityFacts == Capacity \in Nat /\ Capacity >= Token /\ Token \in Nat /\ Token > 0
  <1>1. /\ Burst \in Nat /\ Burst >= 1 /\ Token \in Nat /\ Token >= 1
    BY TokenAssumption, BurstAssumption
  <1>2. Burst * Token \in Nat /\ Burst * Token >= Token
    BY <1>1
  <1> QED BY <1>1, <1>2 DEF Capacity

\* One more granted call costs one more token.
LEMMA OneMore ==
    ASSUME NEW n \in Nat
    PROVE  /\ n * Token \in Nat
           /\ (n + 1) * Token = n * Token + Token
           /\ 0 * Token = 0
  BY CapacityFacts

LEMMA InitOK == Init => IInv
  <1> SUFFICES ASSUME Init PROVE IInv
    OBVIOUS
  <1> USE DEF Init
  <1>1. TypeOK
    BY CapacityFacts DEF TypeOK, Step
  <1>2. LocalsOK /\ ClockOK /\ AloneOK
    BY CapacityFacts DEF LocalsOK, ClockOK, AloneOK
  <1>3. PacedOK
    BY CapacityFacts, OneMore DEF PacedOK, Larger
  <1>4. SpacedOK
    BY DEF SpacedOK
  <1> QED BY <1>1, <1>2, <1>3, <1>4 DEF IInv

LEMMA AcquireOK == ASSUME IInv, NEW t \in Threads, Acquire(t) PROVE IInv'
  <1> USE DEF Acquire, AllIdle, bucket, locals, observer
  <1>1. TypeOK'
    BY CapacityFacts DEF IInv, TypeOK, LocalsOK, Step, Larger, Smaller
  <1>2. LocalsOK'
    BY CapacityFacts DEF IInv, TypeOK, LocalsOK, Larger, Smaller
  <1>3. ClockOK' /\ AloneOK'
    BY CapacityFacts DEF IInv, TypeOK, LocalsOK, ClockOK, AloneOK, AllIdle
  <1>4. PacedOK'
    BY CapacityFacts, OneMore DEF IInv, TypeOK, LocalsOK, ClockOK, AloneOK, PacedOK, Larger, Smaller
  <1>5. SpacedOK'
    BY CapacityFacts DEF IInv, TypeOK, LocalsOK, ClockOK, AloneOK, PacedOK, SpacedOK, AllIdle, Larger, Smaller
  <1> QED BY <1>1, <1>2, <1>3, <1>4, <1>5 DEF IInv

LEMMA CompareOK == ASSUME IInv, NEW t \in Threads, Compare(t) PROVE IInv'
  <1> USE DEF Compare, bucket, locals, observer
  <1>1. TypeOK'
    BY CapacityFacts DEF IInv, TypeOK, LocalsOK, Step, Larger, Smaller
  <1>2. LocalsOK'
    BY CapacityFacts DEF IInv, TypeOK, LocalsOK, Larger, Smaller
  <1>3. ClockOK' /\ AloneOK'
    BY CapacityFacts DEF IInv, TypeOK, LocalsOK, ClockOK, AloneOK, AllIdle
  <1>4. PacedOK'
    BY CapacityFacts, OneMore DEF IInv, TypeOK, LocalsOK, ClockOK, AloneOK, PacedOK, Larger, Smaller
  <1>5. SpacedOK'
    BY CapacityFacts DEF IInv, TypeOK, LocalsOK, ClockOK, AloneOK, PacedOK, SpacedOK, AllIdle, Larger, Smaller
  <1> QED BY <1>1, <1>2, <1>3, <1>4, <1>5 DEF IInv

LEMMA StampOK == ASSUME IInv, NEW t \in Threads, Stamp(t) PROVE IInv'
  <1> USE DEF Stamp, Filled, bucket, locals, observer
  <1>1. TypeOK'
    BY CapacityFacts DEF IInv, TypeOK, LocalsOK, Step, Larger, Smaller
  <1>2. LocalsOK'
    BY CapacityFacts DEF IInv, TypeOK, LocalsOK, Larger, Smaller
  <1>3. ClockOK' /\ AloneOK'
    BY CapacityFacts DEF IInv, TypeOK, LocalsOK, ClockOK, AloneOK, AllIdle
  <1>4. PacedOK'
    BY CapacityFacts, OneMore DEF IInv, TypeOK, LocalsOK, ClockOK, AloneOK, PacedOK, Larger, Smaller
  <1>5. SpacedOK'
    BY CapacityFacts DEF IInv, TypeOK, LocalsOK, ClockOK, AloneOK, PacedOK, SpacedOK, AllIdle, Larger, Smaller
  <1> QED BY <1>1, <1>2, <1>3, <1>4, <1>5 DEF IInv

LEMMA TakeAtOnceOK == ASSUME IInv, NEW t \in Threads, TakeAtOnce(t) PROVE IInv'
  <1> USE DEF TakeAtOnce, Return, bucket, locals, observer
  <1>1. TypeOK'
    BY CapacityFacts DEF IInv, TypeOK, LocalsOK, Step, Larger, Smaller
  <1>2. LocalsOK'
    BY CapacityFacts DEF IInv, TypeOK, LocalsOK, Larger, Smaller
  <1>3. ClockOK' /\ AloneOK'
    BY CapacityFacts DEF IInv, TypeOK, LocalsOK, ClockOK, AloneOK, AllIdle
  <1>4. PacedOK'
    BY CapacityFacts, OneMore DEF IInv, TypeOK, LocalsOK, ClockOK, AloneOK, PacedOK, Larger, Smaller
  <1>5. SpacedOK'
    BY CapacityFacts DEF IInv, TypeOK, LocalsOK, ClockOK, AloneOK, PacedOK, SpacedOK, AllIdle, Larger, Smaller
  <1> QED BY <1>1, <1>2, <1>3, <1>4, <1>5 DEF IInv

LEMMA SleepOK == ASSUME IInv, NEW t \in Threads, Sleep(t) PROVE IInv'
  <1> USE DEF Sleep, bucket, locals, observer
  <1>1. TypeOK'
    BY CapacityFacts DEF IInv, TypeOK, LocalsOK, Step, Larger, Smaller
  <1>2. LocalsOK'
    BY CapacityFacts DEF IInv, TypeOK, LocalsOK, Larger, Smaller
  <1>3. ClockOK' /\ AloneOK'
    BY CapacityFacts DEF IInv, TypeOK, LocalsOK, ClockOK, AloneOK, AllIdle
  <1>4. PacedOK'
    BY CapacityFacts, OneMore DEF IInv, TypeOK, LocalsOK, ClockOK, AloneOK, PacedOK, Larger, Smaller
  <1>5. SpacedOK'
    BY CapacityFacts DEF IInv, TypeOK, LocalsOK, ClockOK, AloneOK, PacedOK, SpacedOK, AllIdle, Larger, Smaller
  <1> QED BY <1>1, <1>2, <1>3, <1>4, <1>5 DEF IInv

LEMMA WakeOK == ASSUME IInv, NEW t \in Threads, Wake(t) PROVE IInv'
  <1> USE DEF Wake, bucket, locals, observer
  <1>1. TypeOK'
    BY CapacityFacts DEF IInv, TypeOK, LocalsOK, Step, Larger, Smaller
  <1>2. LocalsOK'
    BY CapacityFacts DEF IInv, TypeOK, LocalsOK, Larger, Smaller
  <1>3. ClockOK' /\ AloneOK'
    BY CapacityFacts DEF IInv, TypeOK, LocalsOK, ClockOK, AloneOK, AllIdle
  <1>4. PacedOK'
    BY CapacityFacts, OneMore DEF IInv, TypeOK, LocalsOK, ClockOK, AloneOK, PacedOK, Larger, Smaller
  <1>5. SpacedOK'
    BY CapacityFacts DEF IInv, TypeOK, LocalsOK, ClockOK, AloneOK, PacedOK, SpacedOK, AllIdle, Larger, Smaller
  <1> QED BY <1>1, <1>2, <1>3, <1>4, <1>5 DEF IInv

LEMMA FillAgainOK == ASSUME IInv, NEW t \in Threads, FillAgain(t) PROVE IInv'
  <1> USE DEF FillAgain, bucket, locals, observer
  <1>1. TypeOK'
    BY CapacityFacts DEF IInv, TypeOK, LocalsOK, Step, Larger, Smaller
  <1>2. LocalsOK'
    BY CapacityFacts DEF IInv, TypeOK, LocalsOK, Larger, Smaller
  <1>3. ClockOK' /\ AloneOK'
    BY CapacityFacts DEF IInv, TypeOK, LocalsOK, ClockOK, AloneOK, AllIdle
  <1>4. PacedOK'
    BY CapacityFacts, OneMore DEF IInv, TypeOK, LocalsOK, ClockOK, AloneOK, PacedOK, Larger, Smaller
  <1>5. SpacedOK'
    BY CapacityFacts DEF IInv, TypeOK, LocalsOK, ClockOK, AloneOK, PacedOK, SpacedOK, AllIdle, Larger, Smaller
  <1> QED BY <1>1, <1>2, <1>3, <1>4, <1>5 DEF IInv

LEMMA TakeOK == ASSUME IInv, NEW t \in Threads, Take(t) PROVE IInv'
  <1> USE DEF Take, Return, bucket, locals, observer
  <1>1. TypeOK'
    BY CapacityFacts DEF IInv, TypeOK, LocalsOK, Step, Larger, Smaller
  <1>2. LocalsOK'
    BY CapacityFacts DEF IInv, TypeOK, LocalsOK, Larger, Smaller
  <1>3. ClockOK' /\ AloneOK'
    BY CapacityFacts DEF IInv, TypeOK, LocalsOK, ClockOK, AloneOK, AllIdle
  <1>4. PacedOK'
    BY CapacityFacts, OneMore DEF IInv, TypeOK, LocalsOK, ClockOK, AloneOK, PacedOK, Larger, Smaller
  <1>5. SpacedOK'
    BY CapacityFacts DEF IInv, TypeOK, LocalsOK, ClockOK, AloneOK, PacedOK, SpacedOK, AllIdle, Larger, Smaller
  <1> QED BY <1>1, <1>2, <1>3, <1>4, <1>5 DEF IInv

LEMMA TickOK == IInv /\ Tick => IInv'
  <1> SUFFICES ASSUME IInv, Tick PROVE IInv'
    OBVIOUS
  <1> USE DEF Tick, bucket, locals, observer
  <1>1. TypeOK'
    BY CapacityFacts DEF IInv, TypeOK, LocalsOK, AllIdle, Step, Larger
  <1>2. LocalsOK'
    BY CapacityFacts DEF IInv, TypeOK, LocalsOK, AllIdle
  <1>3. ClockOK' /\ AloneOK'
    BY CapacityFacts DEF IInv, TypeOK, ClockOK, AloneOK, AllIdle, Larger
  <1>4. PacedOK'
    BY CapacityFacts, OneMore DEF IInv, TypeOK, LocalsOK, PacedOK, AllIdle, Larger
  <1>5. SpacedOK'
    BY CapacityFacts DEF IInv, TypeOK, LocalsOK, SpacedOK, AllIdle, Larger
  <1> QED BY <1>1, <1>2, <1>3, <1>4, <1>5 DEF IInv

LEMMA OpenWindowOK == IInv /\ OpenWindow => IInv'
  <1> SUFFICES ASSUME IInv, OpenWindow PROVE IInv'
    OBVIOUS
  <1> USE DEF OpenWindow, bucket, locals, observer
  <1>1. TypeOK'
    BY CapacityFacts DEF IInv, TypeOK, LocalsOK, AllIdle, Step, Larger
  <1>2. LocalsOK'
    BY CapacityFacts DEF IInv, TypeOK, LocalsOK, AllIdle
  <1>3. ClockOK' /\ AloneOK'
    BY CapacityFacts DEF IInv, TypeOK, ClockOK, AloneOK, AllIdle, Larger
  <1>4. PacedOK'
    BY CapacityFacts, OneMore DEF IInv, TypeOK, LocalsOK, PacedOK, AllIdle, Larger
  <1>5. SpacedOK'
    BY CapacityFacts DEF IInv, TypeOK, LocalsOK, SpacedOK, AllIdle, Larger
  <1> QED BY <1>1, <1>2, <1>3, <1>4, <1>5 DEF IInv

LEMMA NextOK == IInv /\ [Next]_vars => IInv'
  <1> SUFFICES ASSUME IInv, [Next]_vars PROVE IInv'
    OBVIOUS
  <1>1. ASSUME NEW t \in Threads, Acquire(t) \/ Runs(t) PROVE IInv'
    BY <1>1, AcquireOK, CompareOK, StampOK, TakeAtOnceOK, SleepOK, WakeOK,
       FillAgainOK, TakeOK DEF Runs
  <1>2. CASE Tick
    BY <1>2, TickOK
  <1>3. CASE OpenWindow
    BY <1>3, OpenWindowOK
  <1>4. CASE UNCHANGED vars
    BY <1>4 DEF vars, bucket, locals, observer, IInv, TypeOK, LocalsOK, ClockOK,
                AloneOK, PacedOK, SpacedOK, AllIdle
  <1> QED BY <1>1, <1>2, <1>3, <1>4 DEF Next

LEMMA Invariance == Spec => []IInv
  BY InitOK, NextOK, PTL DEF Spec

\* Whatever acquire()s race, the bucket is never empty beyond empty nor full
\* beyond its burst, and no call sleeps longer than one token takes.
THEOREM TypeCorrect == Spec => []TypeOK
  <1>1. IInv => TypeOK
    BY DEF IInv
  <1> QED BY <1>1, Invariance, PTL

\* Calls that do not overlap are paced in every window, whatever races came
\* before it (FR-088).
THEOREM CallsArePaced == Spec => []QuietCallsArePaced
  <1>1. IInv => QuietCallsArePaced
    <2> SUFFICES ASSUME IInv, quiet PROVE granted * Token <= Capacity + clock
      BY DEF QuietCallsArePaced
    <2> USE CapacityFacts, OneMore DEF IInv, TypeOK
    <2>1. ASSUME NEW t \in Threads, step[t] \in {"fill", "take"}
          PROVE  granted * Token <= Capacity + clock
      BY <2>1 DEF LocalsOK, PacedOK
    <2>2. CASE \A t \in Threads : step[t] \notin {"fill", "take"}
      BY <2>2 DEF PacedOK, Larger
    <2> QED BY <2>1, <2>2
  <1> QED BY <1>1, Invariance, PTL

\* A caller that comes alone, a token's time after the last return, never sleeps.
THEOREM SpacedCallsPass == Spec => []SpacedCallsNeverSleep
  <1>1. IInv => SpacedCallsNeverSleep
    BY DEF IInv, SpacedOK, SpacedCallsNeverSleep
  <1> QED BY <1>1, Invariance, PTL
=============================================================================
