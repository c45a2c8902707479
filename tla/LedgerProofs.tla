---------------------------- MODULE LedgerProofs ----------------------------
(***************************************************************************)
(* Proofs about Ledger, for any threads and any events.                    *)
(***************************************************************************)
EXTENDS Ledger, SequenceTheorems, TLAPS

(***************************************************************************)
(* The invariant                                                           *)
(***************************************************************************)

\* Whoever has written something that is not committed holds the lock, and only
\* a running transaction holds it.
LockOK ==
    \A t \in Threads :
        /\ rows[t] # << >> => lock = t
        /\ changes[t] # {} => lock = t

\* A tip that was read under the lock is still the tip.
TipOK ==
    \A t \in Threads :
        at[t] = "linking" /\ guarded[t] =>
            lock = t /\ tip[t] = LatestHash(Seen(t))

\* Guarded records of a sequence link to the record before them.
Linked(s) ==
    \A i \in 1 .. Len(s) :
        s[i].guarded => s[i].prev_hash = ExpectedPrev(s, i)

LinksOK == Linked(log) /\ \A t \in Threads : Linked(Seen(t))

What(s) == {s[i].what : i \in 1 .. Len(s)}

\* A thread in append() has something to record, and only then.
DoingOK ==
    \A t \in Threads : at[t] \in {"idle", "open"} <=> doing[t] = Nobody

\* What a transaction has changed is what it has recorded, and what it is about
\* to record; the same holds of the commits.
TogetherOK ==
    /\ book = What(log) \cap Changes
    /\ \A t \in Threads :
          changes[t] = (What(rows[t]) \cup {doing[t]}) \cap Changes

\* Every row hashes to its stored value.
Sealed(s) == \A i \in 1 .. Len(s) : s[i].record_hash = Hash(s[i].what, s[i].prev_hash)

SealedOK == Sealed(log) /\ \A t \in Threads : Sealed(rows[t])

IInv ==
    /\ TypeOK /\ DoingOK
    /\ LockOK /\ TipOK /\ LinksOK
    /\ TogetherOK /\ SealedOK

(***************************************************************************)
(* Lemmas about sequences of records                                       *)
(***************************************************************************)

\* A record that the code builds from well-typed parts is well typed.
LEMMA RecordType ==
    ASSUME NEW what \in Events, NEW prev \in Hashes, NEW n \in Nat,
           NEW g \in BOOLEAN
    PROVE  Record(what, prev, n, g) \in Records
<1>1. Append(prev, what) \in Hashes
  BY AppendProperties DEF Hashes
<1> QED
  BY <1>1 DEF Record, Records, Hash

\* The tip of a table of records is a hash, and the next number a number.
LEMMA TipType ==
    ASSUME NEW s \in Seq(Records)
    PROVE  LatestHash(s) \in Hashes /\ NextSeq(s) \in Nat
<1>1. CASE s = << >>
  BY <1>1 DEF LatestHash, NextSeq, GENESIS_HASH, Hashes
<1>2. CASE s # << >>
  <2>1. s[Len(s)] \in Records
    BY <1>2
  <2> QED
    BY <1>2, <2>1 DEF LatestHash, NextSeq, Records
<1> QED
  BY <1>1, <1>2

\* Appending after a concatenation is concatenating with the longer sequence.
LEMMA AppendAfterConcat ==
    ASSUME NEW S, NEW s \in Seq(S), NEW r \in Seq(S), NEW x \in S
    PROVE  s \o Append(r, x) = Append(s \o r, x)
<1>1. Append(r, x) = r \o <<x>> /\ s \o r \in Seq(S) /\ <<x>> \in Seq(S)
  BY AppendIsConcat, ConcatProperties
<1>2. Append(s \o r, x) = (s \o r) \o <<x>>
  BY <1>1, AppendIsConcat
<1> QED
  BY <1>1, <1>2, ConcatAssociative

\* A record may be added if, being guarded, it links to the tip.
LEMMA LinkedAppend ==
    ASSUME NEW s \in Seq(Records), NEW r \in Records, Linked(s),
           r.guarded => r.prev_hash = LatestHash(s)
    PROVE  Linked(Append(s, r))
<1> DEFINE a == Append(s, r)
<1>1. /\ Len(a) = Len(s) + 1 /\ Len(s) \in Nat
      /\ \A i \in 1 .. Len(s) : a[i] = s[i]
      /\ a[Len(s) + 1] = r
  BY AppendProperties
<1>2. SUFFICES ASSUME NEW i \in 1 .. Len(a), a[i].guarded
               PROVE  a[i].prev_hash = ExpectedPrev(a, i)
  BY DEF Linked
<1>3. CASE i <= Len(s)
  <2>1. a[i] = s[i] /\ (i # 1 => a[i - 1] = s[i - 1])
    BY <1>1, <1>3
  <2> QED
    BY <1>1, <1>2, <1>3, <2>1 DEF Linked, ExpectedPrev
<1>4. CASE i = Len(s) + 1
  <2>1. a[i] = r /\ r.prev_hash = LatestHash(s)
    BY <1>1, <1>2, <1>4
  <2>2. CASE s = << >>
    BY <1>1, <1>4, <2>1, <2>2 DEF LatestHash, ExpectedPrev
  <2>3. CASE s # << >>
    <3>1. i # 1 /\ a[i - 1] = s[Len(s)]
      BY <1>1, <1>4, <2>3
    <3> QED
      BY <2>1, <2>3, <3>1 DEF LatestHash, ExpectedPrev
  <2> QED
    BY <2>2, <2>3
<1> QED
  BY <1>1, <1>2, <1>3, <1>4

\* What is recorded in a longer sequence.
LEMMA WhatAppend ==
    ASSUME NEW s \in Seq(Records), NEW r \in Records
    PROVE  What(Append(s, r)) = What(s) \cup {r.what}
<1> DEFINE a == Append(s, r)
<1>1. /\ Len(a) = Len(s) + 1 /\ Len(s) \in Nat
      /\ \A i \in 1 .. Len(s) : a[i] = s[i]
      /\ a[Len(s) + 1] = r
  BY AppendProperties
<1>2. 1 .. Len(a) = (1 .. Len(s)) \cup {Len(s) + 1}
  BY <1>1
<1> HIDE DEF a
<1> QED
  BY <1>1, <1>2 DEF What, a

LEMMA WhatConcat ==
    ASSUME NEW s \in Seq(Records), NEW r \in Seq(Records)
    PROVE  What(s \o r) = What(s) \cup What(r)
<1> DEFINE a == s \o r
<1>1. /\ Len(a) = Len(s) + Len(r) /\ Len(s) \in Nat /\ Len(r) \in Nat
      /\ \A i \in 1 .. Len(s) + Len(r) :
            a[i] = IF i <= Len(s) THEN s[i] ELSE r[i - Len(s)]
  BY ConcatProperties
<1> HIDE DEF a
<1>2. ASSUME NEW i \in 1 .. Len(a)
      PROVE  a[i].what \in What(s) \cup What(r)
  <2>1. CASE i <= Len(s)
    BY <1>1, <2>1 DEF What
  <2>2. CASE i > Len(s)
    <3>1. i - Len(s) \in 1 .. Len(r) /\ a[i] = r[i - Len(s)]
      BY <1>1, <2>2
    <3> QED
      BY <3>1 DEF What
  <2> QED
    BY <1>1, <2>1, <2>2
<1>3. ASSUME NEW i \in 1 .. Len(s)
      PROVE  i \in 1 .. Len(a) /\ a[i] = s[i]
  BY <1>1
<1>4. ASSUME NEW i \in 1 .. Len(r)
      PROVE  Len(s) + i \in 1 .. Len(a) /\ a[Len(s) + i] = r[i]
  BY <1>1
<1>5. What(s) \subseteq What(a)
  BY <1>3 DEF What
<1>6. What(r) \subseteq What(a)
  BY <1>4 DEF What
<1>7. What(a) \subseteq What(s) \cup What(r)
  BY <1>2 DEF What
<1> QED
  BY <1>5, <1>6, <1>7 DEF a

(***************************************************************************)
(* Type correctness                                                        *)
(***************************************************************************)

\* The initial state is well typed.
LEMMA TypeInit == Init => TypeOK
<1> SUFFICES ASSUME Init PROVE TypeOK
  OBVIOUS
<1>1. GENESIS_HASH \in Hashes /\ << >> \in Seq(Records)
  BY DEF GENESIS_HASH, Hashes
<1> QED
  BY <1>1 DEF Init, TypeOK

\* The end of a transaction leaves well-typed locals.
LEMMA ReleasedType ==
    ASSUME TypeOK, NEW t \in Threads, Released(t),
           log' \in Seq(Records), book' \subseteq Changes
    PROVE  TypeOK'
<1>1. GENESIS_HASH \in Hashes /\ << >> \in Seq(Records)
  BY DEF GENESIS_HASH, Hashes
<1> QED
  BY <1>1 DEF Released, TypeOK

\* A step keeps the types; that a record has content takes DoingOK.
LEMMA TypeStep == TypeOK /\ DoingOK /\ [Next]_vars => TypeOK'
<1> SUFFICES ASSUME TypeOK, DoingOK, [Next]_vars PROVE TypeOK'
  OBVIOUS
<1> USE DEF TypeOK
<1>1. ASSUME NEW t \in Threads, Begin(t) PROVE TypeOK'
  BY <1>1 DEF Begin
<1>2. ASSUME NEW t \in Threads, ChangeRow(t) PROVE TypeOK'
  BY <1>2 DEF ChangeRow, Events
<1>3. ASSUME NEW t \in Threads, DescribeRequest(t) PROVE TypeOK'
  BY <1>3 DEF DescribeRequest, Events
<1>4. ASSUME NEW t \in Threads, ReadTip(t) PROVE TypeOK'
  <2>1. LatestHash(Seen(t)) \in Hashes
    BY TipType, ConcatProperties DEF Seen
  <2> QED
    BY <1>4, <2>1 DEF ReadTip
<1>5. ASSUME NEW t \in Threads, InsertRecord(t) PROVE TypeOK'
  <2>1. NextSeq(Seen(t)) \in Nat
    BY TipType, ConcatProperties DEF Seen
  <2>2. Record(doing[t], tip[t], NextSeq(Seen(t)), guarded[t]) \in Records
    BY <1>5, <2>1, RecordType DEF InsertRecord, DoingOK
  <2>3. Append(rows[t], Record(doing[t], tip[t], NextSeq(Seen(t)), guarded[t]))
           \in Seq(Records)
    BY <2>2, AppendProperties
  <2> QED
    BY <1>5, <2>3 DEF InsertRecord
<1>6. ASSUME NEW t \in Threads, Commit(t) PROVE TypeOK'
  <2>1. Seen(t) \in Seq(Records) /\ book \cup changes[t] \subseteq Changes
    BY ConcatProperties DEF Seen
  <2> QED
    BY <1>6, <2>1, ReleasedType DEF Commit
<1>7. ASSUME NEW t \in Threads, Rollback(t) PROVE TypeOK'
  BY <1>7, ReleasedType DEF Rollback
<1>8. ASSUME Crash PROVE TypeOK'
  <2>1. GENESIS_HASH \in Hashes /\ << >> \in Seq(Records)
    BY DEF GENESIS_HASH, Hashes
  <2> QED
    BY <1>8, <2>1 DEF Crash
<1>9. CASE UNCHANGED vars
  BY <1>9 DEF vars
<1> QED
  BY <1>1, <1>2, <1>3, <1>4, <1>5, <1>6, <1>7, <1>8, <1>9 DEF Next

(***************************************************************************)
(* The steps                                                               *)
(***************************************************************************)

\* What the thread sees is a table of records.
LEMMA SeenType ==
    ASSUME TypeOK, NEW t \in Threads
    PROVE  Seen(t) \in Seq(Records)
BY ConcatProperties DEF TypeOK, Seen

\* One that has written nothing sees the commits.
LEMMA SeenCommits ==
    ASSUME TypeOK, NEW t \in Threads, rows[t] = << >>
    PROVE  Seen(t) = log
BY ConcatEmptySeq DEF TypeOK, Seen

\* The record that InsertRecord adds.
NewRecord(t) == Record(doing[t], tip[t], NextSeq(Seen(t)), guarded[t])

\* An insertion makes what its thread sees one record longer.
LEMMA SeenAfterInsert ==
    ASSUME TypeOK, DoingOK, NEW t \in Threads, InsertRecord(t)
    PROVE  /\ NewRecord(t) \in Records
           /\ rows' = [rows EXCEPT ![t] = Append(rows[t], NewRecord(t))]
           /\ rows'[t] = Append(rows[t], NewRecord(t))
           /\ Seen(t)' = Append(Seen(t), NewRecord(t))
<1>1. NextSeq(Seen(t)) \in Nat
  BY SeenType, TipType
<1>2. NewRecord(t) \in Records
  BY <1>1, RecordType DEF InsertRecord, DoingOK, TypeOK, NewRecord
<1>3. /\ rows' = [rows EXCEPT ![t] = Append(rows[t], NewRecord(t))]
      /\ rows'[t] = Append(rows[t], NewRecord(t))
      /\ log' = log
  BY DEF InsertRecord, NewRecord, TypeOK
<1>4. log \o Append(rows[t], NewRecord(t)) = Append(log \o rows[t], NewRecord(t))
  BY <1>2, AppendAfterConcat DEF TypeOK
<1> QED
  BY <1>2, <1>3, <1>4 DEF Seen

\* A thread is in append() or it is not, after every step too.
LEMMA DoingStep == TypeOK /\ DoingOK /\ [Next]_vars => DoingOK'
<1> SUFFICES ASSUME TypeOK, DoingOK, [Next]_vars PROVE DoingOK'
  OBVIOUS
<1> USE DEF DoingOK, TypeOK
<1>1. ASSUME NEW t \in Threads, Begin(t) PROVE DoingOK'
  BY <1>1 DEF Begin
<1>2. ASSUME NEW t \in Threads, ChangeRow(t) PROVE DoingOK'
  BY <1>2, NobodyAssumption DEF ChangeRow
<1>3. ASSUME NEW t \in Threads, DescribeRequest(t) PROVE DoingOK'
  BY <1>3, NobodyAssumption DEF DescribeRequest
<1>4. ASSUME NEW t \in Threads, ReadTip(t) PROVE DoingOK'
  BY <1>4 DEF ReadTip
<1>5. ASSUME NEW t \in Threads, InsertRecord(t) PROVE DoingOK'
  BY <1>5 DEF InsertRecord
<1>6. ASSUME NEW t \in Threads, Commit(t) PROVE DoingOK'
  BY <1>6 DEF Commit, Released
<1>7. ASSUME NEW t \in Threads, Rollback(t) PROVE DoingOK'
  BY <1>7 DEF Rollback, Released
<1>8. ASSUME Crash PROVE DoingOK'
  BY <1>8 DEF Crash
<1>9. CASE UNCHANGED vars
  BY <1>9 DEF vars
<1> QED
  BY <1>1, <1>2, <1>3, <1>4, <1>5, <1>6, <1>7, <1>8, <1>9 DEF Next

\* The lock stays with whoever has written.
LEMMA LockStep == TypeOK /\ LockOK /\ [Next]_vars => LockOK'
<1> SUFFICES ASSUME TypeOK, LockOK, [Next]_vars PROVE LockOK'
  OBVIOUS
<1> USE NobodyAssumption DEF LockOK, TypeOK
<1>1. ASSUME NEW t \in Threads, Begin(t) PROVE LockOK'
  BY <1>1 DEF Begin
<1>2. ASSUME NEW t \in Threads, ChangeRow(t) PROVE LockOK'
  BY <1>2 DEF ChangeRow, CanWrite
<1>3. ASSUME NEW t \in Threads, DescribeRequest(t) PROVE LockOK'
  BY <1>3 DEF DescribeRequest
<1>4. ASSUME NEW t \in Threads, ReadTip(t) PROVE LockOK'
  BY <1>4 DEF ReadTip
<1>5. ASSUME NEW t \in Threads, InsertRecord(t) PROVE LockOK'
  BY <1>5 DEF InsertRecord, CanWrite
<1>6. ASSUME NEW t \in Threads, Commit(t) PROVE LockOK'
  BY <1>6 DEF Commit, Released
<1>7. ASSUME NEW t \in Threads, Rollback(t) PROVE LockOK'
  BY <1>7 DEF Rollback, Released
<1>8. ASSUME Crash PROVE LockOK'
  BY <1>8 DEF Crash
<1>9. CASE UNCHANGED vars
  BY <1>9 DEF vars
<1> QED
  BY <1>1, <1>2, <1>3, <1>4, <1>5, <1>6, <1>7, <1>8, <1>9 DEF Next

\* A commit of one thread leaves what a thread with the lock sees as it is.
LEMMA CommitOfOthers ==
    ASSUME TypeOK, LockOK, NEW t \in Threads, NEW u \in Threads,
           Commit(t), lock = u, u # t
    PROVE  log' = log /\ rows'[u] = rows[u] /\ lock' = lock
<1>1. rows[t] = << >>
  BY DEF LockOK
<1> QED
  BY <1>1, SeenCommits DEF Commit, Released, TypeOK

\* Nobody else gets in between the reading of a guarded tip and its use.
LEMMA TipStep == TypeOK /\ LockOK /\ TipOK /\ [Next]_vars => TipOK'
<1> SUFFICES ASSUME TypeOK, LockOK, TipOK, [Next]_vars,
                    NEW u \in Threads, (at[u] = "linking" /\ guarded[u])'
             PROVE  lock' = u /\ tip'[u] = LatestHash(Seen(u)')
  BY DEF TipOK
<1> DEFINE StillTip == lock' = u /\ tip'[u] = LatestHash(Seen(u)')
<1> USE NobodyAssumption DEF TypeOK
<1>1. ASSUME NEW t \in Threads, Begin(t) PROVE StillTip
  BY <1>1 DEF Begin, TipOK, Seen
<1>2. ASSUME NEW t \in Threads, ChangeRow(t) PROVE StillTip
  BY <1>2 DEF ChangeRow, CanWrite, TipOK, Seen
<1>3. ASSUME NEW t \in Threads, DescribeRequest(t) PROVE StillTip
  BY <1>3 DEF DescribeRequest, TipOK, Seen
<1>4. ASSUME NEW t \in Threads, ReadTip(t) PROVE StillTip
  BY <1>4 DEF ReadTip, TipOK, Seen
<1>5. ASSUME NEW t \in Threads, InsertRecord(t) PROVE StillTip
  BY <1>5 DEF InsertRecord, CanWrite, TipOK, Seen
<1>6. ASSUME NEW t \in Threads, Commit(t) PROVE StillTip
  <2>1. u # t /\ at[u] = "linking" /\ guarded[u] /\ tip'[u] = tip[u]
    BY <1>6 DEF Commit, Released
  <2>2. lock = u /\ tip[u] = LatestHash(Seen(u))
    BY <2>1 DEF TipOK
  <2> QED
    BY <1>6, <2>1, <2>2, CommitOfOthers DEF Seen
<1>7. ASSUME NEW t \in Threads, Rollback(t) PROVE StillTip
  BY <1>7 DEF Rollback, Released, TipOK, Seen
<1>8. ASSUME Crash PROVE StillTip
  BY <1>8 DEF Crash
<1>9. CASE UNCHANGED vars
  BY <1>9 DEF vars, TipOK, Seen
<1> QED
  BY <1>1, <1>2, <1>3, <1>4, <1>5, <1>6, <1>7, <1>8, <1>9 DEF Next

\* Guarded records go on linking to the one before them.
LEMMA LinksStep ==
    TypeOK /\ DoingOK /\ LockOK /\ TipOK /\ LinksOK /\ [Next]_vars => LinksOK'
<1> SUFFICES ASSUME TypeOK, DoingOK, LockOK, TipOK, LinksOK, [Next]_vars
             PROVE  LinksOK'
  OBVIOUS
\* Most steps add no record anywhere.
<1>0. ASSUME UNCHANGED <<log, rows>> PROVE LinksOK'
  BY <1>0 DEF LinksOK, Linked, Seen, ExpectedPrev, GENESIS_HASH
<1>1. ASSUME NEW t \in Threads, Begin(t) PROVE LinksOK'
  BY <1>0, <1>1 DEF Begin
<1>2. ASSUME NEW t \in Threads, ChangeRow(t) PROVE LinksOK'
  BY <1>0, <1>2 DEF ChangeRow
<1>3. ASSUME NEW t \in Threads, DescribeRequest(t) PROVE LinksOK'
  BY <1>0, <1>3 DEF DescribeRequest
<1>4. ASSUME NEW t \in Threads, ReadTip(t) PROVE LinksOK'
  BY <1>0, <1>4 DEF ReadTip
<1>5. ASSUME NEW t \in Threads, InsertRecord(t) PROVE LinksOK'
  <2>1. Linked(log)' /\ log' = log
    BY <1>5 DEF InsertRecord, LinksOK, Linked, ExpectedPrev, GENESIS_HASH
  <2>2. NewRecord(t).guarded => NewRecord(t).prev_hash = LatestHash(Seen(t))
    BY <1>5 DEF InsertRecord, TipOK, NewRecord, Record
  <2>3. Linked(Append(Seen(t), NewRecord(t)))
    BY <1>5, <2>2, SeenType, SeenAfterInsert, LinkedAppend DEF LinksOK
  <2>4. Linked(Seen(t)')
    BY <1>5, <2>3, SeenAfterInsert
  <2>5. ASSUME NEW u \in Threads, u # t PROVE Linked(Seen(u)')
    <3>1. Seen(u)' = Seen(u)
      BY <1>5, <2>1, <2>5 DEF InsertRecord, TypeOK, Seen
    <3> QED
      BY <3>1 DEF LinksOK
  <2>6. \A u \in Threads : Linked(Seen(u)')
    BY <2>4, <2>5
  <2> QED
    BY <2>1, <2>6 DEF LinksOK, Linked, Seen, ExpectedPrev, GENESIS_HASH
<1>6. ASSUME NEW t \in Threads, Commit(t) PROVE LinksOK'
  <2>1. log' = Seen(t) /\ Linked(log')
    BY <1>6 DEF Commit, LinksOK
  <2>2. ASSUME NEW u \in Threads PROVE Linked(Seen(u)')
    <3>1. rows'[t] = << >> /\ (u # t => rows'[u] = rows[u])
      BY <1>6 DEF Commit, Released, TypeOK
    <3>2. CASE rows'[u] = << >>
      <4>1. Seen(u)' = log'
        BY <2>1, <3>2, SeenType, ConcatEmptySeq DEF Seen
      <4> QED
        BY <2>1, <4>1
    <3>3. CASE rows'[u] # << >>
      <4>1. u # t /\ lock = u
        BY <3>1, <3>3 DEF LockOK
      <4>2. Seen(u)' = Seen(u)
        BY <1>6, <4>1, CommitOfOthers DEF Seen
      <4> QED
        BY <4>2 DEF LinksOK
    <3> QED
      BY <3>2, <3>3
  <2> QED
    BY <2>1, <2>2 DEF LinksOK, Linked, Seen, ExpectedPrev, GENESIS_HASH
<1>7. ASSUME log' = log, \A u \in Threads : rows'[u] \in {rows[u], << >>}
      PROVE  LinksOK'
  <2>1. ASSUME NEW u \in Threads PROVE Linked(Seen(u)')
    <3>1. CASE rows'[u] = rows[u]
      BY <1>7, <3>1 DEF LinksOK, Seen
    <3>2. CASE rows'[u] = << >>
      <4>1. Seen(u)' = log
        BY <1>7, <3>2, ConcatEmptySeq DEF Seen, TypeOK
      <4> QED
        BY <4>1 DEF LinksOK
    <3> QED
      BY <1>7, <3>1, <3>2
  <2> QED
    BY <1>7, <2>1 DEF LinksOK, Linked, Seen, ExpectedPrev, GENESIS_HASH
<1>8. ASSUME NEW t \in Threads, Rollback(t) PROVE LinksOK'
  BY <1>7, <1>8 DEF Rollback, Released, TypeOK
<1>9. ASSUME Crash PROVE LinksOK'
  BY <1>7, <1>9 DEF Crash
<1>10. CASE UNCHANGED vars
  BY <1>0, <1>10 DEF vars
<1> QED
  BY <1>1, <1>2, <1>3, <1>4, <1>5, <1>6, <1>8, <1>9, <1>10 DEF Next

\* Changes and their records stay together.
LEMMA TogetherStep ==
    TypeOK /\ DoingOK /\ TogetherOK /\ [Next]_vars => TogetherOK'
<1> SUFFICES ASSUME TypeOK, DoingOK, TogetherOK, [Next]_vars
             PROVE  TogetherOK'
  OBVIOUS
<1>0. What(<< >>) = {}
  BY DEF What
<1> USE NobodyAssumption, EventsAssumption DEF TypeOK, TogetherOK
<1>1. ASSUME NEW t \in Threads, Begin(t) PROVE TogetherOK'
  BY <1>1 DEF Begin, What
<1>2. ASSUME NEW t \in Threads, ChangeRow(t) PROVE TogetherOK'
  <2>1. doing[t] = Nobody
    BY <1>2 DEF ChangeRow, DoingOK
  <2> QED
    BY <1>2, <2>1 DEF ChangeRow, What
<1>3. ASSUME NEW t \in Threads, DescribeRequest(t) PROVE TogetherOK'
  <2>1. doing[t] = Nobody
    BY <1>3 DEF DescribeRequest, DoingOK
  <2> QED
    BY <1>3, <2>1 DEF DescribeRequest, What
<1>4. ASSUME NEW t \in Threads, ReadTip(t) PROVE TogetherOK'
  BY <1>4 DEF ReadTip, What
<1>5. ASSUME NEW t \in Threads, InsertRecord(t) PROVE TogetherOK'
  <2>1. NewRecord(t).what = doing[t]
    BY DEF NewRecord, Record
  <2>2. What(rows'[t]) = What(rows[t]) \cup {doing[t]}
    <3>1. rows[t] \in Seq(Records) /\ NewRecord(t) \in Records
      BY <1>5, SeenAfterInsert
    <3>2. rows'[t] = Append(rows[t], NewRecord(t))
      BY <1>5, SeenAfterInsert
    <3>3. What(Append(rows[t], NewRecord(t))) = What(rows[t]) \cup {NewRecord(t).what}
      BY <3>1, WhatAppend
    <3> QED
      BY <2>1, <3>2, <3>3
  <2>3. /\ changes' = changes /\ log' = log /\ book' = book
        /\ doing'[t] = Nobody
        /\ \A u \in Threads \ {t} : rows'[u] = rows[u] /\ doing'[u] = doing[u]
    BY <1>5 DEF InsertRecord
  <2>4. changes'[t] = (What(rows'[t]) \cup {doing'[t]}) \cap Changes
    BY <2>2, <2>3
  <2>5. ASSUME NEW u \in Threads \ {t}
        PROVE  changes'[u] = (What(rows'[u]) \cup {doing'[u]}) \cap Changes
    BY <2>3
  <2>6. book' = What(log') \cap Changes
    BY <2>3
  <2>7. \A u \in Threads :
           changes'[u] = (What(rows'[u]) \cup {doing'[u]}) \cap Changes
    BY <2>4, <2>5
  <2> QED
    BY <2>6, <2>7 DEF What
<1>6. ASSUME NEW t \in Threads, Commit(t) PROVE TogetherOK'
  <2>1. doing[t] = Nobody
    BY <1>6 DEF Commit, DoingOK
  <2>2. log' = Seen(t) /\ What(Seen(t)) = What(log) \cup What(rows[t])
    BY <1>6, WhatConcat DEF Commit, Seen
  <2>3. book' = What(log') \cap Changes
    BY <1>6, <2>1, <2>2 DEF Commit
  <2>4. ASSUME NEW u \in Threads
        PROVE  changes'[u] = (What(rows'[u]) \cup {doing'[u]}) \cap Changes
    BY <1>0, <1>6 DEF Commit, Released
  <2> QED
    BY <2>3, <2>4 DEF What
<1>7. ASSUME NEW t \in Threads, Rollback(t) PROVE TogetherOK'
  <2>1. ASSUME NEW u \in Threads
        PROVE  changes'[u] = (What(rows'[u]) \cup {doing'[u]}) \cap Changes
    BY <1>0, <1>7 DEF Rollback, Released
  <2> QED
    BY <1>7, <2>1 DEF Rollback, What
<1>8. ASSUME Crash PROVE TogetherOK'
  <2>1. ASSUME NEW u \in Threads
        PROVE  changes'[u] = (What(rows'[u]) \cup {doing'[u]}) \cap Changes
    BY <1>0, <1>8 DEF Crash
  <2> QED
    BY <1>8, <2>1 DEF Crash, What
<1>9. CASE UNCHANGED vars
  BY <1>9 DEF vars, What
<1> QED
  BY <1>1, <1>2, <1>3, <1>4, <1>5, <1>6, <1>7, <1>8, <1>9 DEF Next

\* Rows are inserted with their hash and never changed.
LEMMA SealedStep == TypeOK /\ DoingOK /\ SealedOK /\ [Next]_vars => SealedOK'
<1> SUFFICES ASSUME TypeOK, DoingOK, SealedOK, [Next]_vars
             PROVE  SealedOK'
  OBVIOUS
<1>0. Sealed(<< >>)
  BY DEF Sealed
<1>1. ASSUME log' = log, \A u \in Threads : rows'[u] \in {rows[u], << >>}
      PROVE  SealedOK'
  <2>1. Sealed(log') /\ \A u \in Threads : Sealed(rows'[u])
    BY <1>0, <1>1 DEF SealedOK
  <2> QED
    BY <2>1 DEF SealedOK, Sealed, Hash
<1>2. ASSUME NEW t \in Threads, InsertRecord(t) PROVE SealedOK'
  <2> DEFINE r == NewRecord(t)
  <2>1. r \in Records /\ rows'[t] = Append(rows[t], r) /\ rows[t] \in Seq(Records)
    BY <1>2, SeenAfterInsert DEF TypeOK
  <2>2. r.record_hash = Hash(r.what, r.prev_hash)
    BY DEF NewRecord, Record
  <2>3. /\ log' = log
        /\ \A u \in Threads \ {t} : rows'[u] = rows[u]
    BY <1>2 DEF InsertRecord, TypeOK
  <2> HIDE DEF r
  <2>4. Sealed(Append(rows[t], r))
    <3>1. /\ Len(Append(rows[t], r)) = Len(rows[t]) + 1 /\ Len(rows[t]) \in Nat
          /\ \A i \in 1 .. Len(rows[t]) : Append(rows[t], r)[i] = rows[t][i]
          /\ Append(rows[t], r)[Len(rows[t]) + 1] = r
      BY <2>1, AppendProperties
    <3>2. ASSUME NEW i \in 1 .. Len(rows[t]) + 1
          PROVE  Append(rows[t], r)[i].record_hash
                    = Hash(Append(rows[t], r)[i].what, Append(rows[t], r)[i].prev_hash)
      <4>1. CASE i = Len(rows[t]) + 1
        BY <2>2, <3>1, <4>1
      <4>2. CASE i # Len(rows[t]) + 1
        <5>1. i \in 1 .. Len(rows[t])
          BY <3>1, <4>2
        <5> QED
          BY <3>1, <5>1 DEF SealedOK, Sealed
      <4> QED
        BY <4>1, <4>2
    <3> QED
      BY <3>1, <3>2 DEF Sealed
  <2>5. Sealed(log') /\ \A u \in Threads : Sealed(rows'[u])
    BY <2>1, <2>3, <2>4 DEF SealedOK
  <2> QED
    BY <2>5 DEF SealedOK, Sealed, Hash
<1>3. ASSUME NEW t \in Threads, Commit(t) PROVE SealedOK'
  <2>1. /\ log' = log \o rows[t]
        /\ \A u \in Threads : rows'[u] \in {rows[u], << >>}
    BY <1>3 DEF Commit, Released, Seen, TypeOK
  <2>2. Sealed(log \o rows[t])
    <3> DEFINE a == log \o rows[t]
    <3>1. /\ Len(a) = Len(log) + Len(rows[t])
          /\ Len(log) \in Nat /\ Len(rows[t]) \in Nat
          /\ \A i \in 1 .. Len(log) + Len(rows[t]) :
                a[i] = IF i <= Len(log) THEN log[i] ELSE rows[t][i - Len(log)]
      BY ConcatProperties DEF TypeOK
    <3> HIDE DEF a
    <3>2. ASSUME NEW i \in 1 .. Len(a)
          PROVE  a[i].record_hash = Hash(a[i].what, a[i].prev_hash)
      <4>1. CASE i <= Len(log)
        BY <3>1, <4>1 DEF SealedOK, Sealed
      <4>2. CASE i > Len(log)
        <5>1. i - Len(log) \in 1 .. Len(rows[t]) /\ a[i] = rows[t][i - Len(log)]
          BY <3>1, <4>2
        <5> QED
          BY <5>1 DEF SealedOK, Sealed
      <4> QED
        BY <3>1, <4>1, <4>2
    <3> QED
      BY <3>2 DEF Sealed, a
  <2>3. Sealed(log') /\ \A u \in Threads : Sealed(rows'[u])
    BY <1>0, <2>1, <2>2 DEF SealedOK
  <2> QED
    BY <2>3 DEF SealedOK, Sealed, Hash
<1>4. CASE UNCHANGED vars
  BY <1>1, <1>4 DEF vars
<1>5. ASSUME NEW t \in Threads,
             Begin(t) \/ ChangeRow(t) \/ DescribeRequest(t) \/ ReadTip(t)
      PROVE  SealedOK'
  BY <1>1, <1>5 DEF Begin, ChangeRow, DescribeRequest, ReadTip
<1>6. ASSUME NEW t \in Threads, Rollback(t) PROVE SealedOK'
  BY <1>1, <1>6 DEF Rollback, Released, TypeOK
<1>7. ASSUME Crash PROVE SealedOK'
  BY <1>1, <1>7 DEF Crash
<1> QED
  BY <1>2, <1>3, <1>4, <1>5, <1>6, <1>7 DEF Next

\* The invariant holds at first.
LEMMA InvInit == Init => IInv
<1> SUFFICES ASSUME Init PROVE IInv
  OBVIOUS
<1>1. \A t \in Threads : Seen(t) = << >>
  BY DEF Init, Seen
<1>2. Linked(<< >>) /\ What(<< >>) = {}
  BY DEF Linked, What
<1>3. TypeOK /\ DoingOK /\ LockOK /\ TipOK
  BY TypeInit DEF Init, DoingOK, LockOK, TipOK
<1>4. LinksOK
  BY <1>1, <1>2 DEF Init, LinksOK
<1>5. TogetherOK
  BY <1>2, NobodyAssumption DEF Init, TogetherOK
<1>6. SealedOK
  BY DEF Init, SealedOK, Sealed
<1> QED
  BY <1>3, <1>4, <1>5, <1>6 DEF IInv

\* And after every step.
LEMMA InvStep == IInv /\ [Next]_vars => IInv'
BY TypeStep, DoingStep, LockStep, TipStep, LinksStep, TogetherStep, SealedStep DEF IInv

LEMMA InvHolds == Spec => []IInv
BY InvInit, InvStep, PTL DEF Spec

(***************************************************************************)
(* The theorems                                                            *)
(***************************************************************************)

\* Every variable has its type, for any threads and events.
THEOREM TypeCorrect == Spec => []TypeOK
<1>1. IInv => TypeOK
  BY DEF IInv
<1> QED
  BY <1>1, InvHolds, PTL

\* However many threads write, append() links a record to the one before it
\* whenever the writer had changed a row first.
THEOREM GuardedAppendsLink == Spec => []GuardedRecordsLink
<1>1. IInv => GuardedRecordsLink
  BY DEF IInv, LinksOK, Linked, GuardedRecordsLink, TypeOK
<1> QED
  BY <1>1, InvHolds, PTL

\* A change is in the book exactly when its audit record is in the ledger.
THEOREM CommittedTogether == Spec => []RecordsCommitWithChanges
<1>1. IInv => RecordsCommitWithChanges
  BY DEF IInv, TogetherOK, What, RecordsCommitWithChanges, TypeOK
<1> QED
  BY <1>1, InvHolds, PTL

\* If nothing was ever appended on an unguarded tip, verify_chain finds the
\* ledger valid: only callers that append before they write can fork it.
THEOREM GuardedLedgersVerify ==
    Spec => [](  (\A i \in DOMAIN log : log[i].guarded)
               => VerifyChain(log).valid)
<1>1. IInv =>
         ((\A i \in DOMAIN log : log[i].guarded) => VerifyChain(log).valid)
  <2> SUFFICES ASSUME IInv, \A i \in DOMAIN log : log[i].guarded
               PROVE  VerifyChain(log).valid
    OBVIOUS
  <2>1. DOMAIN log = 1 .. Len(log)
    BY DEF IInv, TypeOK
  <2>2. \A i \in DOMAIN log :
           /\ log[i].prev_hash = ExpectedPrev(log, i)
           /\ log[i].record_hash = Hash(log[i].what, log[i].prev_hash)
    BY <2>1 DEF IInv, LinksOK, Linked, SealedOK, Sealed
  <2>3. Breaks(log) = {}
    BY <2>2 DEF Breaks
  <2> QED
    BY <2>3 DEF VerifyChain
<1> QED
  BY <1>1, InvHolds, PTL

\* Whatever no element of a set of numbers is below is its minimum.
LEMMA MinIs ==
    ASSUME NEW S, NEW n \in S, n \in Nat, \A m \in S : m \in Nat /\ n <= m
    PROVE  Min(S) = n
<1>1. /\ Min(S) \in S
      /\ \A m \in S : Min(S) <= m
  BY DEF Min
<1>2. Min(S) \in Nat /\ n \in Nat /\ n <= Min(S)
  BY <1>1
<1>3. Min(S) <= n
  BY <1>1
<1> QED
  BY <1>2, <1>3

\* verify_chain names an edited row, and the row after a removed one.
THEOREM AlterationsAreFound == Spec => []AlterationsAreNamed
<1>1. ASSUME TypeOK, VerifyChain(log).valid
      PROVE  Breaks(log) = {}
  BY <1>1 DEF VerifyChain
<1>2. ASSUME TypeOK, Breaks(log) = {}, NEW i \in DOMAIN log,
             NEW e \in Events \ {log[i].what}
      PROVE  VerifyChain([log EXCEPT ![i].what = e]).first_break_seq = log[i].seq
  <2> DEFINE a == [log EXCEPT ![i].what = e]
  <2>1. /\ DOMAIN a = DOMAIN log
        /\ \A j \in DOMAIN log : /\ a[j].prev_hash = log[j].prev_hash
                                /\ a[j].record_hash = log[j].record_hash
                                /\ a[j].seq = log[j].seq
                                /\ a[j].what = IF j = i THEN e ELSE log[j].what
        /\ DOMAIN log = 1 .. Len(log) /\ Len(log) \in Nat
    BY <1>2 DEF TypeOK, Records
  <2> HIDE DEF a
  <2>2. \A j \in DOMAIN log : ExpectedPrev(a, j) = ExpectedPrev(log, j)
    BY <2>1 DEF ExpectedPrev
  <2>3. \A j \in DOMAIN log : /\ log[j].prev_hash = ExpectedPrev(log, j)
                             /\ log[j].record_hash = Hash(log[j].what, log[j].prev_hash)
    BY <1>2 DEF Breaks
  <2>4. Hash(e, log[i].prev_hash) # Hash(log[i].what, log[i].prev_hash)
    <3>1. log[i] \in Records /\ e \in Events
      BY <1>2 DEF TypeOK
    <3>2. log[i].what \in Events /\ log[i].prev_hash \in Seq(Events)
      BY <3>1 DEF Records, Hashes
    <3>3. e # log[i].what
      BY <1>2
    <3> QED
      BY <3>1, <3>2, <3>3, AppendInjective DEF Hash
  <2>5. Breaks(a) = {i}
    BY <1>2, <2>1, <2>2, <2>3, <2>4 DEF Breaks
  <2>6. Min(Breaks(a)) = i
    BY <1>2, <2>1, <2>5, MinIs
  <2>7. VerifyChain(a).first_break_seq = a[i].seq
    BY <2>5, <2>6 DEF VerifyChain
  <2> QED
    BY <1>2, <2>1, <2>7 DEF a
<1>3. ASSUME TypeOK, Breaks(log) = {}, NEW i \in 1 .. Len(log) - 1
      PROVE  VerifyChain(RemoveAt(log, i)).first_break_seq = log[i + 1].seq
  <2> DEFINE a == RemoveAt(log, i)
  <2>1. /\ DOMAIN log = 1 .. Len(log) /\ Len(log) \in Nat /\ i \in 1 .. Len(log)
        /\ \A j \in 1 .. Len(log) : log[j] \in Records
    BY <1>3 DEF TypeOK
  <2>2. /\ SubSeq(log, 1, i - 1) \in Seq(Records)
        /\ Len(SubSeq(log, 1, i - 1)) = i - 1
        /\ \A j \in 1 .. i - 1 : SubSeq(log, 1, i - 1)[j] = log[j]
    BY <2>1, SubSeqProperties
  <2>3. /\ SubSeq(log, i + 1, Len(log)) \in Seq(Records)
        /\ Len(SubSeq(log, i + 1, Len(log))) = Len(log) - i
        /\ \A j \in 1 .. Len(log) - i : SubSeq(log, i + 1, Len(log))[j] = log[i + j]
    BY <1>3, <2>1, SubSeqProperties
  <2>4. /\ a \in Seq(Records) /\ Len(a) = Len(log) - 1
        /\ \A j \in 1 .. Len(log) - 1 : a[j] = IF j < i THEN log[j] ELSE log[j + 1]
    BY <1>3, <2>1, <2>2, <2>3, ConcatProperties DEF RemoveAt
  <2> HIDE DEF a
  <2>5. DOMAIN a = 1 .. Len(log) - 1
    BY <2>4
  <2>6. \A j \in 1 .. Len(log) :
           /\ log[j].prev_hash = ExpectedPrev(log, j)
           /\ log[j].record_hash = Hash(log[j].what, log[j].prev_hash)
    BY <1>3, <2>1 DEF Breaks
  <2>7. i \in Breaks(a)
    <3>1. log[i].what \in Events /\ log[i].prev_hash \in Seq(Events)
      BY <2>1 DEF Records, Hashes
    <3>2. Hash(log[i].what, log[i].prev_hash) # log[i].prev_hash
      <4>1. Len(Hash(log[i].what, log[i].prev_hash)) = Len(log[i].prev_hash) + 1
        BY <3>1, AppendProperties DEF Hash
      <4>2. Len(log[i].prev_hash) \in Nat
        BY <3>1
      <4> QED
        BY <4>1, <4>2
    <3>3. a[i].prev_hash = log[i].record_hash
      BY <1>3, <2>1, <2>4, <2>6 DEF ExpectedPrev
    <3>4. ExpectedPrev(a, i) = log[i].prev_hash
      BY <1>3, <2>1, <2>4, <2>6 DEF ExpectedPrev
    <3> QED
      BY <1>3, <2>1, <2>5, <2>6, <3>2, <3>3, <3>4 DEF Breaks
  <2>8. \A j \in Breaks(a) : j >= i /\ j \in Nat
    <3>1. SUFFICES ASSUME NEW j \in 1 .. Len(log) - 1, j < i
                   PROVE  j \notin Breaks(a)
      BY <1>3, <2>1, <2>5 DEF Breaks
    <3>2. j \in 1 .. Len(log) /\ a[j] = log[j]
      BY <1>3, <2>1, <2>4, <3>1
    <3>3. ExpectedPrev(a, j) = ExpectedPrev(log, j)
      <4>1. CASE j = 1
        BY <4>1 DEF ExpectedPrev
      <4>2. CASE j # 1
        <5>1. j - 1 \in 1 .. Len(log) - 1 /\ j - 1 < i
          BY <1>3, <2>1, <3>1, <4>2
        <5>2. a[j - 1] = log[j - 1]
          BY <2>4, <5>1
        <5> QED
          BY <4>2, <5>2 DEF ExpectedPrev
      <4> QED
        BY <4>1, <4>2
    <3> QED
      BY <2>6, <3>2, <3>3 DEF Breaks
  <2>9. Min(Breaks(a)) = i
    BY <2>1, <2>7, <2>8, MinIs
  <2>10. VerifyChain(a).first_break_seq = a[i].seq
    BY <2>7, <2>9 DEF VerifyChain
  <2> QED
    BY <1>3, <2>1, <2>4, <2>10 DEF a
<1>4. TypeOK => AlterationsAreNamed
  BY <1>1, <1>2, <1>3 DEF AlterationsAreNamed
<1> QED
  BY <1>4, TypeCorrect, PTL
=============================================================================
