------------------------------- MODULE Ledger -------------------------------
(***************************************************************************)
(* The hash-chained audit ledger, written by several threads, each in      *)
(* transactions of its own.                                                *)
(*                                                                         *)
(* What isolation the threads have is SQLite's, as the driver uses it: a   *)
(* transaction begins, and the one write lock is taken, at its first       *)
(* INSERT or UPDATE.  A SELECT before that runs on its own and sees the    *)
(* latest commit, and nothing then keeps another thread from committing.   *)
(* A thread that finds the lock taken waits up to busy_timeout and then    *)
(* raises, which is Rollback here.                                         *)
(*                                                                         *)
(* A hash is the list of everything that went into it: SHA-256 is taken    *)
(* at its word, two hashes are equal only when their inputs are.           *)
(***************************************************************************)
EXTENDS Integers, Sequences, FiniteSets, SequencesExt

CONSTANTS
    Threads,    \* jobs and request handlers
    Nobody,     \* the lock is free
    Changes,    \* rows that are written, each with its audit record
    Requests    \* audit records of a request, which changes no row

ASSUME NobodyAssumption == Nobody \notin Threads \cup Changes \cup Requests
ASSUME EventsAssumption == Changes \cap Requests = {}

VARIABLES
    log,        \* the committed audit_log, by seq
    book,       \* the committed changes
    lock,       \* the thread that holds SQLite's write lock
    at,         \* at[t]: where t is in its transaction and in append()
    doing,      \* doing[t]: what append() is called for
    tip,        \* tip[t]: what latest_hash() returned
    guarded,    \* guarded[t]: t held the lock when it read the tip
    rows,       \* rows[t]: records t has inserted and not committed
    changes     \* changes[t]: changes t has made and not committed

vars == <<log, book, lock, at, doing, tip, guarded, rows, changes>>

Events == Changes \cup Requests
Hashes == Seq(Events)

(***************************************************************************)
(* The chain                                                               *)
(***************************************************************************)
GENESIS_HASH == << >>
Hash(what, prev) == Append(prev, what)

\* The table's columns, and `guarded`, which only the model keeps.
Record(what, prev, seq, g) ==
    [what |-> what, prev_hash |-> prev, record_hash |-> Hash(what, prev),
     seq |-> seq, guarded |-> g]

\* latest_hash on a table with these rows.
LatestHash(s) == IF s = << >> THEN GENESIS_HASH ELSE s[Len(s)].record_hash

NextSeq(s) == IF s = << >> THEN 1 ELSE s[Len(s)].seq + 1

\* What row i has to link to.
ExpectedPrev(s, i) == IF i = 1 THEN GENESIS_HASH ELSE s[i - 1].record_hash

\* Mutant: only the links are compared, never a row with its own hash.
BreaksOfLinks(s) == {i \in DOMAIN s : s[i].prev_hash # ExpectedPrev(s, i)}

\* Where verify_chain would stop: a link to something else than the row before,
\* or a row that does not hash to its stored value.
Breaks(s) ==
    {i \in DOMAIN s : \/ s[i].prev_hash # ExpectedPrev(s, i)
                      \/ s[i].record_hash # Hash(s[i].what, s[i].prev_hash)}

\* verify_chain: it stops at the first break.
VerifyChain(s) ==
    IF Breaks(s) = {}
    THEN [valid |-> TRUE, records_checked |-> Len(s), first_break_seq |-> 0]
    ELSE LET first == Min(Breaks(s)) IN
         [valid |-> FALSE, records_checked |-> first,
          first_break_seq |-> s[first].seq]

(***************************************************************************)
(* Transactions                                                            *)
(***************************************************************************)
Init ==
    /\ log = << >>
    /\ book = {}
    /\ lock = Nobody
    /\ at = [t \in Threads |-> "idle"]
    /\ doing = [t \in Threads |-> Nobody]
    /\ tip = [t \in Threads |-> GENESIS_HASH]
    /\ guarded = [t \in Threads |-> FALSE]
    /\ rows = [t \in Threads |-> << >>]
    /\ changes = [t \in Threads |-> {}]

\* What the thread sees when it reads: the commits, and its own writes.
Seen(t) == log \o rows[t]

\* Rows have fresh ids, so nothing is written or asked for twice.
Fresh(e) ==
    /\ \A i \in DOMAIN log : log[i].what # e
    /\ \A t \in Threads : doing[t] # e /\ \A i \in DOMAIN rows[t] : rows[t][i].what # e

CanWrite(t) == lock \in {Nobody, t}

\* session_scope() is entered.
Begin(t) ==
    /\ at[t] = "idle"
    /\ at' = [at EXCEPT ![t] = "open"]
    /\ UNCHANGED <<log, book, lock, doing, tip, guarded, rows, changes>>

\* Mutant: the change is a transaction of its own.
ChangeRowAtOnce(t) ==
    \E e \in Changes :
        /\ at[t] = "open"
        /\ Fresh(e)
        /\ CanWrite(t)
        /\ lock' = t
        /\ doing' = [doing EXCEPT ![t] = e]
        /\ book' = book \cup {e}
        /\ at' = [at EXCEPT ![t] = "describing"]
        /\ UNCHANGED <<log, tip, guarded, rows, changes>>

\* The change, flushed before append() is called or by the query in it.
ChangeRow(t) ==
    \E e \in Changes :
        /\ at[t] = "open"
        /\ Fresh(e)
        /\ CanWrite(t)
        /\ lock' = t
        /\ doing' = [doing EXCEPT ![t] = e]
        /\ changes' = [changes EXCEPT ![t] = @ \cup {e}]
        /\ at' = [at EXCEPT ![t] = "describing"]
        /\ UNCHANGED <<log, book, tip, guarded, rows>>

\* append() for something that changes no row: a request, or a priced set whose
\* candidates are all on record already.
DescribeRequest(t) ==
    \E e \in Requests :
        /\ at[t] = "open"
        /\ Fresh(e)
        /\ doing' = [doing EXCEPT ![t] = e]
        /\ at' = [at EXCEPT ![t] = "describing"]
        /\ UNCHANGED <<log, book, lock, tip, guarded, rows, changes>>

\* Mutant: the query does not see what this transaction has inserted.
ReadTipOfCommits(t) ==
    /\ at[t] = "describing"
    /\ tip' = [tip EXCEPT ![t] = LatestHash(log)]
    /\ guarded' = [guarded EXCEPT ![t] = (lock = t)]
    /\ at' = [at EXCEPT ![t] = "linking"]
    /\ UNCHANGED <<log, book, lock, doing, rows, changes>>

\* The first half of append().
ReadTip(t) ==
    /\ at[t] = "describing"
    /\ tip' = [tip EXCEPT ![t] = LatestHash(Seen(t))]
    /\ guarded' = [guarded EXCEPT ![t] = (lock = t)]
    /\ at' = [at EXCEPT ![t] = "linking"]
    /\ UNCHANGED <<log, book, lock, doing, rows, changes>>

\* The second half: the record is inserted, linked to the tip that was read.
InsertRecord(t) ==
    /\ at[t] = "linking"
    /\ CanWrite(t)
    /\ lock' = t
    /\ rows' = [rows EXCEPT ![t] =
                   Append(@, Record(doing[t], tip[t], NextSeq(Seen(t)), guarded[t]))]
    /\ doing' = [doing EXCEPT ![t] = Nobody]
    /\ at' = [at EXCEPT ![t] = "open"]
    /\ UNCHANGED <<log, book, tip, guarded, changes>>

\* What the end of a transaction leaves of it.
Released(t) ==
    /\ lock' = IF lock = t THEN Nobody ELSE lock
    /\ at' = [at EXCEPT ![t] = "idle"]
    /\ doing' = [doing EXCEPT ![t] = Nobody]
    /\ tip' = [tip EXCEPT ![t] = GENESIS_HASH]
    /\ guarded' = [guarded EXCEPT ![t] = FALSE]
    /\ rows' = [rows EXCEPT ![t] = << >>]
    /\ changes' = [changes EXCEPT ![t] = {}]

\* The end of session_scope() without an exception.
Commit(t) ==
    /\ at[t] = "open"
    /\ log' = Seen(t)
    /\ book' = book \cup changes[t]
    /\ Released(t)

\* The end of session_scope() with one: a busy database, a constraint, a bug in
\* the code under it.
Rollback(t) ==
    /\ at[t] # "idle"
    /\ Released(t)
    /\ UNCHANGED <<log, book>>

\* The process dies; SQLite drops what was not committed.
Crash ==
    /\ \E t \in Threads : at[t] # "idle"
    /\ lock' = Nobody
    /\ at' = [t \in Threads |-> "idle"]
    /\ doing' = [t \in Threads |-> Nobody]
    /\ tip' = [t \in Threads |-> GENESIS_HASH]
    /\ guarded' = [t \in Threads |-> FALSE]
    /\ rows' = [t \in Threads |-> << >>]
    /\ changes' = [t \in Threads |-> {}]
    /\ UNCHANGED <<log, book>>

Next ==
    \/ \E t \in Threads :
          \/ Begin(t) \/ ChangeRow(t) \/ DescribeRequest(t)
          \/ ReadTip(t) \/ InsertRecord(t) \/ Commit(t) \/ Rollback(t)
    \/ Crash

Spec == Init /\ [][Next]_vars

(***************************************************************************)
(* Properties                                                              *)
(***************************************************************************)
Records ==
    [what : Events, prev_hash : Hashes, record_hash : Hashes, seq : Nat,
     guarded : BOOLEAN]

\* Every variable has its type.
TypeOK ==
    /\ log \in Seq(Records)
    /\ book \subseteq Changes
    /\ lock \in Threads \cup {Nobody}
    /\ at \in [Threads -> {"idle", "open", "describing", "linking"}]
    /\ doing \in [Threads -> Events \cup {Nobody}]
    /\ tip \in [Threads -> Hashes]
    /\ guarded \in [Threads -> BOOLEAN]
    /\ rows \in [Threads -> Seq(Records)]
    /\ changes \in [Threads -> SUBSET Changes]

\* A record whose writer had changed a row first, and so held the lock when it
\* read the tip, links to the row before it, whatever the other threads did in
\* between: append() forks the chain only when it comes first in its
\* transaction.
GuardedRecordsLink ==
    \A i \in DOMAIN log :
        log[i].guarded => log[i].prev_hash = ExpectedPrev(log, i)

\* "An audit record and the change it describes must commit together or not at
\* all": the records of changes in the ledger are exactly the changes in the
\* book, after any sequence of commits, rollbacks and crashes.
RecordsCommitWithChanges ==
    book = {log[i].what : i \in DOMAIN log} \cap Changes

\* verify_chain names the first bad row of an intact ledger that was changed
\* afterwards: the row itself when its content was edited, the one after it when
\* it was removed.  (Removing the last row leaves an intact, shorter ledger.)
AlterationsAreNamed ==
    VerifyChain(log).valid =>
        /\ \A i \in DOMAIN log : \A e \in Events \ {log[i].what} :
              VerifyChain([log EXCEPT ![i].what = e]).first_break_seq = log[i].seq
        /\ \A i \in 1 .. Len(log) - 1 :
              VerifyChain(RemoveAt(log, i)).first_break_seq = log[i + 1].seq
=============================================================================
