--------------------------- MODULE OperatorLedger ---------------------------
(***************************************************************************)
(* The operator action ledger of src/lib/operator-ledger.js: the entries   *)
(* each backend instance keeps in memory, table operator_ledger_entries    *)
(* they share, appendEntry(), which writes in the background, and          *)
(* appendEntryLinearized(), which writes under the advisory lock of        *)
(* withAdvisoryLock() in src/lib/governance-db.js.                         *)
(*                                                                         *)
(* Abstracted: an entry is its action id, its hash and the hash it follows *)
(* (sha256 and the timestamp make every hash new); action types and their  *)
(* validation, which throws before anything changes, are left out.         *)
(* One linearized append of an instance is under way at a time.            *)
(***************************************************************************)
EXTENDS Integers, Sequences, FiniteSets

CONSTANTS Instances,            \* backend instances that share the database
          NoInstance,           \* not an instance
          MAX_LEDGER_ENTRIES,   \* entries kept in memory
          MaxAppends,           \* bound: appends begin while fewer entries were made
          MaxFaults             \* bound: failed transactions, crashes and failed starts

ASSUME LedgerAssumption == /\ NoInstance \notin Instances
                           /\ MAX_LEDGER_ENTRIES \in Nat \ {0}
                           /\ MaxAppends \in Nat
                           /\ MaxFaults \in Nat

VARIABLES rows,      \* committed rows of operator_ledger_entries
          nextSeq,   \* next value of their BIGSERIAL seq
          ledger,    \* _ledger of each instance
          counter,   \* _ledgerSeq of each instance
          sent,      \* INSERTs of persistEntry() that the database has not seen yet
          lock,      \* the instance that holds advisory lock operator_ledger_chain
          txn,       \* the linearized append of each instance
          hashes,    \* how many hashes there are
          answered,  \* history: entries a linearized append returned
          faults     \* how many faults there were

vars == <<rows, nextSeq, ledger, counter, sent, lock, txn, hashes, answered, faults>>

-----------------------------------------------------------------------------
(* States *)

LEDGER_GENESIS == 0

\* strong: made by appendEntryLinearized().
Entry == [id : Nat, hash : Nat, prev : Nat, strong : BOOLEAN]
NoEntry == [id |-> 0, hash |-> 0, prev |-> 0, strong |-> FALSE]
Row == [seq : Nat, entry : Entry]

\* waiting: for the lock; read: knows the last row; inserted: its row is not committed yet;
\* pushed: the entry is in memory and COMMIT is sent.
Phases == {"down", "idle", "waiting", "locked", "read", "inserted", "pushed"}

\* row is the uncommitted row, of which a conflict on action_id leaves none.
Txn == [phase : Phases, prev : Nat, entry : Entry, seq : Nat]
Idle == [phase |-> "idle", prev |-> 0, entry |-> NoEntry, seq |-> 0]
Down == [Idle EXCEPT !.phase = "down"]

TypeOK == /\ rows \in SUBSET Row
          /\ \A a, b \in rows : a.seq = b.seq \/ a.entry.id = b.entry.id => a = b
          /\ nextSeq \in Nat
          /\ ledger \in [Instances -> Seq(Entry)]
          /\ counter \in [Instances -> Nat]
          /\ sent \in SUBSET Entry
          /\ lock \in Instances \cup {NoInstance}
          /\ txn \in [Instances -> Txn]
          /\ hashes \in Nat
          /\ answered \in SUBSET Entry
          /\ faults \in Nat

Init == /\ rows = {}
        /\ nextSeq = 1
        /\ ledger = [i \in Instances |-> <<>>]
        /\ counter = [i \in Instances |-> 0]
        /\ sent = {}
        /\ lock = NoInstance
        /\ txn = [i \in Instances |-> Down]
        /\ hashes = 0
        /\ answered = {}
        /\ faults = 0

Up(i) == txn[i].phase # "down"

\* SELECT ... ORDER BY seq DESC LIMIT 1.
LastRow == CHOOSE row \in rows : \A other \in rows : other.seq =< row.seq

\* Mutant: action_id is not UNIQUE.
HasIdNever(id) == FALSE

HasId(id) == \E row \in rows : row.entry.id = id

\* The row of a transaction that waits for its COMMIT; seq is 0 when there was a conflict.
Uncommitted(id) == \E i \in Instances : txn[i].seq > 0 /\ txn[i].entry.id = id

Fault == faults < MaxFaults /\ faults' = faults + 1

-----------------------------------------------------------------------------
(* Start and crash of an instance *)

\* initFromDb() seeds the counter and the chain from the last row.
Start(i) ==
  /\ ~Up(i)
  /\ txn' = [txn EXCEPT ![i] = Idle]
  /\ counter' = [counter EXCEPT ![i] = IF rows = {} THEN 0 ELSE LastRow.entry.id]
  /\ ledger' = [ledger EXCEPT ![i] = IF rows = {} THEN <<>> ELSE <<LastRow.entry>>]
  /\ UNCHANGED <<rows, nextSeq, sent, lock, hashes, answered, faults>>

\* initFromDb() fails, which is not fatal.
StartUnseeded(i) ==
  /\ ~Up(i)
  /\ Fault
  /\ txn' = [txn EXCEPT ![i] = Idle]
  /\ UNCHANGED <<rows, nextSeq, ledger, counter, sent, lock, hashes, answered>>

\* The process dies; its transaction is rolled back, what it had sent may still arrive.
Crash(i) ==
  /\ Up(i)
  /\ Fault
  /\ txn' = [txn EXCEPT ![i] = Down]
  /\ ledger' = [ledger EXCEPT ![i] = <<>>]
  /\ counter' = [counter EXCEPT ![i] = 0]
  /\ lock' = IF lock = i THEN NoInstance ELSE lock
  /\ UNCHANGED <<rows, nextSeq, sent, hashes, answered>>

-----------------------------------------------------------------------------
(* appendEntry() *)

LastHash(entries) == IF entries = <<>> THEN LEDGER_GENESIS ELSE entries[Len(entries)].hash

Compacted(entries) ==
  IF Len(entries) > MAX_LEDGER_ENTRIES THEN <<entries[Len(entries)]>> ELSE entries

appendEntry(i) ==
  LET entry == [id |-> counter[i] + 1, hash |-> hashes + 1,
                prev |-> LastHash(ledger[i]), strong |-> FALSE] IN
  /\ Up(i)
  /\ hashes < MaxAppends
  /\ hashes' = hashes + 1
  /\ counter' = [counter EXCEPT ![i] = @ + 1]
  /\ ledger' = [ledger EXCEPT ![i] = Compacted(Append(@, entry))]
  /\ sent' = sent \cup {entry}
  /\ UNCHANGED <<rows, nextSeq, lock, txn, answered, faults>>

\* INSERT ... ON CONFLICT (action_id) DO NOTHING, in whatever order the pool's connections
\* run them; it waits for an uncommitted row with its id.
EntryDelivered(entry) ==
  /\ entry \in sent
  /\ ~Uncommitted(entry.id)
  /\ sent' = sent \ {entry}
  /\ rows' = IF HasId(entry.id) THEN rows ELSE rows \cup {[seq |-> nextSeq, entry |-> entry]}
  /\ nextSeq' = nextSeq + 1
  /\ UNCHANGED <<ledger, counter, lock, txn, hashes, answered, faults>>

\* persistEntry() swallows the error.
EntryLost(entry) ==
  /\ entry \in sent
  /\ Fault
  /\ sent' = sent \ {entry}
  /\ UNCHANGED <<rows, nextSeq, ledger, counter, lock, txn, hashes, answered>>

-----------------------------------------------------------------------------
(* appendEntryLinearized() *)

Call(i) ==
  /\ txn[i].phase = "idle"
  /\ hashes < MaxAppends
  /\ txn' = [txn EXCEPT ![i].phase = "waiting"]
  /\ UNCHANGED <<rows, nextSeq, ledger, counter, sent, lock, hashes, answered, faults>>

\* Mutant: the transaction takes no lock.
LockNothing(i) ==
  /\ txn[i].phase = "waiting"
  /\ txn' = [txn EXCEPT ![i].phase = "locked"]
  /\ UNCHANGED <<rows, nextSeq, ledger, counter, sent, lock, hashes, answered, faults>>

\* pg_advisory_xact_lock(hashtext('operator_ledger_chain')).
Lock(i) ==
  /\ txn[i].phase = "waiting"
  /\ lock = NoInstance
  /\ lock' = i
  /\ txn' = [txn EXCEPT ![i].phase = "locked"]
  /\ UNCHANGED <<rows, nextSeq, ledger, counter, sent, hashes, answered, faults>>

\* The authoritative previous hash.
ReadLast(i) ==
  /\ txn[i].phase = "locked"
  /\ txn' = [txn EXCEPT ![i].phase = "read",
                        ![i].prev = IF rows = {} THEN LEDGER_GENESIS ELSE LastRow.entry.hash]
  /\ UNCHANGED <<rows, nextSeq, ledger, counter, sent, lock, hashes, answered, faults>>

\* The id comes from the counter of the process; an id the table has leaves no row.
Insert(i) ==
  LET entry == [id |-> counter[i] + 1, hash |-> hashes + 1,
                prev |-> txn[i].prev, strong |-> TRUE] IN
  /\ txn[i].phase = "read"
  /\ hashes' = hashes + 1
  /\ counter' = [counter EXCEPT ![i] = @ + 1]
  /\ txn' = [txn EXCEPT ![i].phase = "inserted", ![i].entry = entry,
                        ![i].seq = IF HasId(entry.id) THEN 0 ELSE nextSeq]
  /\ nextSeq' = nextSeq + 1
  /\ UNCHANGED <<rows, ledger, sent, lock, answered, faults>>

\* The entry goes to memory, without compaction, and COMMIT is sent.
Push(i) ==
  /\ txn[i].phase = "inserted"
  /\ ledger' = [ledger EXCEPT ![i] = Append(@, txn[i].entry)]
  /\ txn' = [txn EXCEPT ![i].phase = "pushed"]
  /\ UNCHANGED <<rows, nextSeq, counter, sent, lock, hashes, answered, faults>>

CommittedRow(i) ==
  IF txn[i].seq = 0 THEN {} ELSE {[seq |-> txn[i].seq, entry |-> txn[i].entry]}

\* Mutant: the advisory lock is one of the session, which no COMMIT or ROLLBACK releases.
EndKeepsLock(i) == UNCHANGED lock /\ txn' = [txn EXCEPT ![i] = Idle]

\* The transaction ends and releases pg_advisory_xact_lock.
End(i) ==
  /\ lock' = IF lock = i THEN NoInstance ELSE lock
  /\ txn' = [txn EXCEPT ![i] = Idle]

\* Mutant: the caller is answered before its COMMIT is.
CommitUnawaited(i) ==
  /\ txn[i].phase = "pushed"
  /\ answered' = answered \cup {txn[i].entry}
  /\ \/ rows' = rows \cup CommittedRow(i)
     \/ rows' = rows
  /\ End(i)
  /\ UNCHANGED <<nextSeq, ledger, counter, sent, hashes, faults>>

Commit(i) ==
  /\ txn[i].phase = "pushed"
  /\ rows' = rows \cup CommittedRow(i)
  /\ answered' = answered \cup {txn[i].entry}
  /\ End(i)
  /\ UNCHANGED <<nextSeq, ledger, counter, sent, hashes, faults>>

\* The database commits, but the connection fails before it says so: the caller is told of an
\* error.
CommitUnanswered(i) ==
  /\ txn[i].phase = "pushed"
  /\ Fault
  /\ rows' = rows \cup CommittedRow(i)
  /\ End(i)
  /\ UNCHANGED <<nextSeq, ledger, counter, sent, hashes, answered>>

\* A query or the connection fails: ROLLBACK. The entry stays in memory if it was there.
Fail(i) ==
  /\ txn[i].phase \in {"waiting", "locked", "read", "inserted", "pushed"}
  /\ Fault
  /\ End(i)
  /\ UNCHANGED <<rows, nextSeq, ledger, counter, sent, hashes, answered>>

Next ==
  \/ \E i \in Instances :
       \/ Start(i) \/ StartUnseeded(i) \/ Crash(i) \/ appendEntry(i)
       \/ Call(i) \/ Lock(i) \/ ReadLast(i) \/ Insert(i) \/ Push(i)
       \/ Commit(i) \/ CommitUnanswered(i) \/ Fail(i)
  \/ \E entry \in sent : EntryDelivered(entry) \/ EntryLost(entry)

\* PostgreSQL answers, and serves the waiters of the lock in their order.
Fairness == \A i \in Instances :
              /\ SF_vars(Lock(i))
              /\ WF_vars(ReadLast(i) \/ Insert(i) \/ Push(i) \/ Commit(i))

Spec == Init /\ [][Next]_vars

FairSpec == Spec /\ Fairness

-----------------------------------------------------------------------------
(* Properties *)

\* The linearization point of appendEntryLinearized(): a linearized row follows the linearized
\* row before it, or a row that appendEntry() wrote since. The chain of linearized entries
\* never forks, also while background inserts arrive in any order.
LinearizedNeverForks ==
  \A a, b \in rows :
    a.entry.strong /\ b.entry.strong /\ a.seq < b.seq =>
      \E row \in rows : a.seq =< row.seq /\ row.seq < b.seq /\ row.entry.hash = b.entry.prev

\* An append that was answered has its action id in the table, through every crash.
AnsweredHasRow == \A entry \in answered : HasId(entry.id)

\* Every linearized append ends: no failure leaves the others waiting for the lock.
AppendsEnd ==
  \A i \in Instances : txn[i].phase = "waiting" ~> txn[i].phase \in {"idle", "down"}

\* The advisory lock is always that of a transaction under way, which ends or fails: no instance
\* that restarted or gave up still holds it.
LockIsLive ==
  \A i \in Instances : lock = i <=> txn[i].phase \in {"locked", "read", "inserted", "pushed"}

\* The table is one to which each append adds its row in one step.
Atomic == INSTANCE AtomicLedger

\* The read of the last row, the insert and the commit of a linearized append are one step of
\* AtomicLedger, whatever runs between them.
ImplementsAtomicLedger == Atomic!Spec

\* operator-ledger.js:296 "Exactly-once: guaranteed by unique action_id constraint": the entry
\* an append returned is in the ledger.
AnsweredIsRecorded == \A entry \in answered : \E row \in rows : row.entry = entry
=============================================================================
