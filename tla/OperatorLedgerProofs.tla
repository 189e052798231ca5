----------------------- MODULE OperatorLedgerProofs -----------------------
(***************************************************************************)
(* Proofs about OperatorLedger, for any number of instances, appends and   *)
(* faults.  What a linearized append decides under the advisory lock it    *)
(* writes later, while background inserts go on.  IInv says why this is    *)
(* safe: nobody else holds the lock, so no linearized row appears in       *)
(* between, and what appears in between has a larger seq.                  *)
(***************************************************************************)
EXTENDS OperatorLedger, TLAPS

-----------------------------------------------------------------------------
(* The inductive invariant *)

Holding(i) == txn[i].phase \in {"locked", "read", "inserted", "pushed"}

HoldersLock == \A i \in Instances : Holding(i) => lock = i

BackgroundOnly == \A entry \in sent : ~entry.strong

\* Rows and waiting rows have numbers of the sequence that were drawn.
SeqsDrawn == /\ nextSeq > 0
             /\ \A row \in rows : row.seq < nextSeq
             /\ \A i \in Instances : txn[i].seq < nextSeq

RowsHaveLast ==
  rows = {} \/ \E last \in rows : \A other \in rows : other.seq =< last.seq

\* The uncommitted row of i collides with no committed one, and no linearized row is after it.
RowsWait ==
  \A i \in Instances : txn[i].seq > 0 =>
    /\ txn[i].phase \in {"inserted", "pushed"}
    /\ \A row \in rows : /\ row.seq # txn[i].seq
                         /\ row.entry.id # txn[i].entry.id
                         /\ row.entry.strong => row.seq < txn[i].seq

\* An entry whose INSERT ran is chained to the hash that was read; without a row of its own
\* its id was in the table.
EntriesChained ==
  \A i \in Instances : txn[i].phase \in {"inserted", "pushed"} =>
    /\ txn[i].entry.prev = txn[i].prev
    /\ txn[i].entry.strong
    /\ txn[i].seq = 0 => HasId(txn[i].entry.id)

\* Row a is before, or is itself, a row with the given hash and a seq below the limit, which
\* is 0 for none.
Before(a, hash, limit) ==
  \E row \in rows : /\ a.seq =< row.seq
                    /\ row.entry.hash = hash
                    /\ limit > 0 => row.seq < limit

\* From the read to the end of the transaction, all linearized rows are before the row read.
ReadIsLast ==
  \A i \in Instances : txn[i].phase \in {"read", "inserted", "pushed"} =>
    \A a \in rows : a.entry.strong => Before(a, txn[i].prev, txn[i].seq)

IInv == /\ TypeOK
        /\ HoldersLock
        /\ BackgroundOnly
        /\ SeqsDrawn
        /\ RowsHaveLast
        /\ RowsWait
        /\ EntriesChained
        /\ ReadIsLast
        /\ LinearizedNeverForks
        /\ AnsweredHasRow

LEMMA IdleFacts ==
  /\ Idle \in Txn /\ Idle.phase = "idle" /\ Idle.seq = 0
  /\ Down \in Txn /\ Down.phase = "down" /\ Down.seq = 0
  BY DEF Idle, Down, Txn, NoEntry, Entry, Phases

LEMMA InitIInv == Init => IInv
<1> SUFFICES ASSUME Init PROVE IInv
  OBVIOUS
<1> USE LedgerAssumption
<1>1. rows = {} /\ sent = {} /\ answered = {} /\ nextSeq = 1
  BY DEF Init
<1>2. \A i \in Instances : txn[i] = Down
  BY DEF Init
<1>3. TypeOK
  BY IdleFacts DEF Init, TypeOK
<1>4. HoldersLock /\ BackgroundOnly /\ SeqsDrawn /\ RowsHaveLast
  BY <1>1, <1>2, IdleFacts DEF HoldersLock, Holding, BackgroundOnly, SeqsDrawn, RowsHaveLast
<1>5. RowsWait /\ EntriesChained /\ ReadIsLast
  BY <1>1, <1>2, IdleFacts DEF RowsWait, EntriesChained, ReadIsLast
<1>6. LinearizedNeverForks /\ AnsweredHasRow
  BY <1>1 DEF LinearizedNeverForks, AnsweredHasRow
<1> QED
  BY <1>3, <1>4, <1>5, <1>6 DEF IInv

-----------------------------------------------------------------------------
(* Operators *)

LEMMA LastRowFacts ==
  ASSUME RowsHaveLast, rows # {}
  PROVE  LastRow \in rows /\ \A other \in rows : other.seq =< LastRow.seq
  BY DEF RowsHaveLast, LastRow

LEMMA LastHashType == ASSUME NEW entries \in Seq(Entry) PROVE LastHash(entries) \in Nat
<1>1. CASE entries = <<>>
  BY <1>1 DEF LastHash, LEDGER_GENESIS
<1>2. CASE entries # <<>>
  <2>1. entries[Len(entries)] \in Entry
    BY <1>2
  <2> QED
    BY <1>2, <2>1 DEF LastHash, Entry
<1> QED
  BY <1>1, <1>2

LEMMA AppendType ==
  ASSUME NEW entries \in Seq(Entry), NEW entry \in Entry
  PROVE  Append(entries, entry) \in Seq(Entry) /\ Append(entries, entry) # <<>>
<1>1. Len(Append(entries, entry)) = Len(entries) + 1 /\ Len(entries) \in Nat
  OBVIOUS
<1>2. Append(entries, entry) # <<>>
  BY <1>1
<1> QED
  BY <1>2

LEMMA CompactedType ==
  ASSUME NEW entries \in Seq(Entry), entries # <<>>
  PROVE  Compacted(entries) \in Seq(Entry)
<1>1. entries[Len(entries)] \in Entry
  OBVIOUS
<1> QED
  BY <1>1 DEF Compacted

-----------------------------------------------------------------------------
(* One lemma for each kind of step *)

\* An instance starts, dies or gives up: its transaction is gone, and the table is as it was.
LEMMA StartStopStep ==
  ASSUME IInv, NEW i \in Instances, Start(i) \/ StartUnseeded(i) \/ Crash(i) \/ Fail(i)
  PROVE  IInv'
<1> USE LedgerAssumption
<1> USE DEF IInv
<1>1. UNCHANGED <<rows, nextSeq, sent, hashes, answered>>
  BY DEF Start, StartUnseeded, Crash, Fail
<1>2. PICK q \in {Idle, Down} : txn' = [txn EXCEPT ![i] = q]
  BY DEF Start, StartUnseeded, Crash, Fail, End
<1>3. lock' \in {lock, NoInstance} /\ (lock' # lock => lock = i)
  BY DEF Start, StartUnseeded, Crash, Fail, End
<1>4. /\ txn'[i].phase \in {"idle", "down"} /\ txn'[i].seq = 0
      /\ \A j \in Instances : j # i => txn'[j] = txn[j]
  BY <1>2, IdleFacts DEF TypeOK
<1>5. TypeOK'
  <2>1. txn' \in [Instances -> Txn] /\ lock' \in Instances \cup {NoInstance}
    BY <1>2, <1>3, IdleFacts DEF TypeOK
  <2>2. faults' \in Nat
    BY DEF TypeOK, Start, StartUnseeded, Crash, Fail, Fault
  <2>3. ledger' \in [Instances -> Seq(Entry)] /\ counter' \in [Instances -> Nat]
    <3>1. CASE Start(i)
      <4>1. rows # {} => LastRow.entry \in Entry /\ LastRow.entry.id \in Nat
        BY LastRowFacts DEF TypeOK, Row, Entry
      <4>2. /\ (IF rows = {} THEN 0 ELSE LastRow.entry.id) \in Nat
            /\ (IF rows = {} THEN <<>> ELSE <<LastRow.entry>>) \in Seq(Entry)
        BY <4>1
      <4> QED
        BY <3>1, <4>2 DEF Start, TypeOK
    <3>2. CASE Crash(i)
      BY <3>2 DEF Crash, TypeOK
    <3>3. CASE StartUnseeded(i) \/ Fail(i)
      BY <3>3 DEF StartUnseeded, Fail, TypeOK
    <3> QED
      BY <3>1, <3>2, <3>3
  <2> QED
    BY <1>1, <2>1, <2>2, <2>3 DEF TypeOK
<1>6. HoldersLock'
  BY <1>3, <1>4 DEF HoldersLock, Holding
<1>7. BackgroundOnly' /\ SeqsDrawn' /\ RowsHaveLast'
  BY <1>1, <1>4 DEF BackgroundOnly, SeqsDrawn, RowsHaveLast
<1>8. RowsWait' /\ EntriesChained' /\ ReadIsLast'
  BY <1>1, <1>4 DEF RowsWait, EntriesChained, ReadIsLast, HasId, Before
<1>9. LinearizedNeverForks' /\ AnsweredHasRow'
  BY <1>1 DEF LinearizedNeverForks, AnsweredHasRow, HasId
<1> QED
  BY <1>5, <1>6, <1>7, <1>8, <1>9

\* appendEntry() itself touches only the memory of its instance; the lost INSERT nothing.
LEMMA BackgroundStep ==
  ASSUME IInv,
         \/ \E i \in Instances : appendEntry(i)
         \/ \E entry \in sent : EntryLost(entry)
  PROVE  IInv'
<1> USE DEF IInv
<1>1. UNCHANGED <<rows, nextSeq, lock, txn, answered>>
  BY DEF appendEntry, EntryLost
<1>2. /\ sent' \in SUBSET Entry /\ BackgroundOnly' /\ hashes' \in Nat /\ faults' \in Nat
      /\ ledger' \in [Instances -> Seq(Entry)] /\ counter' \in [Instances -> Nat]
  <2>1. CASE \E i \in Instances : appendEntry(i)
    <3>1. PICK i \in Instances : appendEntry(i)
      BY <2>1
    <3> DEFINE entry == [id |-> counter[i] + 1, hash |-> hashes + 1,
                         prev |-> LastHash(ledger[i]), strong |-> FALSE]
    <3>2. entry \in Entry /\ entry.strong = FALSE
      BY LastHashType DEF TypeOK, Entry
    <3>3. Compacted(Append(ledger[i], entry)) \in Seq(Entry)
      <4>1. Append(ledger[i], entry) \in Seq(Entry) /\ Append(ledger[i], entry) # <<>>
        <5> HIDE DEF entry
        <5> QED
          BY <3>2, AppendType DEF TypeOK
      <4> QED
        BY <4>1, CompactedType
    <3>4. /\ sent' = sent \cup {entry}
          /\ ledger' = [ledger EXCEPT ![i] = Compacted(Append(@, entry))]
          /\ counter' = [counter EXCEPT ![i] = @ + 1]
          /\ hashes' = hashes + 1
          /\ faults' = faults
      BY <3>1 DEF appendEntry
    <3> HIDE DEF entry
    <3> QED
      BY <3>2, <3>3, <3>4 DEF TypeOK, BackgroundOnly
  <2>2. CASE \E entry \in sent : EntryLost(entry)
    BY <2>2 DEF EntryLost, Fault, TypeOK, BackgroundOnly
  <2> QED
    BY <2>1, <2>2
<1>3. TypeOK'
  BY <1>1, <1>2 DEF TypeOK
<1>4. HoldersLock' /\ SeqsDrawn' /\ RowsHaveLast'
  BY <1>1 DEF HoldersLock, Holding, SeqsDrawn, RowsHaveLast
<1>5. RowsWait' /\ EntriesChained' /\ ReadIsLast'
  BY <1>1 DEF RowsWait, EntriesChained, ReadIsLast, HasId, Before
<1>6. LinearizedNeverForks' /\ AnsweredHasRow'
  BY <1>1 DEF LinearizedNeverForks, AnsweredHasRow, HasId
<1> QED
  BY <1>2, <1>3, <1>4, <1>5, <1>6

\* A background INSERT reaches the table: its row has the largest seq of all, and is no
\* linearized one.
LEMMA DeliveryStep ==
  ASSUME IInv, NEW entry \in sent, EntryDelivered(entry)
  PROVE  IInv'
<1> USE DEF IInv
<1> DEFINE row == [seq |-> nextSeq, entry |-> entry]
<1>1. /\ UNCHANGED <<ledger, counter, lock, txn, hashes, answered, faults>>
      /\ nextSeq' = nextSeq + 1 /\ sent' = sent \ {entry}
  BY DEF EntryDelivered
<1>2. /\ entry \in Entry /\ ~entry.strong /\ nextSeq \in Nat
      /\ row \in Row /\ row.seq = nextSeq /\ row.entry = entry
  BY DEF TypeOK, BackgroundOnly, Row
<1>3. \A i \in Instances : txn[i].seq > 0 => txn[i].entry.id # entry.id
  BY DEF EntryDelivered, Uncommitted
<1>4. rows' = rows \/ (rows' = rows \cup {row} /\ ~HasId(entry.id))
  BY DEF EntryDelivered
<1> HIDE DEF row
<1>5. \A other \in rows : other \in Row /\ other.seq \in Nat /\ other.seq < nextSeq
  BY DEF TypeOK, Row, SeqsDrawn
<1>6. \A i \in Instances : txn[i] \in Txn /\ txn[i].seq \in Nat /\ txn[i].seq < nextSeq
  BY DEF TypeOK, Txn, SeqsDrawn
<1>7. TypeOK'
  <2>1. rows' \in SUBSET Row
    BY <1>2, <1>4 DEF TypeOK
  <2>2. \A a, b \in rows' : a.seq = b.seq \/ a.entry.id = b.entry.id => a = b
    <3>1. CASE rows' = rows
      BY <3>1 DEF TypeOK
    <3>2. CASE rows' = rows \cup {row} /\ ~HasId(entry.id)
      <4>1. \A a \in rows : a.seq # row.seq /\ a.entry.id # row.entry.id
        BY <1>2, <1>5, <3>2 DEF HasId
      <4> QED
        BY <3>2, <4>1 DEF TypeOK
    <3> QED
      BY <1>4, <3>1, <3>2
  <2>3. sent' \in SUBSET Entry /\ nextSeq' \in Nat
    BY <1>1, <1>2 DEF TypeOK
  <2> QED
    BY <1>1, <2>1, <2>2, <2>3 DEF TypeOK
<1>8. HoldersLock' /\ BackgroundOnly'
  BY <1>1 DEF HoldersLock, Holding, BackgroundOnly
<1>9. SeqsDrawn' /\ RowsHaveLast'
  BY <1>1, <1>2, <1>4, <1>5, <1>6 DEF SeqsDrawn, RowsHaveLast
<1>10. RowsWait'
  BY <1>1, <1>2, <1>3, <1>4, <1>6 DEF RowsWait
<1>11. EntriesChained' /\ AnsweredHasRow'
  BY <1>1, <1>4 DEF EntriesChained, AnsweredHasRow, HasId
<1>12. ReadIsLast'
  BY <1>1, <1>2, <1>4 DEF ReadIsLast, Before
<1>13. LinearizedNeverForks'
  BY <1>2, <1>4 DEF LinearizedNeverForks
<1> QED
  BY <1>7, <1>8, <1>9, <1>10, <1>11, <1>12, <1>13

\* The append queues, and gets the lock when nobody holds it.
LEMMA LockStep ==
  ASSUME IInv, NEW i \in Instances, Call(i) \/ Lock(i)
  PROVE  IInv'
<1> USE DEF IInv
<1>1. /\ UNCHANGED <<rows, nextSeq, ledger, counter, sent, hashes, answered, faults>>
      /\ lock' = lock \/ (lock = NoInstance /\ lock' = i)
  BY DEF Call, Lock
<1>2. PICK phase \in {"waiting", "locked"} :
        /\ txn' = [txn EXCEPT ![i].phase = phase]
        /\ phase = "locked" => lock = NoInstance /\ lock' = i
  BY DEF Call, Lock
<1>3. txn[i] \in Txn /\ txn[i].phase \in {"idle", "waiting"}
  BY DEF TypeOK, Call, Lock
<1>4. /\ txn' \in [Instances -> Txn]
      /\ txn'[i].phase = phase /\ txn'[i].seq = txn[i].seq
      /\ \A j \in Instances : j # i => txn'[j] = txn[j]
  BY <1>2, <1>3 DEF TypeOK, Txn, Phases
<1>5. txn[i].seq = 0
  BY <1>3 DEF RowsWait, Txn
<1>6. TypeOK'
  BY <1>1, <1>4 DEF TypeOK
<1>7. HoldersLock'
  BY <1>1, <1>2, <1>4, LedgerAssumption DEF HoldersLock, Holding
<1>8. BackgroundOnly' /\ SeqsDrawn' /\ RowsHaveLast'
  BY <1>1, <1>4 DEF BackgroundOnly, SeqsDrawn, RowsHaveLast
<1>9. RowsWait' /\ EntriesChained' /\ ReadIsLast'
  BY <1>1, <1>4, <1>5 DEF RowsWait, EntriesChained, ReadIsLast, HasId, Before
<1>10. LinearizedNeverForks' /\ AnsweredHasRow'
  BY <1>1 DEF LinearizedNeverForks, AnsweredHasRow, HasId
<1> QED
  BY <1>6, <1>7, <1>8, <1>9, <1>10

\* The last row is read: all linearized rows are before it.
LEMMA ReadStep ==
  ASSUME IInv, NEW i \in Instances, ReadLast(i)
  PROVE  IInv'
<1> USE DEF IInv
<1> DEFINE hash == IF rows = {} THEN LEDGER_GENESIS ELSE LastRow.entry.hash
<1>1. UNCHANGED <<rows, nextSeq, ledger, counter, sent, lock, hashes, answered, faults>>
  BY DEF ReadLast
<1>2. txn[i] \in Txn /\ txn[i].phase = "locked"
  BY DEF TypeOK, ReadLast
<1>3. hash \in Nat
  BY LastRowFacts DEF TypeOK, Row, Entry, LEDGER_GENESIS
<1>4. txn' = [txn EXCEPT ![i].phase = "read", ![i].prev = hash]
  BY DEF ReadLast
<1>5. \A a \in rows : a.entry.strong => Before(a, hash, 0)
  BY LastRowFacts DEF Before
<1> HIDE DEF hash
<1>6. /\ txn' \in [Instances -> Txn]
      /\ txn'[i].phase = "read" /\ txn'[i].prev = hash /\ txn'[i].seq = txn[i].seq
      /\ \A j \in Instances : j # i => txn'[j] = txn[j]
  BY <1>2, <1>3, <1>4 DEF TypeOK, Txn, Phases
<1>7. txn[i].seq = 0
  BY <1>2 DEF RowsWait, Txn
<1>8. TypeOK'
  BY <1>1, <1>6 DEF TypeOK
<1>9. HoldersLock'
  BY <1>1, <1>2, <1>6 DEF HoldersLock, Holding
<1>10. BackgroundOnly' /\ SeqsDrawn' /\ RowsHaveLast'
  BY <1>1, <1>6 DEF BackgroundOnly, SeqsDrawn, RowsHaveLast
<1>11. RowsWait' /\ EntriesChained'
  BY <1>1, <1>6, <1>7 DEF RowsWait, EntriesChained, HasId
<1>12. ReadIsLast'
  BY <1>1, <1>5, <1>6, <1>7 DEF ReadIsLast, Before
<1>13. LinearizedNeverForks' /\ AnsweredHasRow'
  BY <1>1 DEF LinearizedNeverForks, AnsweredHasRow, HasId
<1> QED
  BY <1>8, <1>9, <1>10, <1>11, <1>12, <1>13

\* The INSERT draws a number above those of all rows there are.
LEMMA InsertStep ==
  ASSUME IInv, NEW i \in Instances, Insert(i)
  PROVE  IInv'
<1> USE DEF IInv
<1> DEFINE entry == [id |-> counter[i] + 1, hash |-> hashes + 1,
                     prev |-> txn[i].prev, strong |-> TRUE]
           seq == IF HasId(entry.id) THEN 0 ELSE nextSeq
<1>1. /\ UNCHANGED <<rows, ledger, sent, lock, answered, faults>>
      /\ nextSeq' = nextSeq + 1 /\ hashes' = hashes + 1
      /\ counter' = [counter EXCEPT ![i] = @ + 1]
  BY DEF Insert
<1>2. txn[i] \in Txn /\ txn[i].phase = "read" /\ txn[i].prev \in Nat
  BY DEF TypeOK, Txn, Insert
<1>3. /\ entry \in Entry /\ entry.prev = txn[i].prev /\ entry.strong = TRUE
      /\ seq \in {0, nextSeq} /\ nextSeq \in Nat
      /\ seq = 0 => HasId(entry.id)
      /\ seq > 0 => ~HasId(entry.id)
  BY <1>2 DEF TypeOK, Entry, SeqsDrawn
<1>4. txn' = [txn EXCEPT ![i].phase = "inserted", ![i].entry = entry, ![i].seq = seq]
  BY DEF Insert
<1> DEFINE q == [txn[i] EXCEPT !.phase = "inserted", !.entry = entry, !.seq = seq]
<1>5. txn' = [txn EXCEPT ![i] = q]
  BY <1>4 DEF TypeOK
<1> HIDE DEF entry, seq
<1>6. /\ q \in Txn /\ q.phase = "inserted" /\ q.prev = txn[i].prev
       /\ q.entry = entry /\ q.seq = seq
  <2>1. seq \in Nat /\ entry \in Entry
    BY <1>3
  <2>2. q \in Txn
    BY <1>2, <2>1 DEF Txn, Phases
  <2>3. q.phase = "inserted" /\ q.prev = txn[i].prev
    BY <1>2 DEF Txn
  <2>4. q.entry = entry
    BY <1>2 DEF Txn
  <2>5. q.seq = seq
    BY <1>2 DEF Txn
  <2> QED
    BY <2>2, <2>3, <2>4, <2>5
<1> HIDE DEF q
<1>7. /\ txn' \in [Instances -> Txn]
      /\ txn'[i].phase = "inserted" /\ txn'[i].prev = txn[i].prev
      /\ txn'[i].entry = entry /\ txn'[i].seq = seq
      /\ \A j \in Instances : j # i => txn'[j] = txn[j]
  BY <1>5, <1>6 DEF TypeOK
<1>8. \A row \in rows : row.seq \in Nat /\ row.seq < nextSeq
  BY DEF TypeOK, Row, SeqsDrawn
<1>9. \A j \in Instances : txn[j].seq \in Nat /\ txn[j].seq < nextSeq
  BY DEF TypeOK, Txn, SeqsDrawn
<1>10. TypeOK'
  <2>1. nextSeq' \in Nat /\ hashes' \in Nat /\ counter' \in [Instances -> Nat]
    BY <1>1 DEF TypeOK
  <2> QED
    BY <1>1, <1>7, <2>1 DEF TypeOK
<1>11. HoldersLock' /\ BackgroundOnly' /\ RowsHaveLast'
  BY <1>1, <1>2, <1>7 DEF HoldersLock, Holding, BackgroundOnly, RowsHaveLast
<1>12. SeqsDrawn'
  BY <1>1, <1>3, <1>7, <1>8, <1>9 DEF SeqsDrawn
<1>13. RowsWait'
  BY <1>1, <1>3, <1>7, <1>8 DEF RowsWait, HasId
<1>14. EntriesChained'
  BY <1>1, <1>3, <1>7 DEF EntriesChained, HasId
<1>15. ReadIsLast'
  <2>1. txn[i].seq = 0
    BY <1>2 DEF RowsWait, Txn
  <2>2. \A a \in rows : a.entry.strong => Before(a, txn[i].prev, seq)
    BY <1>2, <1>3, <1>8, <2>1 DEF ReadIsLast, Before
  <2> QED
    BY <1>1, <1>7, <2>2 DEF ReadIsLast, Before
<1>16. LinearizedNeverForks' /\ AnsweredHasRow'
  BY <1>1 DEF LinearizedNeverForks, AnsweredHasRow, HasId
<1> QED
  BY <1>10, <1>11, <1>12, <1>13, <1>14, <1>15, <1>16

\* The entry goes to memory.
LEMMA PushStep ==
  ASSUME IInv, NEW i \in Instances, Push(i)
  PROVE  IInv'
<1> USE DEF IInv
<1>1. /\ UNCHANGED <<rows, nextSeq, counter, sent, lock, hashes, answered, faults>>
      /\ ledger' = [ledger EXCEPT ![i] = Append(@, txn[i].entry)]
      /\ txn' = [txn EXCEPT ![i].phase = "pushed"]
  BY DEF Push
<1>2. txn[i] \in Txn /\ txn[i].phase = "inserted" /\ txn[i].entry \in Entry
  BY DEF TypeOK, Txn, Push
<1>3. /\ txn' \in [Instances -> Txn]
      /\ txn'[i].phase = "pushed" /\ txn'[i].prev = txn[i].prev
      /\ txn'[i].entry = txn[i].entry /\ txn'[i].seq = txn[i].seq
      /\ \A j \in Instances : j # i => txn'[j] = txn[j]
  BY <1>1, <1>2 DEF TypeOK, Txn, Phases
<1>4. ledger' \in [Instances -> Seq(Entry)]
  BY <1>1, <1>2, AppendType DEF TypeOK
<1>5. TypeOK'
  BY <1>1, <1>3, <1>4 DEF TypeOK
<1>6. HoldersLock' /\ BackgroundOnly' /\ SeqsDrawn' /\ RowsHaveLast'
  BY <1>1, <1>2, <1>3 DEF HoldersLock, Holding, BackgroundOnly, SeqsDrawn, RowsHaveLast
<1>7. RowsWait' /\ EntriesChained' /\ ReadIsLast'
  BY <1>1, <1>2, <1>3 DEF RowsWait, EntriesChained, ReadIsLast, HasId, Before
<1>8. LinearizedNeverForks' /\ AnsweredHasRow'
  BY <1>1 DEF LinearizedNeverForks, AnsweredHasRow, HasId
<1> QED
  BY <1>5, <1>6, <1>7, <1>8

\* COMMIT makes the row visible, whether or not the caller is told.
LEMMA CommitStep ==
  ASSUME IInv, NEW i \in Instances, Commit(i) \/ CommitUnanswered(i)
  PROVE  IInv'
<1> USE LedgerAssumption
<1> USE DEF IInv
<1> DEFINE own == [seq |-> txn[i].seq, entry |-> txn[i].entry]
<1>1. /\ UNCHANGED <<nextSeq, ledger, counter, sent, hashes>>
      /\ rows' = rows \cup CommittedRow(i)
      /\ txn' = [txn EXCEPT ![i] = Idle]
      /\ lock' = IF lock = i THEN NoInstance ELSE lock
      /\ answered' \in {answered, answered \cup {txn[i].entry}}
      /\ faults' \in {faults, faults + 1}
  BY DEF Commit, CommitUnanswered, End, Fault
<1>2. txn[i] \in Txn /\ txn[i].phase = "pushed"
  BY DEF TypeOK, Commit, CommitUnanswered
<1>3. own \in Row /\ own.seq = txn[i].seq /\ own.entry = txn[i].entry /\ own.entry \in Entry
  BY <1>2 DEF Txn, Row
<1>4. \/ txn[i].seq = 0 /\ rows' = rows
      \/ txn[i].seq > 0 /\ rows' = rows \cup {own}
  BY <1>1, <1>2 DEF CommittedRow, Txn
<1> HIDE DEF own
<1>5. /\ txn' \in [Instances -> Txn]
      /\ txn'[i].phase = "idle" /\ txn'[i].seq = 0
      /\ \A j \in Instances : j # i => txn'[j] = txn[j]
  BY <1>1, IdleFacts DEF TypeOK
<1>6. \A row \in rows : row \in Row /\ row.seq \in Nat
  BY DEF TypeOK, Row
<1>7. \A j \in Instances : j # i => ~Holding(j)
  BY <1>2 DEF HoldersLock, Holding
<1>8. \A j \in Instances : j # i => txn'[j].seq = 0
  BY <1>5, <1>7 DEF RowsWait, Holding, TypeOK, Txn
<1>9. TypeOK'
  <2>1. rows' \in SUBSET Row
        /\ \A a, b \in rows' : a.seq = b.seq \/ a.entry.id = b.entry.id => a = b
    BY <1>2, <1>3, <1>4 DEF TypeOK, RowsWait
  <2>2. answered' \in SUBSET Entry /\ faults' \in Nat /\ lock' \in Instances \cup {NoInstance}
    BY <1>1, <1>2 DEF TypeOK, Txn
  <2> QED
    BY <1>1, <1>5, <2>1, <2>2 DEF TypeOK
<1>10. HoldersLock' /\ BackgroundOnly'
  BY <1>1, <1>5, <1>7 DEF HoldersLock, Holding, BackgroundOnly
<1>11. SeqsDrawn' /\ RowsHaveLast'
  <2>1. txn[i].seq \in Nat /\ txn[i].seq < nextSeq /\ nextSeq \in Nat
    BY <1>2 DEF SeqsDrawn, Txn, TypeOK
  <2>2. SeqsDrawn'
    BY <1>1, <1>3, <1>4, <1>5, <2>1 DEF SeqsDrawn
  <2>3. RowsHaveLast'
    BY <1>3, <1>4, <1>6, <2>1 DEF RowsHaveLast
  <2> QED
    BY <2>2, <2>3
<1>12. RowsWait' /\ EntriesChained' /\ ReadIsLast'
  BY <1>5, <1>7, <1>8 DEF RowsWait, EntriesChained, ReadIsLast, Holding
<1>13. LinearizedNeverForks'
  <2>1. txn[i].seq > 0 =>
          \A a \in rows : a.entry.strong =>
            \E row \in rows : a.seq =< row.seq /\ row.seq < own.seq /\ row.entry.hash = own.entry.prev
    BY <1>2, <1>3 DEF ReadIsLast, EntriesChained, Before
  <2>2. txn[i].seq > 0 => \A b \in rows : b.entry.strong => b.seq < own.seq
    BY <1>2, <1>3 DEF RowsWait
  <2>3. txn[i].seq \in Nat
    BY <1>2 DEF Txn
  <2> QED
    BY <1>3, <1>4, <1>6, <2>1, <2>2, <2>3 DEF LinearizedNeverForks
<1>14. AnsweredHasRow'
  BY <1>1, <1>2, <1>3, <1>4 DEF AnsweredHasRow, EntriesChained, HasId
<1> QED
  BY <1>9, <1>10, <1>11, <1>12, <1>13, <1>14

-----------------------------------------------------------------------------
(* The theorems *)

\* Every step preserves the invariant.
LEMMA NextIInv == IInv /\ [Next]_vars => IInv'
<1> SUFFICES ASSUME IInv, [Next]_vars PROVE IInv'
  OBVIOUS
<1>1. CASE UNCHANGED vars
  BY <1>1
  DEF vars, IInv, TypeOK, HoldersLock, Holding, BackgroundOnly, SeqsDrawn, RowsHaveLast,
      RowsWait, EntriesChained, ReadIsLast, Before, HasId, LinearizedNeverForks, AnsweredHasRow
<1>2. CASE \E i \in Instances :
             \/ Start(i) \/ StartUnseeded(i) \/ Crash(i) \/ appendEntry(i)
             \/ Call(i) \/ Lock(i) \/ ReadLast(i) \/ Insert(i) \/ Push(i)
             \/ Commit(i) \/ CommitUnanswered(i) \/ Fail(i)
  <2>1. PICK i \in Instances :
             \/ Start(i) \/ StartUnseeded(i) \/ Crash(i) \/ appendEntry(i)
             \/ Call(i) \/ Lock(i) \/ ReadLast(i) \/ Insert(i) \/ Push(i)
             \/ Commit(i) \/ CommitUnanswered(i) \/ Fail(i)
    BY <1>2
  <2> QED
    BY <2>1, StartStopStep, BackgroundStep, LockStep, ReadStep, InsertStep, PushStep, CommitStep
<1>3. CASE \E entry \in sent : EntryDelivered(entry) \/ EntryLost(entry)
  BY <1>3, DeliveryStep, BackgroundStep
<1> QED
  BY <1>1, <1>2, <1>3 DEF Next

\* The inductive invariant holds of every behaviour.
THEOREM InvarianceOfIInv == Spec => []IInv
  BY InitIInv, NextIInv, PTL DEF Spec

\* Every reachable state is well typed, and no two rows share a seq or an action id.
THEOREM TypeCorrect == Spec => []TypeOK
<1>1. IInv => TypeOK
  BY DEF IInv
<1> QED
  BY InvarianceOfIInv, <1>1, PTL

\* The entries of appendEntryLinearized() form a chain that never forks, for any number of
\* instances, restarts and late background inserts.
THEOREM ChainNeverForks == Spec => []LinearizedNeverForks
<1>1. IInv => LinearizedNeverForks
  BY DEF IInv
<1> QED
  BY InvarianceOfIInv, <1>1, PTL

\* The action id of an answered append is in the table for ever.
THEOREM AnsweredIdsStay == Spec => []AnsweredHasRow
<1>1. IInv => AnsweredHasRow
  BY DEF IInv
<1> QED
  BY InvarianceOfIInv, <1>1, PTL

-----------------------------------------------------------------------------
(* The advisory lock is never orphaned *)

LEMMA InitLockIsLive == Init => LockIsLive
  BY LedgerAssumption, IdleFacts DEF Init, LockIsLive

\* A transaction takes the lock when it is free, keeps it through its steps, and gives it up
\* with its last one.
LEMMA NextLockIsLive == IInv /\ LockIsLive /\ [Next]_vars => LockIsLive'
<1> SUFFICES ASSUME IInv, LockIsLive, [Next]_vars PROVE LockIsLive'
  OBVIOUS
<1> USE LedgerAssumption
<1>1. txn \in [Instances -> Txn]
  BY DEF IInv, TypeOK
<1>2. CASE UNCHANGED <<lock, txn>>
  BY <1>2 DEF LockIsLive
<1>3. ASSUME NEW i \in Instances,
             Start(i) \/ StartUnseeded(i) \/ Crash(i) \/ Commit(i) \/ CommitUnanswered(i) \/ Fail(i)
      PROVE  LockIsLive'
  <2>1. PICK q \in {Idle, Down} : txn' = [txn EXCEPT ![i] = q]
    BY <1>3 DEF Start, StartUnseeded, Crash, Commit, CommitUnanswered, Fail, End
  <2>2. lock' = IF lock = i THEN NoInstance ELSE lock
    BY <1>3 DEF Start, StartUnseeded, Crash, Commit, CommitUnanswered, Fail, End, Up, LockIsLive
  <2>3. /\ txn'[i].phase \in {"idle", "down"}
        /\ \A j \in Instances : j # i => txn'[j] = txn[j]
    BY <1>1, <2>1, IdleFacts
  <2> QED
    BY <2>2, <2>3 DEF LockIsLive
<1>4. ASSUME NEW i \in Instances, Call(i) \/ ReadLast(i) \/ Insert(i) \/ Push(i)
      PROVE  LockIsLive'
  <2>1. lock' = lock
    BY <1>4 DEF Call, ReadLast, Insert, Push
  <2>2. \A j \in Instances : j # i => txn'[j] = txn[j]
    BY <1>1, <1>4 DEF Call, ReadLast, Insert, Push
  <2>3. \/ txn[i].phase = "idle" /\ txn'[i].phase = "waiting"
        \/ /\ txn[i].phase \in {"locked", "read", "inserted"}
           /\ txn'[i].phase \in {"read", "inserted", "pushed"}
    BY <1>1, <1>4 DEF Call, ReadLast, Insert, Push, Txn
  <2> QED
    BY <2>1, <2>2, <2>3 DEF LockIsLive
<1>5. ASSUME NEW i \in Instances, Lock(i) PROVE LockIsLive'
  <2>1. lock = NoInstance /\ lock' = i
    BY <1>5 DEF Lock
  <2>2. txn'[i].phase = "locked" /\ \A j \in Instances : j # i => txn'[j] = txn[j]
    BY <1>1, <1>5 DEF Lock, Txn
  <2> QED
    BY <2>1, <2>2 DEF LockIsLive
<1>6. ASSUME NEW i \in Instances, appendEntry(i) PROVE LockIsLive'
  BY <1>2, <1>6 DEF appendEntry
<1>7. ASSUME NEW entry \in sent, EntryDelivered(entry) \/ EntryLost(entry) PROVE LockIsLive'
  BY <1>2, <1>7 DEF EntryDelivered, EntryLost
<1> QED
  BY <1>2, <1>3, <1>4, <1>5, <1>6, <1>7 DEF Next, vars

\* The advisory lock of the ledger is held exactly while a transaction of its holder is under
\* way: no crash, failed query or lost answer leaves it to nobody, for any number of instances.
THEOREM LockNeverOrphaned == Spec => []LockIsLive
  BY InvarianceOfIInv, InitLockIsLive, NextLockIsLive, PTL DEF Spec

-----------------------------------------------------------------------------
(* A hash names one entry *)

\* The instances whose INSERT ran in a transaction that is not over.
Inserting == {i \in Instances : txn[i].phase \in {"inserted", "pushed"}}

\* The entries that are in the table or may still come there.
Made == {row.entry : row \in rows} \cup sent \cup {txn[i].entry : i \in Inserting}

HashesNew ==
  \A a \in Made : /\ LEDGER_GENESIS < a.hash /\ a.hash =< hashes
                  /\ \A b \in Made : a.hash = b.hash => a = b

LEMMA InitHashesNew == Init => HashesNew
  BY IdleFacts DEF Init, HashesNew, Made, Inserting

\* A step makes no entry, or one with the next hash.
LEMMA NextMade ==
  ASSUME IInv, [Next]_vars
  PROVE  \/ hashes' = hashes /\ Made' \subseteq Made
         \/ /\ hashes' = hashes + 1
            /\ \E entry : entry.hash = hashes + 1 /\ Made' \subseteq Made \cup {entry}
<1>1. txn \in [Instances -> Txn]
  BY DEF IInv, TypeOK
<1>2. CASE UNCHANGED vars
  BY <1>2 DEF vars, Made, Inserting
<1>3. ASSUME NEW i \in Instances, Start(i) \/ StartUnseeded(i) \/ Crash(i) \/ Fail(i)
      PROVE  hashes' = hashes /\ Made' \subseteq Made
  <2>1. PICK q \in {Idle, Down} : txn' = [txn EXCEPT ![i] = q]
    BY <1>3 DEF Start, StartUnseeded, Crash, Fail, End
  <2>2. Inserting' \subseteq Inserting /\ \A j \in Inserting' : txn'[j] = txn[j]
    BY <1>1, <2>1, IdleFacts DEF Inserting
  <2>3. UNCHANGED <<rows, sent, hashes>>
    BY <1>3 DEF Start, StartUnseeded, Crash, Fail
  <2> QED
    BY <2>2, <2>3 DEF Made
<1>4. ASSUME NEW i \in Instances, Commit(i) \/ CommitUnanswered(i)
      PROVE  hashes' = hashes /\ Made' \subseteq Made
  <2>1. txn' = [txn EXCEPT ![i] = Idle] /\ rows' = rows \cup CommittedRow(i)
    BY <1>4 DEF Commit, CommitUnanswered, End
  <2>2. Inserting' \subseteq Inserting /\ \A j \in Inserting' : txn'[j] = txn[j]
    BY <1>1, <2>1, IdleFacts DEF Inserting
  <2>3. UNCHANGED <<sent, hashes>> /\ i \in Inserting
    BY <1>4 DEF Commit, CommitUnanswered, Inserting
  <2>4. \A row \in CommittedRow(i) : row.entry = txn[i].entry
    BY DEF CommittedRow
  <2> QED
    BY <2>1, <2>2, <2>3, <2>4 DEF Made
<1>5. ASSUME NEW i \in Instances, Call(i) \/ Lock(i) \/ ReadLast(i) \/ Push(i)
      PROVE  hashes' = hashes /\ Made' \subseteq Made
  <2>1. UNCHANGED <<rows, sent, hashes>>
    BY <1>5 DEF Call, Lock, ReadLast, Push
  <2>2. /\ txn'[i].entry = txn[i].entry
        /\ i \in Inserting' => i \in Inserting
        /\ \A j \in Instances : j # i => txn'[j] = txn[j]
    BY <1>1, <1>5 DEF Call, Lock, ReadLast, Push, Txn, Inserting
  <2>3. Inserting' \subseteq Inserting /\ \A j \in Inserting' : txn'[j].entry = txn[j].entry
    BY <2>2 DEF Inserting
  <2> QED
    BY <2>1, <2>3 DEF Made
<1>6. ASSUME NEW i \in Instances, Insert(i)
      PROVE  /\ hashes' = hashes + 1
             /\ \E entry : entry.hash = hashes + 1 /\ Made' \subseteq Made \cup {entry}
  <2> DEFINE entry == [id |-> counter[i] + 1, hash |-> hashes + 1,
                       prev |-> txn[i].prev, strong |-> TRUE]
  <2>1. UNCHANGED <<rows, sent>> /\ hashes' = hashes + 1 /\ entry.hash = hashes + 1
    BY <1>6 DEF Insert
  <2>2. txn'[i].entry = entry /\ \A j \in Instances : j # i => txn'[j] = txn[j]
    BY <1>1, <1>6 DEF Insert, Txn
  <2> HIDE DEF entry
  <2>3. Made' \subseteq Made \cup {entry}
    BY <2>1, <2>2 DEF Made, Inserting
  <2> QED
    BY <2>1, <2>3
<1>7. ASSUME NEW i \in Instances, appendEntry(i)
      PROVE  /\ hashes' = hashes + 1
             /\ \E entry : entry.hash = hashes + 1 /\ Made' \subseteq Made \cup {entry}
  <2> DEFINE entry == [id |-> counter[i] + 1, hash |-> hashes + 1,
                       prev |-> LastHash(ledger[i]), strong |-> FALSE]
  <2>1. /\ UNCHANGED <<rows, txn>> /\ sent' = sent \cup {entry}
        /\ hashes' = hashes + 1 /\ entry.hash = hashes + 1
    BY <1>7 DEF appendEntry
  <2> HIDE DEF entry
  <2> QED
    BY <2>1 DEF Made, Inserting
<1>8. ASSUME NEW entry \in sent, EntryDelivered(entry) \/ EntryLost(entry)
      PROVE  hashes' = hashes /\ Made' \subseteq Made
  <2>1. /\ UNCHANGED <<txn, hashes>> /\ sent' \subseteq sent
        /\ rows' \in {rows, rows \cup {[seq |-> nextSeq, entry |-> entry]}}
    BY <1>8 DEF EntryDelivered, EntryLost
  <2> QED
    BY <2>1 DEF Made, Inserting
<1> QED
  BY <1>2, <1>3, <1>4, <1>5, <1>6, <1>7, <1>8 DEF Next

LEMMA NextHashesNew == IInv /\ HashesNew /\ [Next]_vars => HashesNew'
<1> SUFFICES ASSUME IInv, HashesNew, [Next]_vars PROVE HashesNew'
  OBVIOUS
<1>1. hashes \in Nat /\ \A a \in Made : a.hash \in Nat
  BY DEF IInv, TypeOK, Made, Inserting, Row, Txn, Entry
<1>2. CASE hashes' = hashes /\ Made' \subseteq Made
  BY <1>2 DEF HashesNew
<1>3. ASSUME NEW entry, entry.hash = hashes + 1, Made' \subseteq Made \cup {entry},
             hashes' = hashes + 1
      PROVE  HashesNew'
  BY <1>1, <1>3 DEF HashesNew, LEDGER_GENESIS
<1> QED
  BY <1>2, <1>3, NextMade

-----------------------------------------------------------------------------
(* What was read stays the row to follow *)

\* Row last has the hash that was read, no linearized row is after it, and it is before the
\* limit, which is 0 for none.
LastRead(last, prev, limit) ==
  /\ last.entry.hash = prev
  /\ \A row \in rows : row.entry.strong => row.seq =< last.seq
  /\ limit > 0 => last.seq < limit

NoneLinearized == \A row \in rows : ~row.entry.strong

\* From the read to the end of the transaction, what was read is still the row to follow.
ReadStays ==
  \A i \in Instances : txn[i].phase \in {"read", "inserted", "pushed"} =>
    \/ \E last \in rows : LastRead(last, txn[i].prev, txn[i].seq)
    \/ NoneLinearized /\ txn[i].prev = LEDGER_GENESIS

LEMMA InitReadStays == Init => ReadStays
  BY IdleFacts DEF Init, ReadStays

\* The steps that leave the table alone.
LEMMA ReadStaysInMemory ==
  ASSUME IInv, ReadStays, rows' = rows, txn' \in [Instances -> Txn],
         \A i \in Instances : txn'[i].phase \in {"read", "inserted", "pushed"} =>
           \/ /\ txn[i].phase \in {"read", "inserted", "pushed"}
              /\ txn'[i].prev = txn[i].prev
              /\ txn'[i].seq \in {0, nextSeq, txn[i].seq}
           \/ /\ txn'[i].seq = 0
              /\ txn'[i].prev = IF rows = {} THEN LEDGER_GENESIS ELSE LastRow.entry.hash
  PROVE  ReadStays'
<1> SUFFICES ASSUME NEW i \in Instances, txn'[i].phase \in {"read", "inserted", "pushed"}
             PROVE  \/ \E last \in rows : LastRead(last, txn'[i].prev, txn'[i].seq)
                    \/ NoneLinearized /\ txn'[i].prev = LEDGER_GENESIS
  BY DEF ReadStays, LastRead, NoneLinearized
<1>1. \A row \in rows : row.seq \in Nat /\ row.seq < nextSeq
  BY DEF IInv, TypeOK, Row, SeqsDrawn
<1>2. CASE /\ txn[i].phase \in {"read", "inserted", "pushed"}
           /\ txn'[i].prev = txn[i].prev
           /\ txn'[i].seq \in {0, nextSeq, txn[i].seq}
  BY <1>1, <1>2 DEF ReadStays, LastRead
<1>3. CASE /\ txn'[i].seq = 0
           /\ txn'[i].prev = IF rows = {} THEN LEDGER_GENESIS ELSE LastRow.entry.hash
  BY <1>3, LastRowFacts DEF IInv, LastRead, NoneLinearized
<1> QED
  BY <1>2, <1>3

LEMMA NextReadStays == IInv /\ ReadStays /\ [Next]_vars => ReadStays'
<1> SUFFICES ASSUME IInv, ReadStays, [Next]_vars PROVE ReadStays'
  OBVIOUS
<1>1. txn \in [Instances -> Txn] /\ txn' \in [Instances -> Txn]
  BY NextIInv DEF IInv, TypeOK
<1>2. CASE UNCHANGED <<rows, txn>>
  BY <1>2 DEF ReadStays, LastRead, NoneLinearized
<1>3. ASSUME NEW i \in Instances,
             \/ Start(i) \/ StartUnseeded(i) \/ Crash(i) \/ Fail(i)
             \/ Call(i) \/ Lock(i) \/ ReadLast(i) \/ Insert(i) \/ Push(i)
      PROVE  ReadStays'
  <2>1. rows' = rows
    BY <1>3 DEF Start, StartUnseeded, Crash, Fail, Call, Lock, ReadLast, Insert, Push
  <2>2. \A j \in Instances : j # i => txn'[j] = txn[j]
    BY <1>1, <1>3 DEF Start, StartUnseeded, Crash, Fail, End, Call, Lock, ReadLast, Insert, Push
  <2>3. \/ txn'[i].phase \in {"down", "idle", "waiting", "locked"}
        \/ /\ txn[i].phase \in {"read", "inserted", "pushed"}
           /\ txn'[i].prev = txn[i].prev
           /\ txn'[i].seq \in {0, nextSeq, txn[i].seq}
        \/ /\ txn'[i].seq = 0
           /\ txn'[i].prev = IF rows = {} THEN LEDGER_GENESIS ELSE LastRow.entry.hash
    <3>1. CASE Start(i) \/ StartUnseeded(i) \/ Crash(i) \/ Fail(i)
      BY <1>1, <3>1, IdleFacts DEF Start, StartUnseeded, Crash, Fail, End
    <3>2. CASE Call(i) \/ Lock(i)
      BY <1>1, <3>2 DEF Call, Lock, Txn
    <3>3. CASE ReadLast(i)
      <4>1. txn[i].seq = 0
        BY <1>1, <3>3 DEF ReadLast, IInv, RowsWait, Txn
      <4> QED
        BY <1>1, <3>3, <4>1 DEF ReadLast, Txn
    <3>4. CASE Insert(i)
      BY <1>1, <3>4 DEF Insert, Txn
    <3>5. CASE Push(i)
      BY <1>1, <3>5 DEF Push, Txn
    <3> QED
      BY <1>3, <3>1, <3>2, <3>3, <3>4, <3>5
  <2> QED
    BY <1>1, <2>1, <2>2, <2>3, ReadStaysInMemory
<1>4. ASSUME NEW i \in Instances, Commit(i) \/ CommitUnanswered(i) PROVE ReadStays'
  <2>1. txn' = [txn EXCEPT ![i] = Idle] /\ txn[i].phase = "pushed"
    BY <1>4 DEF Commit, CommitUnanswered, End
  <2>2. \A j \in Instances : txn'[j].phase \notin {"read", "inserted", "pushed"}
    BY <1>1, <2>1, IdleFacts DEF IInv, HoldersLock, Holding
  <2> QED
    BY <2>2 DEF ReadStays
<1>5. ASSUME NEW entry \in sent, EntryDelivered(entry) PROVE ReadStays'
  <2> DEFINE row == [seq |-> nextSeq, entry |-> entry]
  <2>1. txn' = txn /\ rows' \in {rows, rows \cup {row}} /\ ~row.entry.strong
    BY <1>5 DEF EntryDelivered, IInv, BackgroundOnly
  <2> QED
    BY <2>1 DEF ReadStays, LastRead, NoneLinearized
<1>6. ASSUME NEW i \in Instances, appendEntry(i) PROVE ReadStays'
  BY <1>2, <1>6 DEF appendEntry
<1>7. ASSUME NEW entry \in sent, EntryLost(entry) PROVE ReadStays'
  BY <1>2, <1>7 DEF EntryLost
<1> QED
  BY <1>2, <1>3, <1>4, <1>5, <1>6, <1>7 DEF Next, vars

-----------------------------------------------------------------------------
(* The table implements AtomicLedger *)

\* A background INSERT is one AppendBackground, or nothing when its action id is taken.
LEMMA DeliveryIsAtomic ==
  ASSUME IInv, HashesNew, NEW entry \in sent, EntryDelivered(entry)
  PROVE  [Atomic!Next]_rows
<1> DEFINE row == [seq |-> nextSeq, entry |-> entry]
<1>1. rows' = rows \/ (rows' = rows \cup {row} /\ ~HasId(entry.id))
  BY DEF EntryDelivered
<1>2. ASSUME rows' = rows \cup {row}, ~HasId(entry.id)
      PROVE  Atomic!Next
  <2>1. \A other \in rows : other.seq < row.seq
    BY DEF IInv, SeqsDrawn
  <2>2. \A other \in rows : other.entry.id # row.entry.id
    BY <1>2 DEF HasId
  <2>3. /\ entry \in Made /\ entry.hash \in Nat
        /\ \A other \in rows : other.entry \in Made /\ other.entry.id # entry.id
    BY <2>2 DEF Made, IInv, TypeOK, Entry
  <2>4. Atomic!Fresh(row)
    BY <2>2, <2>3 DEF Atomic!Fresh, Atomic!Genesis, HashesNew, LEDGER_GENESIS
  <2>5. Atomic!AppendBackground(row)
    BY <1>2, <2>1 DEF Atomic!AppendBackground, IInv, BackgroundOnly
  <2>6. row \in rows' \ rows
    BY <1>2, <2>2
  <2> QED
    BY <2>4, <2>5, <2>6 DEF Atomic!Next
<1> QED
  BY <1>1, <1>2

\* A COMMIT is one AppendLinearized, or nothing when the INSERT found its action id taken.
LEMMA CommitIsAtomic ==
  ASSUME IInv, HashesNew, ReadStays, NEW i \in Instances, Commit(i) \/ CommitUnanswered(i)
  PROVE  [Atomic!Next]_rows
<1> DEFINE row == [seq |-> txn[i].seq, entry |-> txn[i].entry]
<1>1. rows' = rows \cup CommittedRow(i) /\ txn[i].phase = "pushed"
  BY DEF Commit, CommitUnanswered
<1>2. txn[i] \in Txn /\ txn[i].seq \in Nat
  BY DEF IInv, TypeOK, Txn
<1>3. CASE txn[i].seq = 0
  BY <1>1, <1>3 DEF CommittedRow
<1>4. CASE txn[i].seq > 0
  <2>1. rows' = rows \cup {row}
    BY <1>1, <1>4 DEF CommittedRow
  <2>2. \A other \in rows : other.seq # row.seq /\ other.entry.id # row.entry.id
    BY <1>4 DEF IInv, RowsWait
  <2>3. /\ row.entry \in Made /\ row.entry.hash \in Nat
        /\ \A other \in rows : other.entry \in Made
    BY <1>1, <1>2 DEF Made, Inserting, Txn, Entry
  <2>4. Atomic!Fresh(row)
    BY <2>2, <2>3 DEF Atomic!Fresh, Atomic!Genesis, HashesNew, LEDGER_GENESIS
  <2>5. row.entry.prev = txn[i].prev /\ row.entry.strong
    BY <1>1 DEF IInv, EntriesChained
  <2>6. \/ \E last \in rows : Atomic!IsBefore(last, row)
        \/ Atomic!Linearized = {} /\ row.entry.prev = Atomic!Genesis
    BY <1>1, <1>4, <2>5
    DEF ReadStays, LastRead, NoneLinearized, LEDGER_GENESIS,
        Atomic!IsBefore, Atomic!Linearized, Atomic!Genesis
  <2>7. Atomic!AppendLinearized(row)
    BY <2>1, <2>2, <2>5, <2>6 DEF Atomic!AppendLinearized
  <2>8. row \in rows' \ rows
    BY <2>1, <2>2
  <2> QED
    BY <2>4, <2>7, <2>8 DEF Atomic!Next
<1> QED
  BY <1>2, <1>3, <1>4

LEMMA NextIsAtomic == IInv /\ HashesNew /\ ReadStays /\ [Next]_vars => [Atomic!Next]_rows
<1> SUFFICES ASSUME IInv, HashesNew, ReadStays, [Next]_vars PROVE [Atomic!Next]_rows
  OBVIOUS
<1>1. CASE UNCHANGED rows
  BY <1>1
<1>2. ASSUME NEW i \in Instances,
             \/ Start(i) \/ StartUnseeded(i) \/ Crash(i) \/ appendEntry(i)
             \/ Call(i) \/ Lock(i) \/ ReadLast(i) \/ Insert(i) \/ Push(i) \/ Fail(i)
      PROVE  UNCHANGED rows
  BY <1>2 DEF Start, StartUnseeded, Crash, appendEntry, Call, Lock, ReadLast, Insert, Push, Fail
<1>3. ASSUME NEW entry \in sent, EntryLost(entry) PROVE UNCHANGED rows
  BY <1>3 DEF EntryLost
<1> QED
  BY <1>1, <1>2, <1>3, DeliveryIsAtomic, CommitIsAtomic DEF Next, vars

\* Under any interleaving, lost and late INSERTs, failed transactions and crashes, each step of
\* the system is one step of AtomicLedger or leaves the table as it was: a linearized append
\* reads the row it follows and commits as if nothing ran in between, and no row is ever
\* changed or removed.
THEOREM LedgerIsAtomic == Spec => ImplementsAtomicLedger
<1>1. Init => Atomic!Init
  BY DEF Init, Atomic!Init
<1> QED
  BY <1>1, InvarianceOfIInv, InitHashesNew, NextHashesNew, InitReadStays, NextReadStays,
     NextIsAtomic, PTL
  DEF Spec, ImplementsAtomicLedger, Atomic!Spec

-----------------------------------------------------------------------------
(* Where "exactly-once" is true *)

\* The ids of the only instance are those it counted, and its INSERTs find them unused.
CountedAlone ==
  \A i \in Instances :
    /\ \A row \in rows : row.entry.id =< counter[i]
    /\ \A entry \in sent : entry.id =< counter[i]
    /\ ~Up(i) => rows = {} /\ sent = {}
    /\ txn[i].phase \in {"inserted", "pushed"} =>
         txn[i].seq > 0 /\ txn[i].entry.id =< counter[i]

NoCrash == ~\E i \in Instances : Crash(i)

LEMMA InitCountedAlone == Init => CountedAlone /\ AnsweredIsRecorded
  BY IdleFacts DEF Init, CountedAlone, AnsweredIsRecorded

LEMMA NextCountedAlone ==
  ASSUME \A i, j \in Instances : i = j
  PROVE  IInv /\ CountedAlone /\ AnsweredIsRecorded /\ [Next]_vars /\ [NoCrash]_vars
           => CountedAlone' /\ AnsweredIsRecorded'
<1> SUFFICES ASSUME IInv, CountedAlone, AnsweredIsRecorded, [Next]_vars, [NoCrash]_vars
             PROVE  CountedAlone' /\ AnsweredIsRecorded'
  OBVIOUS
<1>1. /\ txn \in [Instances -> Txn] /\ counter \in [Instances -> Nat]
      /\ nextSeq \in Nat /\ nextSeq > 0
  BY DEF IInv, TypeOK, SeqsDrawn
<1>2. /\ \A row \in rows : row \in Row /\ row.entry \in Entry /\ row.entry.id \in Nat
      /\ \A entry \in sent : entry \in Entry /\ entry.id \in Nat
      /\ \A i \in Instances : txn[i].entry \in Entry /\ txn[i].entry.id \in Nat
  BY DEF IInv, TypeOK, Row, Entry, Txn
<1>3. CASE UNCHANGED vars
  BY <1>3 DEF vars, CountedAlone, AnsweredIsRecorded, Up
<1>4. ASSUME NEW i \in Instances, Start(i) \/ StartUnseeded(i) \/ Fail(i)
      PROVE  CountedAlone' /\ AnsweredIsRecorded'
  <2>1. txn' = [txn EXCEPT ![i] = Idle] /\ UNCHANGED <<rows, sent, answered>>
    BY <1>4 DEF Start, StartUnseeded, Fail, End
  <2>2. txn'[i].phase = "idle"
    BY <1>1, <2>1, IdleFacts
  <2>3. (rows = {} /\ sent = {}) \/ counter' = counter
    BY <1>4 DEF Start, StartUnseeded, Fail, CountedAlone
  <2> QED
    BY <2>1, <2>2, <2>3 DEF CountedAlone, AnsweredIsRecorded, Up
<1>5. ASSUME NEW i \in Instances, Call(i) \/ Lock(i) \/ ReadLast(i) \/ Push(i)
      PROVE  CountedAlone' /\ AnsweredIsRecorded'
  <2>1. UNCHANGED <<rows, sent, answered, counter>>
    BY <1>5 DEF Call, Lock, ReadLast, Push
  <2>2. /\ txn[i].phase # "down" /\ txn'[i].phase # "down"
        /\ txn'[i].entry = txn[i].entry /\ txn'[i].seq = txn[i].seq
        /\ txn'[i].phase \in {"inserted", "pushed"} => txn[i].phase \in {"inserted", "pushed"}
    BY <1>1, <1>5 DEF Call, Lock, ReadLast, Push, Txn
  <2> QED
    BY <2>1, <2>2 DEF CountedAlone, AnsweredIsRecorded, Up
<1>6. ASSUME NEW i \in Instances, Insert(i) PROVE CountedAlone' /\ AnsweredIsRecorded'
  <2>1. UNCHANGED <<rows, sent, answered>> /\ counter' = [counter EXCEPT ![i] = @ + 1]
    BY <1>6 DEF Insert
  <2>2. ~HasId(counter[i] + 1)
    BY <1>1, <1>2 DEF CountedAlone, HasId
  <2>3. /\ txn'[i].phase = "inserted"
        /\ txn'[i].entry.id = counter[i] + 1 /\ txn'[i].seq = nextSeq
    BY <1>1, <1>6, <2>2 DEF Insert, Txn
  <2>4. counter'[i] = counter[i] + 1
    BY <1>1, <2>1
  <2>5. CountedAlone'
    BY <1>1, <1>2, <2>1, <2>3, <2>4 DEF CountedAlone, Up
  <2> QED
    BY <2>1, <2>5 DEF AnsweredIsRecorded
<1>7. ASSUME NEW i \in Instances, appendEntry(i) PROVE CountedAlone' /\ AnsweredIsRecorded'
  <2>1. PICK entry :
          /\ UNCHANGED <<rows, txn, answered>> /\ counter' = [counter EXCEPT ![i] = @ + 1]
          /\ sent' = sent \cup {entry} /\ entry.id = counter[i] + 1 /\ Up(i)
    BY <1>7 DEF appendEntry
  <2>2. counter'[i] = counter[i] + 1
    BY <1>1, <2>1
  <2>3. CountedAlone'
    BY <1>1, <1>2, <2>1, <2>2 DEF CountedAlone, Up
  <2> QED
    BY <2>1, <2>3 DEF AnsweredIsRecorded
<1>8. ASSUME NEW i \in Instances, Commit(i) \/ CommitUnanswered(i)
      PROVE  CountedAlone' /\ AnsweredIsRecorded'
  <2> DEFINE own == [seq |-> txn[i].seq, entry |-> txn[i].entry]
  <2>1. /\ UNCHANGED <<sent, counter>> /\ txn' = [txn EXCEPT ![i] = Idle]
        /\ answered' \subseteq answered \cup {txn[i].entry}
        /\ txn[i].phase = "pushed"
    BY <1>8 DEF Commit, CommitUnanswered, End
  <2>2. txn[i].seq > 0 /\ txn[i].entry.id =< counter[i]
    BY <2>1 DEF CountedAlone
  <2>3. rows' = rows \cup {own} /\ own.entry = txn[i].entry
    BY <1>8, <2>2 DEF Commit, CommitUnanswered, CommittedRow
  <2>4. txn'[i].phase = "idle"
    BY <1>1, <2>1, IdleFacts
  <2>5. CountedAlone'
    BY <2>1, <2>2, <2>3, <2>4 DEF CountedAlone, Up
  <2> QED
    BY <2>1, <2>3, <2>5 DEF AnsweredIsRecorded
<1>9. ASSUME NEW entry \in sent, EntryDelivered(entry) \/ EntryLost(entry)
      PROVE  CountedAlone' /\ AnsweredIsRecorded'
  <2>1. /\ UNCHANGED <<txn, counter, answered>> /\ sent' \subseteq sent
        /\ rows' \in {rows, rows \cup {[seq |-> nextSeq, entry |-> entry]}}
    BY <1>9 DEF EntryDelivered, EntryLost
  <2> QED
    BY <2>1 DEF CountedAlone, AnsweredIsRecorded, Up
<1>10. vars' # vars => ~\E i \in Instances : Crash(i)
  BY DEF NoCrash
<1> QED
  BY <1>3, <1>4, <1>5, <1>6, <1>7, <1>8, <1>9, <1>10 DEF Next

\* What operator-ledger.js:296 says of every append is true of an instance that has the
\* database for itself and does not restart, whatever else fails: the entry a linearized append
\* returns is in the table.  The ids of a second instance, or those counted before a restart,
\* are what it takes to break it.
THEOREM RecordedWhenAlone ==
  ASSUME \A i, j \in Instances : i = j
  PROVE  Spec /\ [][NoCrash]_vars => []AnsweredIsRecorded
  BY InvarianceOfIInv, InitCountedAlone, NextCountedAlone, PTL DEF Spec

=============================================================================
