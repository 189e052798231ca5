----------------------------- MODULE AtomicLedger -----------------------------
(***************************************************************************)
(* What table operator_ledger_entries promises to its readers, whatever    *)
(* the number of backend instances, late inserts, failures and restarts    *)
(* behind it (src/lib/operator-ledger.js:280-298): rows are only added,    *)
(* one at a time, and a linearized row is added as if the read of the row  *)
(* it follows and its own commit were one step.  OperatorLedger is shown   *)
(* to implement this specification.                                        *)
(***************************************************************************)
EXTENDS Integers

VARIABLE rows      \* committed rows, as in OperatorLedger

Genesis == 0       \* the hash that a first entry follows

Linearized == {row \in rows : row.entry.strong}

\* Neither the action id nor the hash of the row is that of another one.
Fresh(row) ==
  /\ row.entry.hash # Genesis
  /\ \A other \in rows : other.entry.id # row.entry.id /\ other.entry.hash # row.entry.hash

\* A row of appendEntry() comes after all others.
AppendBackground(row) ==
  /\ ~row.entry.strong
  /\ \A other \in rows : other.seq < row.seq
  /\ rows' = rows \cup {row}

\* The row that a linearized one follows: no linearized row is between them.
IsBefore(last, row) ==
  /\ last.entry.hash = row.entry.prev
  /\ last.seq < row.seq
  /\ \A other \in Linearized : other.seq =< last.seq

\* A row of appendEntryLinearized() comes after all linearized ones and follows the last of
\* them, a later background row, or nothing when there is no linearized row yet.
AppendLinearized(row) ==
  /\ row.entry.strong
  /\ \A other \in rows : other.seq # row.seq
  /\ \/ \E last \in rows : IsBefore(last, row)
     \/ Linearized = {} /\ row.entry.prev = Genesis
  /\ rows' = rows \cup {row}

Init == rows = {}

Next == \E row \in rows' \ rows : Fresh(row) /\ (AppendBackground(row) \/ AppendLinearized(row))

Spec == Init /\ [][Next]_rows
=============================================================================
