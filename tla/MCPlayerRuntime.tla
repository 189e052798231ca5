--------------------------- MODULE MCPlayerRuntime ---------------------------
(* Two assets, hence four corpora; the factory snapshot was never written (nothing *)
(* in src/ calls writeFactory() but a test).                                        *)
EXTENDS PlayerRuntime

CONSTANTS a1, a2

MCAssets == {a1, a2}
MCFirstCorpora == {{a1}, {a1, a2}}
MCFactory == NoCorpus

\* One of everything; a corpus replaced and published again around a rollback; a late
\* answer to FORCE_SYNC and then a rollback.
One == [publishes |-> 1, faults |-> 1, restarts |-> 1, commands |-> 1]
Withdrawn == [publishes |-> 2, faults |-> 0, restarts |-> 0, commands |-> 1]
LateThenRollback == [publishes |-> 1, faults |-> 0, restarts |-> 0, commands |-> 2]

MCBudgets == {One, Withdrawn, LateThenRollback}
MCOne == {One}

=============================================================================
