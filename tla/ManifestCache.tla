--------------------------- MODULE ManifestCache ---------------------------
(***************************************************************************)
(* The manifest of one screen: getManifest() and computeManifest() of      *)
(* src/lib/manifestEngine.js, the row of table manifest_cache they share,  *)
(* the cache busts of routes/schedules.js and routes/content.js, and the   *)
(* connection pool of src/db.js.                                           *)
(*                                                                         *)
(* A request reads the schedules and contents outside of the transaction,  *)
(* locks the cache row if there is one, takes a second connection to       *)
(* increment manifest_generation when the content changed, and upserts.    *)
(* The upsert and COMMIT are one step: until COMMIT an inserted row is     *)
(* invisible to every SELECT and DELETE, and an updated one is locked.     *)
(*                                                                         *)
(* Abstracted: what the schedules make the screen show is one value, read  *)
(* at once, and two values never share a checksum; time is the expiry of   *)
(* CACHE_TTL_MS; valid_until and the OTA part of the reply are left out.   *)
(* The connections of the edits are not counted against the pool.          *)
(***************************************************************************)
EXTENDS Integers, FiniteSets

CONSTANTS Requests,     \* polls of this screen that may run at the same time
          Contents,     \* what the schedules can make the screen show
          NoContent,    \* not a content
          NoRequest,    \* not a request
          PoolSize,     \* connections of the pool
          MaxEdits,     \* bound: changes of the content
          MaxFaults     \* bound: transactions that fail

ASSUME ManifestAssumption == /\ NoContent \notin Contents
                             /\ NoRequest \notin Requests
                             /\ PoolSize \in Nat \ {0}
                             /\ MaxEdits \in Nat
                             /\ MaxFaults \in Nat

VARIABLES content,    \* what the screen should show
          cache,      \* its row of manifest_cache
          lock,       \* the request whose transaction has locked that row
          generation, \* manifest_generation of governance_state
          req,        \* where each request is
          served,     \* the content of the last reply
          edit,       \* the edit under way
          edits,      \* how many changes there were
          faults,     \* how many transactions failed
          excused     \* history: the row may be stale, for a reason of the code's design

vars == <<content, cache, lock, generation, req, served, edit, edits, faults, excused>>

-----------------------------------------------------------------------------
(* States *)

\* fresh: computed_at is less than CACHE_TTL_MS ago.
NoRow == [content |-> NoContent, version |-> 0, fresh |-> FALSE]
Row == [content : Contents \cup {NoContent}, version : Nat, fresh : BOOLEAN]

\* reading: the cache was of no use; connecting: has read the content; begun: BEGIN;
\* counting: waits for incrementManifestGeneration(); writing: the version is known.
Phases == {"idle", "reading", "connecting", "begun", "counting", "writing"}

\* found is the row SELECT ... FOR UPDATE returned.
Request == [phase : Phases, seen : Contents \cup {NoContent}, found : Row]
Idle == [phase |-> "idle", seen |-> NoContent, found |-> NoRow]

TypeOK == /\ content \in Contents
          /\ cache \in Row
          /\ cache.version = 0 <=> cache.content = NoContent
          /\ lock \in Requests \cup {NoRequest}
          /\ generation \in Nat
          /\ req \in [Requests -> Request]
          /\ served \in Contents \cup {NoContent}
          /\ edit \in {"none", "changed", "busted"}
          /\ edits \in Nat
          /\ faults \in Nat
          /\ excused \in BOOLEAN

Init == /\ content \in Contents
        /\ cache = NoRow
        /\ lock = NoRequest
        /\ generation = 0
        /\ req = [r \in Requests |-> Idle]
        /\ served = NoContent
        /\ edit = "none"
        /\ edits = 0
        /\ faults = 0
        /\ excused = FALSE

Cached == cache # NoRow

InTransaction(r) == req[r].phase \in {"begun", "counting", "writing"}

\* A connection of the pool is free.
Free == Cardinality({r \in Requests : InTransaction(r)}) < PoolSize

\* The transaction of r ends, and its connection goes back to the pool.
End(r) == /\ lock' = IF lock = r THEN NoRequest ELSE lock
          /\ req' = [req EXCEPT ![r] = Idle]

-----------------------------------------------------------------------------
(* getManifest() *)

\* Mutant: the age of a cached manifest is not looked at.
FreshForEver == Cached

Fresh == Cached /\ cache.fresh

Serve(r) ==
  /\ req[r].phase = "idle"
  /\ Free
  /\ Fresh
  /\ served' = cache.content
  /\ UNCHANGED <<content, cache, lock, generation, req, edit, edits, faults, excused>>

Miss(r) ==
  /\ req[r].phase = "idle"
  /\ Free
  /\ ~Fresh
  /\ req' = [req EXCEPT ![r].phase = "reading"]
  /\ UNCHANGED <<content, cache, lock, generation, served, edit, edits, faults, excused>>

-----------------------------------------------------------------------------
(* computeManifest() *)

ReadContent(r) ==
  /\ req[r].phase = "reading"
  /\ Free
  /\ req' = [req EXCEPT ![r].phase = "connecting", ![r].seen = content]
  /\ UNCHANGED <<content, cache, lock, generation, served, edit, edits, faults, excused>>

Connect(r) ==
  /\ req[r].phase = "connecting"
  /\ Free
  /\ req' = [req EXCEPT ![r].phase = "begun"]
  /\ UNCHANGED <<content, cache, lock, generation, served, edit, edits, faults, excused>>

\* Mutant: SELECT without FOR UPDATE.
LockRowPlain(r) ==
  /\ req[r].phase = "begun"
  /\ req' = [req EXCEPT ![r].found = cache,
                        ![r].phase = IF Cached /\ cache.content # req[r].seen
                                     THEN "counting" ELSE "writing"]
  /\ UNCHANGED <<content, cache, lock, generation, served, edit, edits, faults, excused>>

\* SELECT version, checksum ... FOR UPDATE: without a row it neither waits nor locks.
LockRow(r) ==
  /\ req[r].phase = "begun"
  /\ Cached => lock = NoRequest
  /\ lock' = IF Cached THEN r ELSE lock
  /\ req' = [req EXCEPT ![r].found = cache,
                        ![r].phase = IF Cached /\ cache.content # req[r].seen
                                     THEN "counting" ELSE "writing"]
  /\ UNCHANGED <<content, cache, generation, served, edit, edits, faults, excused>>

\* Mutant: the increment is sent off and lost.
CountInBackground(r) ==
  /\ req[r].phase = "counting"
  /\ req' = [req EXCEPT ![r].phase = "writing"]
  /\ UNCHANGED <<content, cache, lock, generation, served, edit, edits, faults, excused>>

\* incrementManifestGeneration(), on a connection of its own.
Count(r) ==
  /\ req[r].phase = "counting"
  /\ Free
  /\ generation' = generation + 1
  /\ req' = [req EXCEPT ![r].phase = "writing"]
  /\ UNCHANGED <<content, cache, lock, served, edit, edits, faults, excused>>

\* Mutant: versions count from zero.
NextVersionFromZero(found, seen) ==
  IF found = NoRow THEN 0 ELSE IF found.content # seen THEN found.version + 1
  ELSE found.version

NextVersion(found, seen) ==
  IF found = NoRow THEN 1
  ELSE IF found.content # seen THEN found.version + 1
  ELSE found.version

\* The upsert waits for a lock another transaction holds.
Commit(r) ==
  /\ req[r].phase = "writing"
  /\ lock \in {r, NoRequest}
  /\ cache' = [content |-> req[r].seen, version |-> NextVersion(req[r].found, req[r].seen),
               fresh |-> TRUE]
  /\ served' = req[r].seen
  /\ excused' = (req[r].seen # content)
  /\ End(r)
  /\ UNCHANGED <<content, generation, edit, edits, faults>>

\* A query of the transaction fails, or its connection: ROLLBACK, release(err), 500.
Fail(r) ==
  /\ InTransaction(r)
  /\ faults < MaxFaults
  /\ faults' = faults + 1
  /\ End(r)
  /\ UNCHANGED <<content, cache, generation, served, edit, edits, excused>>

\* Mutant: a caller that found no connection in time queues again.
TimeOutRetries(r) ==
  /\ req[r].phase \in {"reading", "connecting", "counting"}
  /\ ~Free
  /\ UNCHANGED vars

\* connectionTimeoutMillis passes without a free connection.
TimeOut(r) ==
  /\ req[r].phase \in {"reading", "connecting", "counting"}
  /\ ~Free
  /\ End(r)
  /\ UNCHANGED <<content, cache, generation, served, edit, edits, faults, excused>>

-----------------------------------------------------------------------------
(* Time and edits *)

\* CACHE_TTL_MS passes.
Expire ==
  /\ Cached
  /\ cache.fresh
  /\ cache' = [cache EXCEPT !.fresh = FALSE]
  /\ UNCHANGED <<content, lock, generation, req, served, edit, edits, faults, excused>>

Change(to) ==
  /\ edits < MaxEdits
  /\ to # content
  /\ content' = to
  /\ edits' = edits + 1

\* DELETE FROM manifest_cache, which waits for the row.
Bust ==
  /\ lock = NoRequest
  /\ cache' = NoRow
  /\ excused' = FALSE

\* POST and DELETE /schedules, PATCH /content: the change, and then the bust.
EditChange ==
  /\ edit = "none"
  /\ \E to \in Contents : Change(to)
  /\ edit' = "changed"
  /\ UNCHANGED <<cache, lock, generation, req, served, faults, excused>>

\* Mutant: the DELETE names another screen.
EditBustElsewhere ==
  /\ edit = "changed"
  /\ edit' = "none"
  /\ UNCHANGED <<content, cache, lock, generation, req, served, edits, faults, excused>>

EditBust ==
  /\ edit = "changed"
  /\ Bust
  /\ edit' = "none"
  /\ UNCHANGED <<content, lock, generation, req, served, edits, faults>>

\* The bust fails: the change stays, and the operator reads 500.
EditFails ==
  /\ edit = "changed"
  /\ faults < MaxFaults
  /\ faults' = faults + 1
  /\ edit' = "none"
  /\ excused' = TRUE
  /\ UNCHANGED <<content, cache, lock, generation, req, served, edits>>

\* DELETE /content/:id: the bust, and then the change.
DeleteBust ==
  /\ edit = "none"
  /\ Bust
  /\ edit' = "busted"
  /\ UNCHANGED <<content, lock, generation, req, served, edits, faults>>

\* A row written since the bust is stale from now on.
DeleteChange ==
  /\ edit = "busted"
  /\ \E to \in Contents : Change(to)
  /\ edit' = "none"
  /\ excused' = TRUE
  /\ UNCHANGED <<cache, lock, generation, req, served, faults>>

\* The DELETE of the content fails: the bust was in vain.
DeleteFails ==
  /\ edit = "busted"
  /\ faults < MaxFaults
  /\ faults' = faults + 1
  /\ edit' = "none"
  /\ UNCHANGED <<content, cache, lock, generation, req, served, edits, excused>>

\* A schedule window opens or closes, content expires, or a schedule for a screen group or
\* for all screens changes: nothing is busted.
SilentChange ==
  /\ \E to \in Contents : Change(to)
  /\ excused' = TRUE
  /\ UNCHANGED <<cache, lock, generation, req, served, edit, faults>>

Next ==
  \/ \E r \in Requests :
       \/ Serve(r) \/ Miss(r) \/ ReadContent(r) \/ Connect(r) \/ LockRow(r) \/ Count(r)
       \/ Commit(r) \/ Fail(r) \/ TimeOut(r)
  \/ Expire
  \/ EditChange \/ EditBust \/ EditFails \/ DeleteBust \/ DeleteChange \/ DeleteFails
  \/ SilentChange

\* A screen polls for ever; the row lock and the pool serve their waiters in the order of
\* arrival, so a request that waits for either is not overtaken for ever; time passes.
\* Edits and faults need not happen.
Fairness ==
  /\ \A r \in Requests :
       /\ WF_vars(Serve(r) \/ Miss(r))
       /\ SF_vars(ReadContent(r) \/ Connect(r) \/ LockRow(r) \/ Commit(r))
       /\ SF_vars(Count(r))
  /\ WF_vars(\E r \in Requests : TimeOut(r))
  /\ WF_vars(Expire)

Spec == Init /\ [][Next]_vars

FairSpec == Spec /\ Fairness

-----------------------------------------------------------------------------
(* Properties *)

\* Nobody changes or deletes the row a transaction has decided its version from: neither
\* another computation nor a cache bust (SELECT ... FOR UPDATE, manifestEngine.js:280).
LockedRowKept ==
  \A r \in Requests :
    req[r].phase \in {"counting", "writing"} /\ req[r].found # NoRow =>
      cache.version = req[r].found.version /\ cache.content = req[r].found.content

\* Every change of the manifest that shows in its version was given a generation first,
\* so the quorum of fleet-consensus.js never misses one.
GenerationCoversVersion == cache.version =< generation + 1

\* Once an edit is answered the cached manifest is what the screen should show, unless a
\* computation that read the content before the edit was written after the bust, the bust
\* came before the change, or nothing was busted.
BustsWork == Cached /\ edit # "changed" /\ ~excused => cache.content = content

\* When the edits end, the screen ends up with the current content, whatever was cached,
\* lost or raced (no stale row outlives CACHE_TTL_MS), unless polls keep timing out for ever:
\* when the row lock is held by one that waits for a connection, all may time out in turn.
Converges == \/ []<><<\E r \in Requests : TimeOut(r)>>_vars
             \/ <>[](served = content)

\* Every poll is answered, also when the requests that wait for the row lock hold all the
\* connections the holder of the lock needs one of.
RequestsAnswered == \A r \in Requests : req[r].phase # "idle" ~> req[r].phase = "idle"

\* The lock of the row is always that of a computation under way which found it: no failure,
\* time-out or bust leaves the row locked by nobody.
RowLockIsLive ==
  \A r \in Requests :
    lock = r <=> req[r].phase \in {"counting", "writing"} /\ req[r].found # NoRow

\* A cached row that is written over keeps its version when its content stays and gets the
\* next one when it changes, unless the computation found no row, and so had nothing to lock.
VersionNamesContent ==
  [][Cached /\ Cached' =>
       \/ cache'.version = cache.version /\ cache'.content = cache.content
       \/ cache'.version = cache.version + 1 /\ cache'.content # cache.content
       \/ \E r \in Requests : req[r].found = NoRow /\ Commit(r)]_vars

\* manifestEngine.js:284 "worse, where one overwrites a valid increment with a stale version
\* number": the version of a cached manifest is never overwritten by a smaller one.
VersionNeverRegresses == [][Cached /\ Cached' => cache'.version >= cache.version]_vars
=============================================================================
