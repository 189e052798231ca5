------------------------ MODULE ManifestCacheProofs ------------------------
(***************************************************************************)
(* Proofs about ManifestCache, for any number of polls, contents,          *)
(* connections, edits and failures.  The version of a row and the          *)
(* generation that covers it are decided in one step and written in        *)
(* another; what carries the proofs from the one to the other is the row   *)
(* lock: IInv says that a computation that found a row still holds it, and *)
(* that the row is still what it found.                                    *)
(***************************************************************************)
EXTENDS ManifestCache, TLAPS

\* A computation that found a row and has not ended yet.
Holds(r) == req[r].phase \in {"counting", "writing"} /\ req[r].found # NoRow

Sound(row) == row = NoRow \/ (row.version > 0 /\ row.content \in Contents)

Locks == \A r \in Requests :
           Holds(r) => /\ lock = r
                       /\ cache # NoRow
                       /\ cache.version = req[r].found.version
                       /\ cache.content = req[r].found.content

Holder == lock # NoRequest => Holds(lock)

Rows == Sound(cache) /\ \A r \in Requests : Sound(req[r].found)

Seen == \A r \in Requests :
          req[r].phase \in {"connecting", "begun", "counting", "writing"} =>
            req[r].seen \in Contents

Counting == \A r \in Requests :
              req[r].phase = "counting" =>
                req[r].found # NoRow /\ req[r].found.content # req[r].seen

Covered == /\ cache.version =< generation + 1
           /\ \A r \in Requests :
                req[r].phase = "writing" =>
                  NextVersion(req[r].found, req[r].seen) =< generation + 1

\* The inductive invariant: the properties of the runs, and what the locks protect.
IInv == TypeOK /\ Locks /\ Holder /\ Rows /\ Seen /\ Counting /\ Covered /\ BustsWork

\* A row in which something was found has a version and a content.
LEMMA NoRowFacts == /\ NoRow \in Row
                    /\ NoRow.version = 0
                    /\ NoRow.content = NoContent
                    /\ NoRow.fresh = FALSE
  BY DEF NoRow, Row

\* The version that a computation writes is positive.
LEMMA NextVersionPositive ==
  ASSUME NEW found \in Row, Sound(found), NEW seen
  PROVE  NextVersion(found, seen) \in Nat \ {0}
  BY DEF NextVersion, Sound, Row

\* The initial states satisfy the invariant.
LEMMA InitIInv == Init => IInv
<1> SUFFICES ASSUME Init PROVE IInv
  OBVIOUS
<1> USE ManifestAssumption
<1>1. cache = NoRow /\ lock = NoRequest /\ generation = 0
  BY DEF Init
<1>2. \A r \in Requests : req[r] = Idle
  BY DEF Init
<1>3. Idle \in Request /\ Idle.phase = "idle" /\ Idle.found = NoRow
  BY NoRowFacts DEF Idle, Request, Phases
<1>4. TypeOK
  BY NoRowFacts, <1>3 DEF Init, TypeOK
<1>5. Locks /\ Holder
  BY <1>1, <1>2, <1>3 DEF Locks, Holder, Holds
<1>6. Rows /\ Seen /\ Counting
  BY <1>1, <1>2, <1>3 DEF Rows, Seen, Counting, Sound
<1>7. Covered /\ BustsWork
  BY <1>1, <1>2, <1>3, NoRowFacts DEF Covered, BustsWork, Cached
<1> QED
  BY <1>4, <1>5, <1>6, <1>7 DEF IInv

-----------------------------------------------------------------------------
(* One lemma for each kind of step *)

\* The steps before the transaction move a request on and touch nothing that is shared.
LEMMA EarlyStep ==
  ASSUME IInv, NEW r \in Requests, Serve(r) \/ Miss(r) \/ ReadContent(r) \/ Connect(r)
  PROVE  IInv'
<1> USE DEF IInv
<1>1. CASE Serve(r)
  <2>1. served' \in Contents \cup {NoContent}
    BY <1>1 DEF Serve, TypeOK, Row
  <2>2. UNCHANGED <<content, cache, lock, generation, req, edit, edits, faults, excused>>
    BY <1>1 DEF Serve
  <2>3. TypeOK'
    BY <2>1, <2>2 DEF TypeOK
  <2> QED
    BY <2>2, <2>3
    DEF Locks, Holder, Holds, Rows, Sound, Seen, Counting, Covered, BustsWork, Cached
<1>2. CASE Miss(r) \/ ReadContent(r) \/ Connect(r)
  <2>1. UNCHANGED <<content, cache, lock, generation, served, edit, edits, faults, excused>>
    BY <1>2 DEF Miss, ReadContent, Connect
  <2>2. PICK q \in Request :
          /\ req' = [req EXCEPT ![r] = q]
          /\ q.phase \in {"reading", "connecting", "begun"}
          /\ q.found = req[r].found
          /\ q.phase # "reading" => q.seen \in Contents
    <3>1. req[r] \in Request /\ content \in Contents
      BY DEF TypeOK
    <3>2. CASE Miss(r)
      <4> DEFINE q == [req[r] EXCEPT !.phase = "reading"]
      <4>1. q \in Request /\ q.phase = "reading" /\ q.found = req[r].found
        BY <3>1 DEF Request, Phases
      <4>2. req' = [req EXCEPT ![r] = q]
        BY <3>2 DEF Miss
      <4> QED
        BY <4>1, <4>2
    <3>3. CASE ReadContent(r)
      <4> DEFINE q == [req[r] EXCEPT !.phase = "connecting", !.seen = content]
      <4>1. /\ q \in Request /\ q.phase = "connecting"
            /\ q.found = req[r].found /\ q.seen \in Contents
        BY <3>1 DEF Request, Phases
      <4>2. req' = [req EXCEPT ![r] = q]
        BY <3>3 DEF ReadContent
      <4> QED
        BY <4>1, <4>2
    <3>4. CASE Connect(r)
      <4> DEFINE q == [req[r] EXCEPT !.phase = "begun"]
      <4>1. /\ q \in Request /\ q.phase = "begun"
            /\ q.found = req[r].found /\ q.seen \in Contents
        BY <3>1, <3>4 DEF Request, Phases, Connect, Seen
      <4>2. req' = [req EXCEPT ![r] = q]
        BY <3>4 DEF Connect
      <4> QED
        BY <4>1, <4>2
    <3> QED
      BY <1>2, <3>2, <3>3, <3>4
  <2>3. req'[r] = q /\ \A s \in Requests : s # r => req'[s] = req[s]
    BY <2>2 DEF TypeOK
  <2>4. req[r].phase \notin {"counting", "writing"}
    BY <1>2 DEF Miss, ReadContent, Connect
  <2>5. TypeOK'
    BY <2>1, <2>2 DEF TypeOK
  <2>6. Locks' /\ Holder'
    BY <2>1, <2>2, <2>3, <2>4 DEF Locks, Holder, Holds, TypeOK
  <2>7. Rows' /\ Seen' /\ Counting'
    BY <2>1, <2>2, <2>3 DEF Rows, Sound, Seen, Counting
  <2>8. Covered' /\ BustsWork'
    BY <2>1, <2>2, <2>3 DEF Covered, BustsWork, Cached, NextVersion
  <2> QED
    BY <2>5, <2>6, <2>7, <2>8
<1> QED
  BY <1>1, <1>2

\* A computation that finds a row locks it; one that finds none has nothing to protect.
LEMMA LockRowStep == ASSUME IInv, NEW r \in Requests, LockRow(r) PROVE IInv'
<1> USE DEF IInv
<1> DEFINE p == IF Cached /\ cache.content # req[r].seen THEN "counting" ELSE "writing"
           q == [req[r] EXCEPT !.found = cache, !.phase = p]
<1>1. /\ UNCHANGED <<content, cache, generation, served, edit, edits, faults, excused>>
      /\ lock' = IF Cached THEN r ELSE lock
      /\ Cached => lock = NoRequest
      /\ req[r].phase = "begun"
  BY DEF LockRow
<1>2. req' = [req EXCEPT ![r] = q]
  BY DEF LockRow
<1>3. req[r] \in Request /\ cache \in Row /\ req[r].seen \in Contents
  BY <1>1 DEF TypeOK, Seen
<1>4. /\ q \in Request /\ q.found = cache /\ q.seen = req[r].seen
      /\ q.phase \in {"counting", "writing"}
      /\ q.phase = "counting" => Cached /\ cache.content # q.seen
      /\ q.phase = "writing" => ~Cached \/ cache.content = q.seen
  BY <1>3 DEF Request, Phases
<1> HIDE DEF q, p
<1>5. req'[r] = q /\ \A s \in Requests : s # r => req'[s] = req[s]
  BY <1>2 DEF TypeOK
<1>6. TypeOK'
  BY <1>1, <1>2, <1>4 DEF TypeOK
<1>7. Locks' /\ Holder'
  <2>1. CASE Cached
    BY <2>1, <1>1, <1>4, <1>5, ManifestAssumption DEF Locks, Holder, Holds, Cached
  <2>2. CASE ~Cached
    BY <2>2, <1>1, <1>4, <1>5 DEF Locks, Holder, Holds, Cached, TypeOK
  <2> QED
    BY <2>1, <2>2
<1>8. Rows' /\ Seen' /\ Counting'
  BY <1>1, <1>3, <1>4, <1>5 DEF Rows, Sound, Seen, Counting, Cached
<1>9. Covered' /\ BustsWork'
  <2>1. q.phase = "writing" => NextVersion(q.found, q.seen) =< generation + 1
    BY <1>4 DEF NextVersion, Cached, Covered, TypeOK
  <2> QED
    BY <2>1, <1>1, <1>5 DEF Covered, BustsWork, Cached, NextVersion
<1> QED
  BY <1>6, <1>7, <1>8, <1>9

\* The generation goes up before the version it covers is written.
LEMMA CountStep == ASSUME IInv, NEW r \in Requests, Count(r) PROVE IInv'
<1> USE DEF IInv
<1> DEFINE q == [req[r] EXCEPT !.phase = "writing"]
<1>1. /\ UNCHANGED <<content, cache, lock, served, edit, edits, faults, excused>>
      /\ generation' = generation + 1
      /\ req[r].phase = "counting"
  BY DEF Count
<1>2. req' = [req EXCEPT ![r] = q]
  BY DEF Count
<1>3. req[r] \in Request /\ generation \in Nat /\ cache \in Row /\ req[r].found \in Row
  BY DEF TypeOK, Request
<1>4. /\ q \in Request /\ q.phase = "writing"
      /\ q.found = req[r].found /\ q.seen = req[r].seen
  BY <1>3 DEF Request, Phases
<1> HIDE DEF q
<1>5. req'[r] = q /\ \A s \in Requests : s # r => req'[s] = req[s]
  BY <1>2 DEF TypeOK
<1>6. TypeOK'
  BY <1>1, <1>2, <1>3, <1>4 DEF TypeOK
<1>7. Locks' /\ Holder'
  BY <1>1, <1>4, <1>5 DEF Locks, Holder, Holds, TypeOK
<1>8. Rows' /\ Seen' /\ Counting'
  BY <1>1, <1>4, <1>5 DEF Rows, Sound, Seen, Counting
<1>9. Covered'
  <2>1. req[r].found.version =< generation + 1
    BY <1>1 DEF Counting, Locks, Holds, Covered
  <2>2. NextVersion(q.found, q.seen) =< generation + 2
    BY <2>1, <1>3, <1>4 DEF NextVersion, Row
  <2>3. \A s \in Requests : req[s].phase = "writing" =>
          NextVersion(req[s].found, req[s].seen) \in Nat
    BY DEF TypeOK, Request, Row, NextVersion
  <2> QED
    BY <2>2, <2>3, <1>1, <1>3, <1>5 DEF Covered, NextVersion, Row
<1>10. BustsWork'
  BY <1>1 DEF BustsWork, Cached
<1> QED
  BY <1>6, <1>7, <1>8, <1>9, <1>10

\* What the end of a transaction leaves: an idle request without a lock.
LEMMA EndFacts ==
  ASSUME TypeOK, NEW r \in Requests, End(r)
  PROVE  /\ lock' = IF lock = r THEN NoRequest ELSE lock
         /\ req' \in [Requests -> Request]
         /\ req'[r] = Idle
         /\ \A s \in Requests : s # r => req'[s] = req[s]
         /\ Idle.phase = "idle"
         /\ Idle.found = NoRow
<1>1. Idle \in Request /\ Idle.phase = "idle" /\ Idle.found = NoRow
  BY NoRowFacts DEF Idle, Request, Phases
<1> QED
  BY <1>1 DEF End, TypeOK

\* The commit of a computation that holds the row, or of one that found none while nobody
\* holds it: either way no other computation's row changes.
LEMMA CommitStep == ASSUME IInv, NEW r \in Requests, Commit(r) PROVE IInv'
<1> USE DEF IInv
<1> DEFINE v == NextVersion(req[r].found, req[r].seen)
           row == [content |-> req[r].seen, version |-> v, fresh |-> TRUE]
<1>1. /\ UNCHANGED <<content, generation, edit, edits, faults>>
      /\ End(r)
      /\ lock \in {r, NoRequest}
      /\ req[r].phase = "writing"
      /\ served' = req[r].seen
      /\ cache' = row
      /\ excused' = (req[r].seen # content)
  BY DEF Commit
<1>2. req[r].found \in Row /\ req[r].seen \in Contents /\ Sound(req[r].found)
  BY <1>1 DEF TypeOK, Request, Seen, Rows
<1>3. v \in Nat \ {0}
  BY <1>2, NextVersionPositive
<1>4. v =< generation + 1
  BY <1>1 DEF Covered
<1> HIDE DEF v
<1>5. /\ row \in Row /\ row.version = v /\ row.content = req[r].seen /\ row # NoRow
      /\ Sound(row)
  BY <1>2, <1>3 DEF Row, NoRow, Sound
<1> HIDE DEF row
<1>6. \A s \in Requests : s # r => ~Holds(s)
  BY <1>1, ManifestAssumption DEF Locks, TypeOK
<1>7. TypeOK'
  <2>1. served' \in Contents /\ excused' \in BOOLEAN
    BY <1>1, <1>2
  <2>2. cache' \in Row /\ (cache'.version = 0 <=> cache'.content = NoContent)
    BY <1>1, <1>2, <1>3, <1>5, ManifestAssumption
  <2> QED
    BY <2>1, <2>2, <1>1, EndFacts DEF TypeOK
<1>8. Locks' /\ Holder'
  BY <1>1, <1>6, EndFacts DEF Locks, Holder, Holds
<1>9. Rows' /\ Seen' /\ Counting'
  BY <1>1, <1>5, EndFacts DEF Rows, Sound, Seen, Counting
<1>10. Covered'
  BY <1>1, <1>3, <1>4, <1>5, EndFacts DEF Covered, NextVersion
<1>11. BustsWork'
  BY <1>1, <1>5 DEF BustsWork, Cached
<1> QED
  BY <1>7, <1>8, <1>9, <1>10, <1>11

\* A request that ends without a commit gives up its lock and changes no row.
LEMMA EndStep ==
  ASSUME IInv, NEW r \in Requests, Fail(r) \/ TimeOut(r)
  PROVE  IInv'
<1> USE DEF IInv
<1>1. /\ UNCHANGED <<content, cache, generation, served, edit, edits, excused>>
      /\ End(r)
      /\ faults' \in Nat
  BY DEF Fail, TimeOut, TypeOK
<1>2. TypeOK'
  BY <1>1, EndFacts DEF TypeOK
<1>3. Locks' /\ Holder'
  BY <1>1, EndFacts DEF Locks, Holder, Holds, TypeOK
<1>4. Rows' /\ Seen' /\ Counting'
  BY <1>1, EndFacts DEF Rows, Sound, Seen, Counting
<1>5. Covered' /\ BustsWork'
  BY <1>1, EndFacts DEF Covered, NextVersion, BustsWork, Cached
<1> QED
  BY <1>2, <1>3, <1>4, <1>5

\* Time only ages the row.
LEMMA ExpireStep == ASSUME IInv, Expire PROVE IInv'
<1> USE DEF IInv
<1> DEFINE row == [content |-> cache.content, version |-> cache.version, fresh |-> FALSE]
<1>0. /\ UNCHANGED <<content, lock, generation, req, served, edit, edits, faults, excused>>
      /\ cache # NoRow /\ cache \in Row /\ cache.version > 0
      /\ cache' = [cache EXCEPT !.fresh = FALSE]
  BY DEF Expire, Cached, TypeOK, Rows, Sound
<1>1. cache' = row
  BY <1>0 DEF Row
<1>2. /\ row \in Row /\ row.version = cache.version /\ row.content = cache.content
      /\ row # NoRow
  <2>1. row.version = cache.version /\ row.content = cache.content
    OBVIOUS
  <2>2. row \in Row
    BY <1>0 DEF Row
  <2>3. row.version # NoRow.version
    BY <1>0, <2>1, NoRowFacts DEF Row
  <2> QED
    BY <2>1, <2>2, <2>3
<1> HIDE DEF row
<1>3. TypeOK'
  BY <1>0, <1>1, <1>2 DEF TypeOK
<1>4. Locks' /\ Holder'
  BY <1>0, <1>1, <1>2 DEF Locks, Holder, Holds
<1>5. Rows' /\ Seen' /\ Counting'
  BY <1>0, <1>1, <1>2 DEF Rows, Sound, Seen, Counting
<1>6. Covered' /\ BustsWork'
  BY <1>0, <1>1, <1>2 DEF Covered, NextVersion, BustsWork, Cached
<1> QED
  BY <1>3, <1>4, <1>5, <1>6

\* A bust finds the row unlocked, so no computation loses the row it decided from.
LEMMA BustStep == ASSUME IInv, EditBust \/ DeleteBust PROVE IInv'
<1> USE DEF IInv
<1>1. /\ UNCHANGED <<content, lock, generation, req, served, edits, faults>>
      /\ lock = NoRequest /\ cache' = NoRow /\ excused' = FALSE
      /\ edit' \in {"none", "busted"}
  BY DEF EditBust, DeleteBust, Bust
<1>2. TypeOK'
  BY <1>1, NoRowFacts DEF TypeOK
<1>3. Locks' /\ Holder'
  BY <1>1, ManifestAssumption DEF Locks, Holder, Holds
<1>4. Rows' /\ Seen' /\ Counting'
  BY <1>1 DEF Rows, Sound, Seen, Counting
<1>5. Covered'
  BY <1>1, NoRowFacts DEF Covered, NextVersion, TypeOK
<1>6. BustsWork'
  BY <1>1 DEF BustsWork, Cached
<1> QED
  BY <1>2, <1>3, <1>4, <1>5, <1>6

\* Edits touch neither the row nor the requests; where one leaves the row stale for good,
\* it is excused.
LEMMA EditStep ==
  ASSUME IInv,
         EditChange \/ EditFails \/ DeleteChange \/ DeleteFails \/ SilentChange
  PROVE  IInv'
<1> USE DEF IInv
<1>1. UNCHANGED <<cache, lock, generation, req, served>>
  BY DEF EditChange, EditFails, DeleteChange, DeleteFails, SilentChange
<1>2. /\ content' \in Contents /\ edits' \in Nat /\ faults' \in Nat
      /\ edit' \in {"none", "changed", "busted"} /\ excused' \in BOOLEAN
  <2>1. content' \in Contents /\ edits' \in Nat
    BY DEF EditChange, EditFails, DeleteChange, DeleteFails, SilentChange, Change, TypeOK
  <2>2. faults' \in Nat /\ edit' \in {"none", "changed", "busted"}
    BY DEF EditChange, EditFails, DeleteChange, DeleteFails, SilentChange, TypeOK
  <2>3. excused' = excused \/ excused' = TRUE
    BY DEF EditChange, EditFails, DeleteChange, DeleteFails, SilentChange
  <2> QED
    BY <2>1, <2>2, <2>3 DEF TypeOK
<1>3. TypeOK'
  BY <1>1, <1>2 DEF TypeOK
<1>4. Locks' /\ Holder' /\ Rows' /\ Seen' /\ Counting' /\ Covered'
  BY <1>1 DEF Locks, Holder, Holds, Rows, Sound, Seen, Counting, Covered, NextVersion
<1>5. BustsWork'
  <2>1. CASE EditChange
    BY <2>1 DEF EditChange, BustsWork
  <2>2. CASE EditFails \/ DeleteChange \/ SilentChange
    BY <2>2 DEF EditFails, DeleteChange, SilentChange, BustsWork
  <2>3. CASE DeleteFails
    BY <2>3 DEF DeleteFails, BustsWork, Cached
  <2> QED
    BY <2>1, <2>2, <2>3
<1> QED
  BY <1>3, <1>4, <1>5

-----------------------------------------------------------------------------
(* The theorems *)

\* Every step preserves the invariant.
LEMMA NextIInv == IInv /\ [Next]_vars => IInv'
<1> SUFFICES ASSUME IInv, [Next]_vars PROVE IInv'
  OBVIOUS
<1>1. CASE UNCHANGED vars
  BY <1>1
  DEF vars, IInv, TypeOK, Locks, Holder, Holds, Rows, Sound, Seen, Counting, Covered,
      NextVersion, BustsWork, Cached
<1>2. CASE \E r \in Requests :
             \/ Serve(r) \/ Miss(r) \/ ReadContent(r) \/ Connect(r) \/ LockRow(r)
             \/ Count(r) \/ Commit(r) \/ Fail(r) \/ TimeOut(r)
  <2>1. PICK r \in Requests :
             \/ Serve(r) \/ Miss(r) \/ ReadContent(r) \/ Connect(r) \/ LockRow(r)
             \/ Count(r) \/ Commit(r) \/ Fail(r) \/ TimeOut(r)
    BY <1>2
  <2> QED
    BY <2>1, EarlyStep, LockRowStep, CountStep, CommitStep, EndStep
<1>3. CASE Expire
  BY <1>3, ExpireStep
<1>4. CASE EditBust \/ DeleteBust
  BY <1>4, BustStep
<1>5. CASE EditChange \/ EditFails \/ DeleteChange \/ DeleteFails \/ SilentChange
  BY <1>5, EditStep
<1> QED
  BY <1>1, <1>2, <1>3, <1>4, <1>5 DEF Next

\* The inductive invariant holds of every behaviour.
THEOREM InvarianceOfIInv == Spec => []IInv
  BY InitIInv, NextIInv, PTL DEF Spec

\* Every reachable state is well typed, and a row has a version exactly when it has a content.
THEOREM TypeCorrect == Spec => []TypeOK
<1>1. IInv => TypeOK
  BY DEF IInv
<1> QED
  BY InvarianceOfIInv, <1>1, PTL

\* The row a computation has decided its version from stays what it was until the
\* computation ends (SELECT ... FOR UPDATE in computeManifest()).
THEOREM LockProtectsRow == Spec => []LockedRowKept
<1>1. IInv => LockedRowKept
  BY DEF IInv, Locks, Holds, LockedRowKept
<1> QED
  BY InvarianceOfIInv, <1>1, PTL

\* A version is never ahead of manifest_generation by more than the first version of a row,
\* though the two are written on different connections and either may fail.
THEOREM GenerationsCoverVersions == Spec => []GenerationCoversVersion
<1>1. IInv => GenerationCoversVersion
  BY DEF IInv, Covered, GenerationCoversVersion
<1> QED
  BY InvarianceOfIInv, <1>1, PTL

\* After a bust the cached manifest is current, but for the computations that overtook it.
THEOREM BustsAreEffective == Spec => []BustsWork
<1>1. IInv => BustsWork
  BY DEF IInv
<1> QED
  BY InvarianceOfIInv, <1>1, PTL

\* The row lock is held exactly by the computation that found the row, until it commits,
\* fails or times out: none is left behind (RowLockIsLive is the safe half of
\* RequestsAnswered).
THEOREM RowLockNeverOrphaned == Spec => []RowLockIsLive
<1>1. IInv => RowLockIsLive
  <2> SUFFICES ASSUME IInv, NEW r \in Requests PROVE lock = r <=> Holds(r)
    BY DEF RowLockIsLive, Holds
  <2> QED
    BY ManifestAssumption DEF IInv, Locks, Holder
<1> QED
  BY InvarianceOfIInv, <1>1, PTL

-----------------------------------------------------------------------------
(* Versions *)

\* What a step does to the cached row.
Overwritten ==
  \/ cache'.version = cache.version /\ cache'.content = cache.content
  \/ cache'.version = cache.version + 1 /\ cache'.content # cache.content

LEMMA OverwriteStep ==
  ASSUME IInv, [Next]_vars, Cached, Cached'
  PROVE  Overwritten \/ \E r \in Requests : req[r].found = NoRow /\ Commit(r)
<1>1. CASE UNCHANGED cache
  BY <1>1 DEF Overwritten
<1>2. ASSUME NEW r \in Requests,
             \/ Serve(r) \/ Miss(r) \/ ReadContent(r) \/ Connect(r) \/ LockRow(r)
             \/ Count(r) \/ Fail(r) \/ TimeOut(r)
      PROVE  UNCHANGED cache
  BY <1>2 DEF Serve, Miss, ReadContent, Connect, LockRow, Count, Fail, TimeOut
<1>3. ASSUME NEW r \in Requests, Commit(r), req[r].found # NoRow PROVE Overwritten
  <2>1. cache.version = req[r].found.version /\ cache.content = req[r].found.content
    BY <1>3 DEF IInv, Locks, Holds, Commit
  <2>2. /\ cache'.content = req[r].seen
        /\ cache'.version = NextVersion(req[r].found, req[r].seen)
    BY <1>3 DEF Commit
  <2> QED
    BY <1>3, <2>1, <2>2 DEF NextVersion, Overwritten
<1>4. CASE Expire
  <2>1. cache' = [cache EXCEPT !.fresh = FALSE] /\ cache \in Row
    BY <1>4 DEF Expire, IInv, TypeOK
  <2> QED
    BY <2>1 DEF Row, Overwritten
<1>5. ~(EditBust \/ DeleteBust)
  BY DEF EditBust, DeleteBust, Bust, Cached
<1>6. CASE EditChange \/ EditFails \/ DeleteChange \/ DeleteFails \/ SilentChange
  BY <1>1, <1>6 DEF EditChange, EditFails, DeleteChange, DeleteFails, SilentChange
<1> QED
  BY <1>1, <1>2, <1>3, <1>4, <1>5, <1>6 DEF Next, vars

\* Any overwrite of a cached row that breaks the numbering is that of a computation that
\* found no row: FOR UPDATE locks nothing then, and the row of another one may be there by
\* the time it writes.
THEOREM VersionsNameContents == Spec => VersionNamesContent
<1>1. IInv /\ [Next]_vars =>
        [Cached /\ Cached' =>
           \/ cache'.version = cache.version /\ cache'.content = cache.content
           \/ cache'.version = cache.version + 1 /\ cache'.content # cache.content
           \/ \E r \in Requests : req[r].found = NoRow /\ Commit(r)]_vars
  BY OverwriteStep DEF Overwritten
<1> QED
  BY InvarianceOfIInv, <1>1, PTL DEF Spec, VersionNamesContent

\* A computation that found no row still has none to write over.
NothingAppeared ==
  \A r \in Requests :
    req[r].phase \in {"counting", "writing"} /\ req[r].found = NoRow => ~Cached

LEMMA NextNothingAppeared ==
  ASSUME \A r, q \in Requests : r = q
  PROVE  IInv /\ NothingAppeared /\ [Next]_vars => NothingAppeared'
<1> SUFFICES ASSUME IInv, NothingAppeared, [Next]_vars PROVE NothingAppeared'
  OBVIOUS
<1>1. req \in [Requests -> Request]
  BY DEF IInv, TypeOK
<1>2. CASE UNCHANGED <<req, cache>>
  BY <1>2 DEF NothingAppeared, Cached
<1>3. ASSUME NEW r \in Requests, Miss(r) \/ ReadContent(r) \/ Connect(r) PROVE NothingAppeared'
  BY <1>1, <1>3 DEF Miss, ReadContent, Connect, NothingAppeared, Request
<1>4. ASSUME NEW r \in Requests, LockRow(r) PROVE NothingAppeared'
  <2>1. req'[r].found = cache /\ cache' = cache
    BY <1>1, <1>4 DEF LockRow, Request
  <2> QED
    BY <2>1 DEF NothingAppeared, Cached
<1>5. ASSUME NEW r \in Requests, Count(r) PROVE NothingAppeared'
  BY <1>1, <1>5 DEF Count, NothingAppeared, Request, Cached
<1>6. ASSUME NEW r \in Requests, Commit(r) \/ Fail(r) \/ TimeOut(r) PROVE NothingAppeared'
  <2>1. req'[r] = Idle
    BY <1>1, <1>6 DEF Commit, Fail, TimeOut, End
  <2> QED
    BY <2>1 DEF NothingAppeared, Idle
<1>7. CASE Expire
  BY <1>7 DEF Expire, NothingAppeared
<1>8. CASE EditBust \/ DeleteBust
  BY <1>8 DEF EditBust, DeleteBust, Bust, NothingAppeared, Cached
<1>9. CASE EditChange \/ EditFails \/ DeleteChange \/ DeleteFails \/ SilentChange
  BY <1>2, <1>9 DEF EditChange, EditFails, DeleteChange, DeleteFails, SilentChange
<1>10. ASSUME NEW r \in Requests, Serve(r) PROVE NothingAppeared'
  BY <1>2, <1>10 DEF Serve
<1> QED
  BY <1>2, <1>3, <1>4, <1>5, <1>6, <1>7, <1>8, <1>9, <1>10 DEF Next, vars

\* What manifestEngine.js:284 wants is true while polls of a screen come one at a time, through
\* every bust, edit, expiry and failure: a version is never overwritten by a smaller one.  Two
\* computations that both found no row are what it takes to break it.
THEOREM VersionsGrowAlone ==
  ASSUME \A r, q \in Requests : r = q
  PROVE  Spec => VersionNeverRegresses
<1>1. Init => NothingAppeared
  BY DEF Init, NothingAppeared, Idle
<1>2. IInv /\ NothingAppeared /\ [Next]_vars =>
        [Cached /\ Cached' => cache'.version >= cache.version]_vars
  <2> SUFFICES ASSUME IInv, NothingAppeared, [Next]_vars, Cached, Cached'
               PROVE  cache'.version >= cache.version
    OBVIOUS
  <2>1. ~\E r \in Requests : req[r].found = NoRow /\ Commit(r)
    BY DEF NothingAppeared, Commit
  <2>2. cache.version \in Nat
    BY DEF IInv, TypeOK, Row
  <2> QED
    BY <2>1, <2>2, OverwriteStep DEF Overwritten
<1> QED
  BY InvarianceOfIInv, NextNothingAppeared, <1>1, <1>2, PTL DEF Spec, VersionNeverRegresses

=============================================================================
