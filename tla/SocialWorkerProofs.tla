------------------------- MODULE SocialWorkerProofs -------------------------
(***************************************************************************)
(* Proofs about SocialWorker, for any number of jobs, runs, instances and  *)
(* faults. No lock keeps runs apart, so what PostedOnce says of a job can  *)
(* only be kept by what the runs that hold it know: IInv says that a job   *)
(* not exposed is held by one run, and that it was not posted before that  *)
(* run did. For the exposed ones too, BoundInv counts the posts together   *)
(* with the runs that may still post.                                      *)
(***************************************************************************)
EXTENDS SocialWorker, FiniteSetTheorems, TLAPS

-----------------------------------------------------------------------------
(* The inductive invariant *)

Holds(r, j) == j \in run[r].todo

\* One run holds the job, which is as it was selected until the run is unsure of it.
Alone(j) == \A r, q \in Runs : Holds(r, j) /\ Holds(q, j) => r = q

Fresh(j) == \A r \in Runs : Holds(r, j) /\ ~Unrecorded(r, j) =>
              posts[j] = 0 /\ status[j] \in {"pending", "deleted"}

Answered(j) == \A r \in Runs : At(r, j, "answered") =>
                 posts[j] = 1 /\ status[j] \in {"pending", "deleted"}

Once(j) == /\ posts[j] <= 1
           /\ status[j] = "pending" /\ posts[j] > 0 => \E r \in Runs : Unrecorded(r, j)
           /\ status[j] = "sent" /\ configured => posts[j] > 0

\* A job is in no run and not posted before it is enqueued.
Unborn(j) == status[j] = "none" => posts[j] = 0 /\ \A r \in Runs : ~Holds(r, j)

Kept(j) == Alone(j) /\ Fresh(j) /\ Answered(j) /\ Once(j)

JobKept(j) == Unborn(j) /\ (j \notin exposed => Kept(j))

JobInv == \A j \in Jobs : JobKept(j)

IInv == TypeOK /\ JobInv

-----------------------------------------------------------------------------
(* Operators *)

\* A run is at one job at a time.
LEMMA OneJob ==
  ASSUME NEW r, NEW j \in Jobs, NEW k \in Jobs, NEW p, NEW q, At(r, j, p), At(r, k, q)
  PROVE  j = k /\ p = q
BY SocialAssumption DEF At

LEMMA FromFacts ==
  ASSUME NEW todo \in SUBSET Jobs
  PROVE  /\ From(todo) \in [phase : Phases, todo : SUBSET Jobs]
         /\ From(todo).todo = todo
         /\ From(todo).phase \in {"idle", "next"}
         /\ todo = {} <=> From(todo).phase = "idle"
BY DEF From, Phases

LEMMA BatchFacts == Batch \in SUBSET Jobs /\ \A j \in Batch : status[j] = "pending"
BY DEF Batch, Pending

\* The statements leave the type of the status, and all other jobs, alone.
LEMMA UpdateFacts ==
  ASSUME TypeOK, NEW j \in Jobs, NEW s \in Statuses, Perhaps(j, s)
  PROVE  /\ status' \in [Jobs -> Statuses \cup {"none", "deleted"}]
         /\ \A k \in Jobs : k # j => status'[k] = status[k]
         /\ status'[j] \in {status[j], s}
         /\ status[j] = "deleted" => status'[j] = "deleted"
         /\ Update(j, s) => status'[j] \in {s, "deleted"}
BY DEF Perhaps, Update, TypeOK, Statuses

\* What a run becomes when it goes on with a job, has handled it, or ends.
LEMMA ToFacts ==
  ASSUME TypeOK, NEW r \in Runs, NEW j \in Jobs, NEW p, At(r, j, p), NEW q \in Phases \ {"idle"},
         To(r, q)
  PROVE  /\ run' \in [Runs -> [phase : Phases, todo : SUBSET Jobs]]
         /\ \A o \in Runs : (run[o].todo = {} <=> run[o].phase = "idle")'
         /\ \A o \in Runs : run'[o].todo = run[o].todo
         /\ \A o \in Runs : o # r => run'[o] = run[o]
         /\ run'[r].phase = q
<1>1. run[r] \in [phase : Phases, todo : SUBSET Jobs] /\ run[r].todo # {}
  BY DEF TypeOK, At
<1>2. run' = [run EXCEPT ![r] = [run[r] EXCEPT !.phase = q]]
  BY <1>1 DEF To
<1> QED
  BY <1>1, <1>2 DEF TypeOK

LEMMA FromStep ==
  ASSUME TypeOK, NEW r \in Runs, NEW todo \in SUBSET Jobs, run' = [run EXCEPT ![r] = From(todo)]
  PROVE  /\ run' \in [Runs -> [phase : Phases, todo : SUBSET Jobs]]
         /\ \A o \in Runs : (run[o].todo = {} <=> run[o].phase = "idle")'
         /\ \A o \in Runs : o # r => run'[o] = run[o]
         /\ run'[r].todo = todo
         /\ run'[r].phase \in {"idle", "next"}
BY FromFacts DEF TypeOK

-----------------------------------------------------------------------------
(* Types *)

LEMMA InitType == Init => TypeOK
<1> SUFFICES ASSUME Init PROVE TypeOK
  OBVIOUS
<1>1. faults \in 0..MaxFaults
  BY SocialAssumption DEF Init
<1>2. run \in [Runs -> [phase : Phases, todo : SUBSET Jobs]]
      /\ \A r \in Runs : run[r].todo = {} <=> run[r].phase = "idle"
  BY FromFacts DEF Init
<1> QED
  BY <1>1, <1>2 DEF Init, TypeOK

LEMMA TypeStep == TypeOK /\ [Next]_vars => TypeOK'
<1> SUFFICES ASSUME TypeOK, [Next]_vars PROVE TypeOK'
  OBVIOUS
<1> USE DEF rows, history
<1>1. ASSUME NEW j \in Jobs, Enqueue(j) PROVE TypeOK'
  BY <1>1 DEF Enqueue, TypeOK, Statuses
<1>2. ASSUME NEW j \in Jobs, Delete(j) PROVE TypeOK'
  BY <1>2 DEF Delete, TypeOK
<1>3. ASSUME NEW t \in Tenants, provisionVenue(t) PROVE TypeOK'
  BY <1>3 DEF provisionVenue, TypeOK
<1>4. ASSUME NEW r \in Runs, Tick(r) PROVE TypeOK'
  BY <1>4, FromStep, BatchFacts DEF Tick, TypeOK
<1>5. ASSUME NEW r \in Runs, NEW j \in Jobs, processJob(r, j) PROVE TypeOK'
  <2>1. run[r].todo \ {j} \in SUBSET Jobs
    BY DEF TypeOK
  <2>2. CASE Stub(r, j)
    BY <2>1, <2>2, FromStep, UpdateFacts DEF Stub, Handled, Perhaps, Statuses, TypeOK
  <2>3. CASE LeavePending(r, j)
    BY <2>1, <2>3, FromStep DEF LeavePending, Handled, TypeOK
  <2>4. CASE Post(r, j)
    BY <2>4, ToFacts DEF Post, Phases, TypeOK
  <2>5. CASE Accept(r, j)
    BY <2>5, ToFacts DEF Accept, Phases, TypeOK
  <2>6. CASE Refuse(r, j)
    BY <2>6, ToFacts DEF Refuse, Phases, TypeOK
  <2>7. CASE MarkSent(r, j)
    BY <2>1, <2>7, FromStep, UpdateFacts DEF MarkSent, Handled, Perhaps, Statuses, TypeOK
  <2>8. CASE MarkFailed(r, j)
    BY <2>1, <2>8, FromStep, UpdateFacts DEF MarkFailed, Handled, Perhaps, Statuses, TypeOK
  <2> QED
    BY <1>5, <2>2, <2>3, <2>4, <2>5, <2>6, <2>7, <2>8 DEF processJob
<1>6. ASSUME Fault PROVE faults' \in 0..MaxFaults
  BY <1>6, SocialAssumption DEF Fault, TypeOK
<1>7. ASSUME NEW r \in Runs, NEW j \in Jobs, MarkFails(r, j) PROVE TypeOK'
  BY <1>6, <1>7, ToFacts, UpdateFacts DEF MarkFails, Phases, Statuses, TypeOK
<1>8. ASSUME NEW r \in Runs, NEW j \in Jobs, Abandon(r, j) PROVE TypeOK'
  <2>1. {} \in SUBSET Jobs
    OBVIOUS
  <2>2. status' \in [Jobs -> Statuses \cup {"none", "deleted"}] /\ exposed' \subseteq Jobs
    BY <1>8, UpdateFacts DEF Abandon, Statuses, TypeOK
  <2> QED
    BY <1>6, <1>8, <2>1, <2>2, FromStep DEF Abandon, TypeOK
<1>9. ASSUME NEW i \in Instances, Crash(i) PROVE TypeOK'
  BY <1>6, <1>9, FromFacts DEF Crash, TypeOK
<1>10. CASE UNCHANGED vars
  BY <1>10 DEF vars, TypeOK
<1> QED
  BY <1>1, <1>2, <1>3, <1>4, <1>5, <1>7, <1>8, <1>9, <1>10 DEF Next

\* Every reachable state is well typed: a run has rows to handle exactly until it ends, and a
\* tenant is provisioned only where the service is configured (startSocialWorker, provisionVenue).
THEOREM TypeCorrect == Spec => []TypeOK
BY InitType, TypeStep, PTL DEF Spec

-----------------------------------------------------------------------------
(* Runs and jobs *)

\* A run that goes on with a job changes what it is about to do, and nothing else.
LEMMA ToRuns ==
  ASSUME TypeOK, NEW r \in Runs, NEW j \in Jobs, NEW p, At(r, j, p), NEW q \in Phases \ {"idle"},
         To(r, q)
  PROVE  /\ \A o \in Runs, k \in Jobs : Holds(o, k)' <=> Holds(o, k)
         /\ \A o \in Runs, k \in Jobs : o # r \/ k # j =>
              /\ At(o, k, "answered")' <=> At(o, k, "answered")
              /\ Unrecorded(o, k)' <=> Unrecorded(o, k)
         /\ At(r, j, "answered")' <=> q = "answered"
         /\ Unrecorded(r, j)' <=> q \in {"answered", "lost"}
<1> USE ToFacts
<1>1. \A o \in Runs, k \in Jobs : Holds(o, k)' <=> Holds(o, k)
  BY DEF Holds
<1>2. ASSUME NEW o \in Runs, NEW k \in Jobs, NEW m, o # r \/ k # j
      PROVE  At(o, k, m)' <=> At(o, k, m)
  <2>1. CASE o # r
    BY <2>1 DEF At
  <2>2. CASE k # j /\ o = r
    <3>1. ~At(r, k, m)
      BY <2>2, OneJob
    <3>2. ~At(r, k, m)'
      BY <2>2, SocialAssumption DEF At
    <3> QED
      BY <2>2, <3>1, <3>2
  <2> QED
    BY <1>2, <2>1, <2>2
<1>3. \A m : At(r, j, m)' <=> m = q
  BY DEF At
<1> QED
  BY <1>1, <1>2, <1>3 DEF Unrecorded

\* A run that begins, has handled a job or ends is unsure of none of its jobs.
LEMMA FromRuns ==
  ASSUME TypeOK, NEW r \in Runs, NEW todo \in SUBSET Jobs, run' = [run EXCEPT ![r] = From(todo)]
  PROVE  /\ \A o \in Runs, k \in Jobs : o # r =>
              /\ Holds(o, k)' <=> Holds(o, k)
              /\ At(o, k, "answered")' <=> At(o, k, "answered")
              /\ Unrecorded(o, k)' <=> Unrecorded(o, k)
         /\ \A k \in Jobs : /\ Holds(r, k)' <=> k \in todo
                            /\ ~At(r, k, "answered")' /\ ~Unrecorded(r, k)'
<1>1. ASSUME NEW o \in Runs, NEW k \in Jobs, o # r
      PROVE  /\ Holds(o, k)' <=> Holds(o, k)
             /\ \A m : At(o, k, m)' <=> At(o, k, m)
  BY <1>1, FromStep DEF Holds, At
<1>2. ASSUME NEW k \in Jobs
      PROVE  /\ Holds(r, k)' <=> k \in todo
             /\ ~At(r, k, "answered")' /\ ~At(r, k, "lost")'
  <2>1. run'[r].todo = todo
    BY FromStep
  <2>2. run'[r].phase # "answered" /\ run'[r].phase # "lost"
    BY FromStep
  <2> QED
    BY <2>1, <2>2, Zenon DEF Holds, At
<1> QED
  BY <1>1, <1>2 DEF Unrecorded

\* A step that is about other jobs: runs may let go of this one, but not while unsure of it.
LEMMA Undisturbed ==
  ASSUME NEW j \in Jobs, JobKept(j),
         status'[j] = status[j], posts'[j] = posts[j], configured' = configured,
         exposed \subseteq exposed',
         \A r \in Runs : Holds(r, j)' => Holds(r, j),
         j \notin exposed' => \A r \in Runs :
           /\ Unrecorded(r, j)' <=> Unrecorded(r, j)
           /\ At(r, j, "answered")' => At(r, j, "answered")
  PROVE  JobKept(j)'
<1>1. Unborn(j)'
  BY DEF JobKept, Unborn
<1>2. ASSUME j \notin exposed' PROVE Kept(j)'
  <2>1. Kept(j)
    BY <1>2 DEF JobKept
  <2>2. Alone(j)'
    BY <2>1 DEF Kept, Alone
  <2>3. Fresh(j)'
    BY <1>2, <2>1 DEF Kept, Fresh
  <2>4. Answered(j)'
    BY <1>2, <2>1 DEF Kept, Answered
  <2>5. Once(j)'
    BY <1>2, <2>1 DEF Kept, Once
  <2> QED
    BY <2>2, <2>3, <2>4, <2>5 DEF Kept
<1> QED
  BY <1>1, <1>2 DEF JobKept

\* A run has handled the job: it is alone with it, so no run holds it any more.
LEMMA LetGo ==
  ASSUME NEW r \in Runs, NEW j \in Jobs, JobKept(j), Holds(r, j),
         posts'[j] = posts[j], configured' = configured, exposed \subseteq exposed',
         \A o \in Runs : Holds(o, j)' => Holds(o, j) /\ o # r,
         \A o \in Runs : At(o, j, "answered")' \/ Unrecorded(o, j)' => Holds(o, j)',
         status'[j] # "none",
         j \notin exposed' => /\ status'[j] = "pending" => posts[j] = 0
                              /\ status'[j] = "sent" /\ configured => posts[j] > 0
  PROVE  JobKept(j)'
<1>1. Unborn(j)'
  BY DEF Unborn
<1>2. ASSUME j \notin exposed' PROVE Kept(j)'
  <2>1. Kept(j)
    BY <1>2 DEF JobKept
  <2>2. \A o \in Runs : ~Holds(o, j)'
    BY <2>1 DEF Kept, Alone
  <2>3. Once(j)'
    BY <1>2, <2>1 DEF Kept, Once
  <2> QED
    BY <2>2, <2>3 DEF Kept, Alone, Fresh, Answered
<1> QED
  BY <1>1, <1>2 DEF JobKept

LEMMA AtHolds ==
  ASSUME NEW r \in Runs, NEW j \in Jobs
  PROVE  /\ \A p : At(r, j, p) => Holds(r, j)
         /\ Unrecorded(r, j) => Holds(r, j)
         /\ At(r, j, "answered") => Unrecorded(r, j)
BY DEF At, Unrecorded, Holds

\* Primed, as primes do not carry over.
LEMMA AtHoldsNext ==
  ASSUME NEW r \in Runs, NEW j \in Jobs
  PROVE  /\ Unrecorded(r, j)' => Holds(r, j)'
         /\ At(r, j, "answered")' => Holds(r, j)'
BY DEF At, Unrecorded, Holds

-----------------------------------------------------------------------------
(* The invariant *)

LEMMA InitJobs == Init => JobInv
BY FromFacts DEF Init, JobInv, JobKept, Unborn, Kept, Alone, Fresh, Answered, Once, Holds, At, Unrecorded

\* Steps of the routes: no run moves, and other jobs are left alone.
LEMMA RoutesKeep ==
  ASSUME TypeOK, JobInv, NEW j \in Jobs, Enqueue(j) \/ Delete(j)
  PROVE  \A k \in Jobs : JobKept(k)'
<1> USE DEF history
<1>1. run' = run /\ posts' = posts /\ configured' = configured /\ exposed' = exposed
  BY DEF Enqueue, Delete
<1>2. \A k \in Jobs : JobKept(k)
  BY DEF JobInv, JobKept
<1>3. \A r \in Runs, k \in Jobs :
        /\ Holds(r, k)' <=> Holds(r, k)
        /\ Unrecorded(r, k)' <=> Unrecorded(r, k)
        /\ At(r, k, "answered")' <=> At(r, k, "answered")
  BY <1>1 DEF Holds, Unrecorded, At
<1>4. \A k \in Jobs : k # j => status'[k] = status[k]
  BY DEF Enqueue, Delete, TypeOK
<1>5. ASSUME NEW k \in Jobs, k # j PROVE JobKept(k)'
  BY <1>1, <1>2, <1>3, <1>4, <1>5, Undisturbed
<1>6. CASE Enqueue(j)
  <2>1. status[j] = "none" /\ status'[j] = "pending"
    BY <1>6 DEF Enqueue, TypeOK
  <2>2. posts[j] = 0 /\ \A r \in Runs : ~Holds(r, j)
    BY <1>2, <2>1 DEF JobKept, Unborn
  <2>3. JobKept(j)'
    BY <1>1, <1>3, <2>1, <2>2, AtHolds
       DEF JobKept, Unborn, Kept, Alone, Fresh, Answered, Once
  <2> QED
    BY <1>5, <2>3
<1>7. CASE Delete(j)
  <2>1. status'[j] = "deleted"
    BY <1>7 DEF Delete, TypeOK
  <2>2. JobKept(j)'
    BY <1>1, <1>2, <1>3, <2>1 DEF JobKept, Unborn, Kept, Alone, Fresh, Answered, Once
  <2> QED
    BY <1>5, <2>2
<1> QED
  BY <1>6, <1>7

\* A run begins: what it selected and nobody holds is pending, hence not posted.
LEMMA TickKeeps ==
  ASSUME TypeOK, JobInv, NEW r \in Runs, Tick(r)
  PROVE  \A j \in Jobs : JobKept(j)'
<1> SUFFICES ASSUME NEW j \in Jobs PROVE JobKept(j)'
  OBVIOUS
<1>1. posts' = posts /\ configured' = configured /\ status' = status /\ exposed \subseteq exposed'
  BY DEF Tick, rows
<1>2. run[r].todo = {}
  BY DEF Tick, TypeOK
<1>3. JobKept(j) /\ ~Holds(r, j) /\ ~Unrecorded(r, j) /\ ~At(r, j, "answered")
  BY <1>2, AtHolds DEF JobInv, JobKept, Holds
<1>4. /\ \A o \in Runs : o # r =>
           /\ Holds(o, j)' <=> Holds(o, j)
           /\ At(o, j, "answered")' <=> At(o, j, "answered")
           /\ Unrecorded(o, j)' <=> Unrecorded(o, j)
      /\ Holds(r, j)' <=> j \in Batch
      /\ ~At(r, j, "answered")' /\ ~Unrecorded(r, j)'
  BY BatchFacts, FromRuns DEF Tick
<1>5. CASE j \notin Batch
  BY <1>1, <1>3, <1>4, <1>5, Undisturbed
<1>6. CASE j \in Batch
  <2>1. status[j] = "pending"
    BY <1>6, BatchFacts
  <2>2. ASSUME j \notin exposed' PROVE Kept(j)'
    <3>1. Kept(j)
      BY <1>1, <1>3, <2>2 DEF JobKept
    <3>2. \A o \in Runs : o # r => ~Holds(o, j)
      BY <1>6, <2>2 DEF Tick, Holds
    <3>3. posts[j] = 0
      BY <1>3, <2>1, <3>1, <3>2, AtHolds DEF Kept, Once, TypeOK
    <3>4. \A o \in Runs : Holds(o, j)' => o = r
      BY <1>4, <3>2
    <3>5. \A o \in Runs : ~At(o, j, "answered")'
      BY <1>4, <3>2, AtHolds
    <3> QED
      BY <1>1, <2>1, <3>3, <3>4, <3>5 DEF Kept, Alone, Fresh, Answered, Once
  <2> QED
    BY <1>1, <2>1, <2>2 DEF JobKept, Unborn
<1> QED
  BY <1>5, <1>6

\* A run goes on with the job it is at: other jobs are left alone.
LEMMA OthersWhenTo ==
  ASSUME TypeOK, JobInv, NEW r \in Runs, NEW j \in Jobs, NEW p, At(r, j, p),
         NEW q \in Phases \ {"idle"}, To(r, q), configured' = configured, exposed' = exposed,
         NEW k \in Jobs, k # j, status'[k] = status[k], posts'[k] = posts[k]
  PROVE  JobKept(k)'
<1>1. \A o \in Runs : /\ Holds(o, k)' => Holds(o, k)
                      /\ Unrecorded(o, k)' <=> Unrecorded(o, k)
                      /\ At(o, k, "answered")' => At(o, k, "answered")
  BY ToRuns
<1> QED
  BY <1>1, Undisturbed DEF JobInv

\* Likewise when it has handled the job or ends, and lets go of it and perhaps of others.
LEMMA OthersWhenFrom ==
  ASSUME TypeOK, JobInv, NEW r \in Runs, NEW j \in Jobs, NEW p, At(r, j, p),
         NEW todo \in SUBSET run[r].todo, run' = [run EXCEPT ![r] = From(todo)],
         configured' = configured, exposed \subseteq exposed',
         NEW k \in Jobs, k # j, status'[k] = status[k], posts'[k] = posts[k]
  PROVE  JobKept(k)'
<1>1. todo \in SUBSET Jobs
  BY DEF TypeOK
<1>2. ~At(r, k, "answered") /\ ~Unrecorded(r, k)
  BY OneJob DEF Unrecorded
<1>3. \A o \in Runs : /\ Holds(o, k)' => Holds(o, k)
                      /\ Unrecorded(o, k)' <=> Unrecorded(o, k)
                      /\ At(o, k, "answered")' => At(o, k, "answered")
  BY <1>1, <1>2, FromRuns DEF Holds
<1> QED
  BY <1>3, Undisturbed DEF JobInv

\* The steps up to the post: the job is pending until then.
LEMMA PostKeeps ==
  ASSUME TypeOK, JobInv, NEW r \in Runs, NEW j \in Jobs,
         Post(r, j) \/ Refuse(r, j) \/ Accept(r, j)
  PROVE  \A k \in Jobs : JobKept(k)'
<1> USE DEF rows, history
<1>1. PICK q \in Phases \ {"idle", "next"} : To(r, q) /\ (q = "answered" => Accept(r, j))
  BY DEF Post, Refuse, Accept, Phases
<1>2. PICK p \in {"next", "posting"} : At(r, j, p)
  BY DEF Post, Refuse, Accept
<1>3. configured' = configured /\ status' = status /\ exposed' = exposed
  BY DEF Post, Refuse, Accept
<1>4. /\ \A k \in Jobs : k # j => posts'[k] = posts[k]
      /\ posts'[j] \in {posts[j], posts[j] + 1}
      /\ Accept(r, j) => posts'[j] = posts[j] + 1
      /\ posts'[j] = posts[j] \/ q \in {"answered", "lost"}
  <2>1. CASE Accept(r, j)
    <3>1. q \in {"answered", "lost"}
      <4>1. run'[r].phase \in {"answered", "lost"}
        BY <1>2, <2>1, ToFacts DEF Accept, Phases
      <4> QED
        BY <1>1, <1>2, <4>1, ToFacts
    <3> QED
      BY <2>1, <3>1 DEF Accept, TypeOK
  <2>2. CASE Post(r, j) \/ Refuse(r, j)
    <3>1. posts' = posts
      BY <2>2 DEF Post, Refuse
    <3>2. ~Accept(r, j)
      <4>1. posts'[j] # posts[j] + 1
        BY <3>1 DEF TypeOK
      <4> QED
        BY <4>1 DEF Accept, TypeOK
    <3> QED
      BY <3>1, <3>2
  <2> QED
    BY <2>1, <2>2
<1>5. ASSUME NEW k \in Jobs, k # j PROVE JobKept(k)'
  BY <1>1, <1>2, <1>3, <1>4, <1>5, OthersWhenTo
<1>6. JobKept(j)'
  <2>1. /\ \A o \in Runs : Holds(o, j)' <=> Holds(o, j)
        /\ At(r, j, "answered")' <=> q = "answered"
        /\ Unrecorded(r, j)' <=> q \in {"answered", "lost"}
    BY <1>1, <1>2, ToRuns
  <2>2. Holds(r, j) /\ ~Unrecorded(r, j)
    BY <1>2, OneJob DEF Holds, At, Unrecorded
  <2>3. Unborn(j)'
    BY <1>3, <2>1, <2>2 DEF JobInv, JobKept, Unborn
  <2>4. ASSUME j \notin exposed' PROVE Kept(j)'
    <3>1. Kept(j)
      BY <1>3, <2>4 DEF JobInv, JobKept
    <3>2. posts[j] = 0 /\ status[j] \in {"pending", "deleted"}
      BY <2>2, <3>1 DEF Kept, Fresh
    <3>3. \A o \in Runs : Holds(o, j) => o = r
      BY <2>2, <3>1 DEF Kept, Alone
    <3>4. Alone(j)'
      BY <2>1, <3>3 DEF Alone
    <3>5. Fresh(j)'
      BY <1>3, <1>4, <2>1, <3>2, <3>3 DEF Fresh
    <3>6. Answered(j)'
      <4>1. ASSUME NEW o \in Runs, At(o, j, "answered")'
            PROVE  posts'[j] = 1 /\ status'[j] \in {"pending", "deleted"}
        <5>1. o = r
          BY <2>1, <3>3, <4>1, AtHoldsNext
        <5> QED
          BY <1>1, <1>3, <1>4, <2>1, <3>2, <4>1, <5>1
      <4> QED
        BY <4>1 DEF Answered
    <3>7. Once(j)'
      BY <1>3, <1>4, <2>1, <3>2 DEF Once
    <3> QED
      BY <3>4, <3>5, <3>6, <3>7 DEF Kept
  <2> QED
    BY <2>3, <2>4 DEF JobKept
<1> QED
  BY <1>5, <1>6

\* The record of the outcome fails: the run stays unsure of the job.
LEMMA MarkFailsKeeps ==
  ASSUME TypeOK, JobInv, NEW r \in Runs, NEW j \in Jobs, MarkFails(r, j)
  PROVE  \A k \in Jobs : JobKept(k)'
<1>1. To(r, "lost") /\ configured' = configured /\ posts' = posts /\ exposed' = exposed
  BY DEF MarkFails
<1>2. PICK p \in {"answered", "refused"} :
        At(r, j, p) /\ Perhaps(j, IF p = "answered" THEN "sent" ELSE "failed")
  BY DEF MarkFails
<1>3. /\ \A k \in Jobs : k # j => status'[k] = status[k]
      /\ status'[j] \in {status[j], IF p = "answered" THEN "sent" ELSE "failed"}
  BY <1>2, UpdateFacts DEF Statuses
<1>4. "lost" \in Phases \ {"idle"}
  BY DEF Phases
<1>5. ASSUME NEW k \in Jobs, k # j PROVE JobKept(k)'
  BY <1>1, <1>2, <1>3, <1>4, <1>5, OthersWhenTo
<1>6. JobKept(j)'
  <2>1. /\ \A o \in Runs : Holds(o, j)' <=> Holds(o, j)
        /\ ~At(r, j, "answered")'
        /\ Unrecorded(r, j)'
    BY <1>1, <1>2, <1>4, ToRuns
  <2>2. Holds(r, j)
    BY <1>2, AtHolds
  <2>3. Unborn(j)'
    BY <1>1, <1>3, <2>1, <2>2 DEF JobInv, JobKept, Unborn
  <2>4. ASSUME j \notin exposed' PROVE Kept(j)'
    <3>1. Kept(j)
      BY <1>1, <2>4 DEF JobInv, JobKept
    <3>2. \A o \in Runs : Holds(o, j) => o = r
      BY <2>2, <3>1 DEF Kept, Alone
    <3>3. Alone(j)' /\ Fresh(j)' /\ Answered(j)'
      BY <2>1, <3>2, AtHoldsNext DEF Alone, Fresh, Answered
    <3>4. p = "answered" => posts[j] = 1
      BY <1>2, <3>1 DEF Kept, Answered
    <3>5. Once(j)'
      BY <1>1, <1>3, <2>1, <3>1, <3>4 DEF Kept, Once
    <3> QED
      BY <3>3, <3>5 DEF Kept
  <2> QED
    BY <2>3, <2>4 DEF JobKept
<1> QED
  BY <1>5, <1>6

\* The run has handled the job, or ends at it: it is recorded, or was not posted.
LEMMA HandledKeeps ==
  ASSUME TypeOK, JobInv, NEW r \in Runs, NEW j \in Jobs, NEW p, At(r, j, p),
         NEW todo \in SUBSET (run[r].todo \ {j}), run' = [run EXCEPT ![r] = From(todo)],
         configured' = configured, posts' = posts, exposed \subseteq exposed',
         NEW s \in Statuses, Perhaps(j, s),
         j \notin exposed' =>
           \/ p \in {"next", "refused"} /\ (s = "sent" => ~configured)
           \/ p = "answered" /\ Update(j, s) /\ s = "sent"
           \/ p = "lost" /\ Update(j, s) /\ s = "failed"
  PROVE  \A k \in Jobs : JobKept(k)'
<1>1. /\ \A k \in Jobs : k # j => status'[k] = status[k]
      /\ status'[j] \in {status[j], s}
      /\ Update(j, s) => status'[j] \in {s, "deleted"}
  BY UpdateFacts
<1>2. ASSUME NEW k \in Jobs, k # j PROVE JobKept(k)'
  BY <1>1, <1>2, OthersWhenFrom
<1>3. JobKept(j)'
  <2>1. todo \in SUBSET Jobs /\ j \notin todo
    BY DEF TypeOK
  <2>2. /\ \A o \in Runs : Holds(o, j)' => Holds(o, j) /\ o # r
        /\ \A o \in Runs : At(o, j, "answered")' \/ Unrecorded(o, j)' => Holds(o, j)'
    BY <2>1, FromRuns, AtHoldsNext
  <2>3. Holds(r, j)
    BY AtHolds
  <2>4. JobKept(j) /\ status[j] # "none"
    BY <2>3 DEF JobInv, JobKept, Unborn
  <2>5. status'[j] # "none"
    BY <1>1, <2>4 DEF Statuses
  <2>6. ASSUME j \notin exposed'
        PROVE  /\ status'[j] = "pending" => posts[j] = 0
               /\ status'[j] = "sent" /\ configured => posts[j] > 0
    <3>1. Kept(j)
      BY <2>4, <2>6 DEF JobKept
    <3>2. CASE p \in {"next", "refused"} /\ (s = "sent" => ~configured)
      <4>1. ~Unrecorded(r, j)
        BY <3>2, OneJob DEF Unrecorded
      <4>2. posts[j] = 0 /\ status[j] \in {"pending", "deleted"}
        BY <2>3, <3>1, <4>1 DEF Kept, Fresh
      <4> QED
        BY <1>1, <3>2, <4>2
    <3>3. CASE p = "answered" /\ Update(j, s) /\ s = "sent"
      <4>1. posts[j] = 1
        BY <3>1, <3>3 DEF Kept, Answered
      <4> QED
        BY <1>1, <3>3, <4>1
    <3>4. CASE p = "lost" /\ Update(j, s) /\ s = "failed"
      BY <1>1, <3>4
    <3> QED
      BY <2>6, <3>2, <3>3, <3>4
  <2> QED
    BY <2>2, <2>3, <2>4, <2>5, <2>6, LetGo
<1> QED
  BY <1>2, <1>3

LEMMA processJobKeeps ==
  ASSUME TypeOK, JobInv, NEW r \in Runs, NEW j \in Jobs, processJob(r, j)
  PROVE  \A k \in Jobs : JobKept(k)'
<1> USE DEF rows, history
<1> DEFINE rest == run[r].todo \ {j}
<1>1. rest \in SUBSET (run[r].todo \ {j})
  OBVIOUS
<1>2. CASE Stub(r, j)
  <2>1. Perhaps(j, "sent") /\ "sent" \in Statuses
    BY <1>2 DEF Stub, Perhaps, Statuses
  <2> QED
    BY <1>1, <1>2, <2>1, HandledKeeps DEF Stub, Handled
<1>3. CASE LeavePending(r, j)
  <2>1. Perhaps(j, "failed") /\ "failed" \in Statuses
    BY <1>3 DEF LeavePending, Perhaps, Statuses
  <2> QED
    BY <1>1, <1>3, <2>1, HandledKeeps DEF LeavePending, Handled
<1>4. CASE Post(r, j) \/ Accept(r, j) \/ Refuse(r, j)
  BY <1>4, PostKeeps
<1>5. CASE MarkSent(r, j)
  <2>1. Perhaps(j, "sent") /\ "sent" \in Statuses
    BY <1>5 DEF MarkSent, Perhaps, Statuses
  <2> QED
    BY <1>1, <1>5, <2>1, HandledKeeps DEF MarkSent, Handled
<1>6. CASE MarkFailed(r, j)
  <2>1. Perhaps(j, "failed") /\ "failed" \in Statuses
    BY <1>6 DEF MarkFailed, Perhaps, Statuses
  <2> QED
    BY <1>1, <1>6, <2>1, HandledKeeps DEF MarkFailed, Handled
<1> QED
  BY <1>2, <1>3, <1>4, <1>5, <1>6, Zenon DEF processJob

LEMMA AbandonKeeps ==
  ASSUME TypeOK, JobInv, NEW r \in Runs, NEW j \in Jobs, Abandon(r, j)
  PROVE  \A k \in Jobs : JobKept(k)'
<1>1. {} \in SUBSET (run[r].todo \ {j})
  OBVIOUS
<1>2. /\ run' = [run EXCEPT ![r] = From({})]
      /\ configured' = configured /\ posts' = posts
  BY DEF Abandon
<1>3. CASE At(r, j, "next") /\ configured /\ UNCHANGED <<status, exposed>>
  <2>1. Perhaps(j, "failed") /\ "failed" \in Statuses
    BY <1>3 DEF Perhaps, Statuses
  <2> QED
    BY <1>1, <1>2, <1>3, <2>1, HandledKeeps
<1>4. CASE At(r, j, "next") /\ ~configured /\ Perhaps(j, "sent") /\ UNCHANGED exposed
  <2>1. "sent" \in Statuses
    BY DEF Statuses
  <2> QED
    BY <1>1, <1>2, <1>4, <2>1, HandledKeeps
<1>5. CASE At(r, j, "lost") /\ Perhaps(j, "failed") /\ exposed' = exposed \cup {j}
  <2>1. "failed" \in Statuses /\ exposed \subseteq exposed' /\ j \in exposed'
    BY <1>5 DEF Statuses
  <2> QED
    BY <1>1, <1>2, <1>5, <2>1, HandledKeeps
<1> QED
  BY <1>3, <1>4, <1>5 DEF Abandon

\* The runs of an instance end where they are.
LEMMA CrashKeeps ==
  ASSUME TypeOK, JobInv, NEW i \in Instances, Crash(i)
  PROVE  \A j \in Jobs : JobKept(j)'
<1> SUFFICES ASSUME NEW j \in Jobs PROVE JobKept(j)'
  OBVIOUS
<1>1. /\ status' = status /\ posts' = posts /\ configured' = configured
      /\ exposed \subseteq exposed'
  BY DEF Crash, rows
<1>2. ASSUME NEW r \in Runs, r[1] = i
      PROVE  ~Holds(r, j)' /\ (j \notin exposed' => ~Unrecorded(r, j))
  <2>1. run'[r].todo = {}
    BY <1>2, FromFacts DEF Crash
  <2> QED
    BY <1>2, <2>1 DEF Crash, Holds
<1>3. ASSUME NEW r \in Runs, r[1] # i
      PROVE  /\ Holds(r, j)' <=> Holds(r, j)
             /\ Unrecorded(r, j)' <=> Unrecorded(r, j)
             /\ At(r, j, "answered")' <=> At(r, j, "answered")
  <2>1. run'[r] = run[r]
    BY <1>3 DEF Crash
  <2> QED
    BY <2>1 DEF Holds, Unrecorded, At
<1>4. ASSUME NEW r \in Runs, j \notin exposed'
      PROVE  /\ Unrecorded(r, j)' <=> Unrecorded(r, j)
             /\ At(r, j, "answered")' => At(r, j, "answered")
  BY <1>2, <1>3, <1>4, AtHoldsNext
<1>5. \A r \in Runs : Holds(r, j)' => Holds(r, j)
  BY <1>2, <1>3
<1> QED
  BY <1>1, <1>4, <1>5, Undisturbed DEF JobInv

LEMMA JobStep == TypeOK /\ JobInv /\ [Next]_vars => JobInv'
<1> SUFFICES ASSUME TypeOK, JobInv, [Next]_vars PROVE JobInv'
  OBVIOUS
<1>1. CASE \E j \in Jobs : Enqueue(j) \/ Delete(j)
  BY <1>1, RoutesKeep DEF JobInv
<1>2. CASE \E t \in Tenants : provisionVenue(t)
  BY <1>2 DEF provisionVenue, history, JobInv, JobKept, Unborn, Kept, Alone, Fresh, Answered,
              Once, Holds, Unrecorded, At
<1>3. CASE \E r \in Runs : Tick(r)
  BY <1>3, TickKeeps DEF JobInv
<1>4. CASE \E r \in Runs, j \in Jobs : processJob(r, j) \/ MarkFails(r, j) \/ Abandon(r, j)
  BY <1>4, processJobKeeps, MarkFailsKeeps, AbandonKeeps DEF JobInv
<1>5. CASE \E i \in Instances : Crash(i)
  BY <1>5, CrashKeeps DEF JobInv
<1>6. CASE UNCHANGED vars
  BY <1>6 DEF vars, rows, history, JobInv, JobKept, Unborn, Kept, Alone, Fresh, Answered, Once,
              Holds, Unrecorded, At
<1> QED
  BY <1>1, <1>2, <1>3, <1>4, <1>5, <1>6 DEF Next

\* For any number of instances and overlapping runs: the posting service is given a job twice
\* only if two runs held it at once or a run ended between the post and its record; any other
\* pending job was not posted, and a job that is sent was (processJob).
THEOREM PostsOnce == Spec => []PostedOnce
<1>1. Init => IInv
  BY InitType, InitJobs DEF IInv
<1>2. IInv /\ [Next]_vars => IInv'
  BY TypeStep, JobStep DEF IInv
<1>3. IInv => PostedOnce
  BY DEF IInv, JobInv, JobKept, Kept, Once, PostedOnce
<1> QED
  BY <1>1, <1>2, <1>3, PTL DEF Spec

-----------------------------------------------------------------------------
(* Outcomes *)

\* A run that is about to record an outcome finds the job as it was selected, or deleted.
LEMMA BeforeRecord ==
  ASSUME IInv, NEW r \in Runs, NEW j \in Jobs \ exposed, NEW p \in {"next", "answered", "refused"},
         At(r, j, p)
  PROVE  status[j] \in {"pending", "deleted"}
<1>1. Kept(j) /\ Holds(r, j)
  BY AtHolds DEF IInv, JobInv, JobKept
<1>2. CASE p = "answered"
  BY <1>1, <1>2 DEF Kept, Answered
<1>3. CASE p # "answered"
  <2>1. ~Unrecorded(r, j)
    BY <1>3, OneJob DEF Unrecorded
  <2> QED
    BY <1>1, <2>1 DEF Kept, Fresh
<1> QED
  BY <1>2, <1>3

\* What becomes of the status of a job that has an outcome.
Stays(j) == \/ status'[j] \in {status[j], "deleted"}
            \/ \E r \in Runs : At(r, j, "lost") /\ MarkFailed(r, j)

LEMMA OutcomeKept ==
  ASSUME IInv, Next, NEW j \in Jobs \ exposed', status[j] \in {"sent", "failed"}
  PROVE  Stays(j)
<1> USE DEF rows, history
<1>1. j \notin exposed
  BY DEF Next, Enqueue, Delete, provisionVenue, Tick, processJob, Stub, LeavePending, Post, Accept,
         Refuse, MarkSent, MarkFailed, MarkFails, Abandon, Crash
<1>2. TypeOK
  BY DEF IInv
<1>3. \A r \in Runs : ~At(r, j, "next") /\ ~At(r, j, "answered") /\ ~At(r, j, "refused")
  BY <1>1, BeforeRecord
<1>4. ASSUME NEW k \in Jobs, Enqueue(k) \/ Delete(k)
      PROVE  Stays(j)
  <2>1. Enqueue(k) => k # j
    BY DEF Enqueue
  <2> QED
    BY <1>2, <1>4, <2>1 DEF Enqueue, Delete, TypeOK, Stays
<1>5. ASSUME NEW r \in Runs, NEW k \in Jobs, processJob(r, k) \/ MarkFails(r, k) \/ Abandon(r, k)
      PROVE  Stays(j)
  <2>1. ASSUME k # j
        PROVE  status'[j] = status[j]
    BY <1>2, <1>5, <2>1
    DEF processJob, Stub, LeavePending, Post, Accept, Refuse, MarkSent, MarkFailed, MarkFails,
        Abandon, Perhaps, Update, TypeOK
  <2>2. ASSUME k = j, ~(At(r, j, "lost") /\ MarkFailed(r, j))
        PROVE  status' = status
    <3>1. CASE processJob(r, j)
      BY <1>3, <2>2, <3>1
      DEF processJob, Stub, LeavePending, Post, Accept, Refuse, MarkSent, MarkFailed
    <3>2. CASE MarkFails(r, j)
      BY <1>3, <3>2 DEF MarkFails
    <3>3. CASE Abandon(r, j)
      BY <1>3, <3>3 DEF Abandon
    <3> QED
      BY <1>5, <2>2, <3>1, <3>2, <3>3
  <2> QED
    BY <2>1, <2>2 DEF Stays
<1>6. CASE \/ \E t \in Tenants : provisionVenue(t)
           \/ \E r \in Runs : Tick(r)
           \/ \E i \in Instances : Crash(i)
  BY <1>6 DEF provisionVenue, Tick, Crash, Stays
<1> QED
  BY <1>4, <1>5, <1>6 DEF Next

\* For any number of instances and overlapping runs, and with no lock: the outcome of a job
\* that one run alone held is recorded once, and only the catch block ever overrules it
\* (processJob of social-worker.js).
THEOREM OutcomesStay == Spec => OutcomeStays
<1> DEFINE A == \A j \in Jobs \ exposed' : status[j] \in {"sent", "failed"} =>
                  \/ status'[j] \in {status[j], "deleted"}
                  \/ \E r \in Runs : At(r, j, "lost") /\ MarkFailed(r, j)
<1>1. Init => IInv
  BY InitType, InitJobs DEF IInv
<1>2. IInv /\ [Next]_vars => IInv'
  BY TypeStep, JobStep DEF IInv
<1>3. IInv /\ [Next]_vars => [A]_vars
  BY OutcomeKept DEF Stays
<1> QED
  BY <1>1, <1>2, <1>3, PTL DEF Spec, OutcomeStays

-----------------------------------------------------------------------------
(* The bound on posts *)

\* No outcome of the job is recorded.
NoOutcome(j) == status[j] \in {"none", "pending"}

\* The runs that may still post the job once without another fault. A run that has posted
\* and not recorded it is not one; to become one again it must end without a record.
MayPost(j) == {r \in Runs : ~Unrecorded(r, j) /\ (NoOutcome(j) \/ Holds(r, j))}

BoundFor(j) == posts[j] + Cardinality(MayPost(j)) <= Cardinality(Runs) + Overlap * faults

BoundInv == TypeOK /\ \A j \in Jobs : BoundFor(j)

LEMMA RunsFinite ==
  /\ IsFiniteSet(Runs)
  /\ Cardinality(Runs) \in Nat
  /\ \A i \in Instances : LET own == {r \in Runs : r[1] = i}
                          IN  IsFiniteSet(own) /\ Cardinality(own) = Overlap
<1>1. IsFiniteSet(1..Overlap) /\ Cardinality(1..Overlap) = Overlap
  BY FS_Interval, SocialAssumption
<1>2. IsFiniteSet(Runs)
  BY <1>1, FS_Product, SocialAssumption DEF Runs
<1>3. ASSUME NEW i \in Instances
      PROVE  LET own == {r \in Runs : r[1] = i} IN IsFiniteSet(own) /\ Cardinality(own) = Overlap
  <2>1. {r \in Runs : r[1] = i} = {i} \X (1..Overlap)
    BY DEF Runs
  <2>2. IsFiniteSet({i}) /\ Cardinality({i}) = 1
    BY FS_Singleton
  <2>3. IsFiniteSet({i} \X (1..Overlap)) /\ Cardinality({i} \X (1..Overlap)) = 1 * Overlap
    BY <1>1, <2>2, FS_Product
  <2>4. 1 * Overlap = Overlap
    BY SocialAssumption
  <2> QED
    BY <2>1, <2>3, <2>4, Zenon
<1> QED
  BY <1>2, <1>3, FS_CardinalityType

LEMMA MayPostFinite ==
  ASSUME NEW j
  PROVE  /\ MayPost(j) \in SUBSET Runs
         /\ IsFiniteSet(MayPost(j))
         /\ Cardinality(MayPost(j)) \in Nat
<1>1. MayPost(j) \in SUBSET Runs
  BY DEF MayPost
<1> QED
  BY <1>1, RunsFinite, FS_Subset, FS_CardinalityType

LEMMA MayPostFiniteNext ==
  ASSUME NEW j
  PROVE  /\ MayPost(j)' \in SUBSET Runs
         /\ IsFiniteSet(MayPost(j)')
         /\ Cardinality(MayPost(j)') \in Nat
<1>1. MayPost(j)' \in SUBSET Runs
  BY DEF MayPost
<1> QED
  BY <1>1, RunsFinite, FS_Subset, FS_CardinalityType

LEMMA FaultRaises ==
  ASSUME NEW n \in Nat
  PROVE  Overlap * n \in Nat /\ Overlap * (n + 1) = Overlap * n + Overlap
BY SocialAssumption

\* No more runs may post it, and it was not posted.
LEMMA FewerKeep ==
  ASSUME TypeOK, NEW j \in Jobs, BoundFor(j), posts'[j] = posts[j], faults' \in {faults, faults + 1},
         MayPost(j)' \in SUBSET MayPost(j)
  PROVE  BoundFor(j)'
<1>1. faults \in Nat /\ posts[j] \in Nat
  BY SocialAssumption DEF TypeOK
<1>2. Cardinality(MayPost(j)') <= Cardinality(MayPost(j))
  BY MayPostFinite, FS_Subset
<1>3. /\ Overlap * faults \in Nat /\ Overlap * faults' \in Nat
      /\ Overlap * faults <= Overlap * faults'
  <2>1. Overlap * faults \in Nat /\ Overlap * (faults + 1) = Overlap * faults + Overlap
    BY <1>1, FaultRaises
  <2>2. CASE faults' = faults
    BY <2>1, <2>2
  <2>3. CASE faults' = faults + 1
    BY <2>1, <2>3, SocialAssumption
  <2> QED
    BY <2>2, <2>3
<1>4. BoundFor(j)' <=> posts'[j] + Cardinality(MayPost(j)') <= Cardinality(Runs) + Overlap * faults'
  BY DEF BoundFor
<1> QED
  BY <1>1, <1>2, <1>3, <1>4, MayPostFinite, MayPostFiniteNext, RunsFinite DEF BoundFor

\* A fault sets some runs free, no more than an instance has.
LEMMA FreedKeep ==
  ASSUME TypeOK, NEW j \in Jobs, BoundFor(j), posts'[j] = posts[j], faults' = faults + 1,
         NEW freed \in SUBSET Runs, IsFiniteSet(freed), Cardinality(freed) <= Overlap,
         MayPost(j)' \in SUBSET (MayPost(j) \cup freed)
  PROVE  BoundFor(j)'
<1>1. faults \in Nat /\ posts[j] \in Nat
  BY SocialAssumption DEF TypeOK
<1>2. /\ IsFiniteSet(MayPost(j) \cup freed)
      /\ Cardinality(MayPost(j) \cup freed) <= Cardinality(MayPost(j)) + Cardinality(freed)
  <2>1. IsFiniteSet(MayPost(j) \cap freed)
    BY MayPostFinite, FS_Intersection
  <2>2. Cardinality(MayPost(j) \cap freed) \in Nat
    BY <2>1, FS_CardinalityType
  <2>3. Cardinality(freed) \in Nat
    BY FS_CardinalityType
  <2>4. IsFiniteSet(MayPost(j)) /\ Cardinality(MayPost(j)) \in Nat
    BY MayPostFinite
  <2>5. /\ IsFiniteSet(MayPost(j) \cup freed)
        /\ Cardinality(MayPost(j) \cup freed)
             = Cardinality(MayPost(j)) + Cardinality(freed) - Cardinality(MayPost(j) \cap freed)
    BY <2>4, FS_Union
  <2> QED
    BY <2>2, <2>3, <2>4, <2>5
<1>3. Cardinality(MayPost(j)') <= Cardinality(MayPost(j) \cup freed)
  BY <1>2, FS_Subset
<1>4. Cardinality(MayPost(j) \cup freed) \in Nat /\ Cardinality(freed) \in Nat
  BY <1>2, FS_CardinalityType
<1>5. BoundFor(j)' <=> posts'[j] + Cardinality(MayPost(j)') <= Cardinality(Runs) + Overlap * faults'
  BY DEF BoundFor
<1>6. Overlap * faults' = Overlap * faults + Overlap /\ Overlap * faults \in Nat
  BY <1>1, FaultRaises
<1> QED
  BY <1>1, <1>2, <1>3, <1>4, <1>5, <1>6, MayPostFinite, MayPostFiniteNext, RunsFinite, SocialAssumption
  DEF BoundFor

\* The rows: an outcome is never taken back, so none but the runs that hold the job may post
\* it from then on.
LEMMA OutcomeLasts ==
  ASSUME TypeOK, NEW j \in Jobs, NEW k \in Jobs, NEW s \in Statuses \ {"pending"},
         Perhaps(k, s) \/ UNCHANGED status
  PROVE  NoOutcome(j)' => NoOutcome(j)
BY DEF TypeOK, NoOutcome, Perhaps, Update, Statuses

\* A step of run r, as far as the others are concerned; r itself is freed at most.
LEMMA OneRunMoves ==
  ASSUME NEW j \in Jobs, NEW r \in Runs, \A o \in Runs : o # r => run'[o] = run[o],
         NoOutcome(j)' => NoOutcome(j), Holds(r, j)' => Holds(r, j) \/ NoOutcome(j)
  PROVE  /\ MayPost(j)' \in SUBSET (MayPost(j) \cup {r})
         /\ (Unrecorded(r, j) => r \notin MayPost(j)') => MayPost(j)' \in SUBSET MayPost(j)
<1>1. ASSUME NEW o \in Runs, o # r
      PROVE  (Unrecorded(o, j)' <=> Unrecorded(o, j)) /\ (Holds(o, j)' <=> Holds(o, j))
  BY <1>1 DEF Unrecorded, Holds, At
<1>2. ASSUME NEW o \in MayPost(j)', o # r
      PROVE  o \in MayPost(j)
  BY <1>1, <1>2 DEF MayPost
<1>3. r \in MayPost(j)' /\ ~Unrecorded(r, j) => r \in MayPost(j)
  BY DEF MayPost
<1> QED
  BY <1>2, <1>3

-----------------------------------------------------------------------------
(* Every step keeps the bound *)

LEMMA InitBound == Init => BoundInv
<1> SUFFICES ASSUME Init, NEW j \in Jobs PROVE BoundFor(j)
  BY InitType DEF BoundInv
<1>1. posts[j] = 0 /\ faults = 0
  BY DEF Init
<1>2. Cardinality(MayPost(j)) <= Cardinality(Runs)
  BY MayPostFinite, RunsFinite, FS_Subset
<1> QED
  BY <1>1, <1>2, MayPostFinite, RunsFinite, SocialAssumption DEF BoundFor

\* A run that has a job before it, or is posting it, has posted none that is not recorded.
LEMMA Recorded ==
  ASSUME NEW j \in Jobs, NEW k \in Jobs, NEW r, NEW p, At(r, k, p), j # k \/ p \notin {"answered", "lost"}
  PROVE  ~Unrecorded(r, j)
BY OneJob DEF Unrecorded

LEMMA RoutesKeepBound ==
  ASSUME TypeOK, NEW j \in Jobs, BoundFor(j),
         \/ \E k \in Jobs : Enqueue(k) \/ Delete(k)
         \/ \E t \in Tenants : provisionVenue(t)
         \/ UNCHANGED vars
  PROVE  BoundFor(j)'
<1>1. UNCHANGED <<run, posts, faults>>
  BY DEF Enqueue, Delete, provisionVenue, vars, history
<1>2. NoOutcome(j)' => NoOutcome(j)
  BY DEF Enqueue, Delete, provisionVenue, vars, rows, NoOutcome, TypeOK, Statuses
<1>3. MayPost(j)' \in SUBSET MayPost(j)
  BY <1>1, <1>2 DEF MayPost, Unrecorded, At, Holds
<1> QED
  BY <1>1, <1>3, FewerKeep

LEMMA TickKeepsBound ==
  ASSUME TypeOK, NEW j \in Jobs, BoundFor(j), NEW r \in Runs, Tick(r)
  PROVE  BoundFor(j)'
<1>1. UNCHANGED <<status, posts, faults>> /\ run' = [run EXCEPT ![r] = From(Batch)]
  BY DEF Tick, rows
<1>2. run'[r].todo = Batch /\ \A o \in Runs : o # r => run'[o] = run[o]
  BY <1>1, FromStep, BatchFacts
<1>3. Holds(r, j)' => NoOutcome(j)
  BY <1>2, BatchFacts DEF Holds, NoOutcome
<1>4. ~Unrecorded(r, j)
  BY DEF Tick, Unrecorded, At
<1> QED
  BY <1>1, <1>2, <1>3, <1>4, OneRunMoves, FewerKeep DEF NoOutcome

LEMMA SelectedKeepBound ==
  ASSUME TypeOK, NEW j \in Jobs, BoundFor(j), NEW r \in Runs, NEW k \in Jobs,
         Stub(r, k) \/ LeavePending(r, k) \/ Post(r, k) \/ Refuse(r, k)
  PROVE  BoundFor(j)'
<1>1. UNCHANGED <<posts, faults>> /\ (Update(k, "sent") \/ UNCHANGED status)
  BY DEF Stub, LeavePending, Post, Refuse, history, rows
<1>2. PICK p \in {"next", "posting"} : At(r, k, p)
  BY DEF Stub, LeavePending, Post, Refuse
<1>3. /\ \A o \in Runs : o # r => run'[o] = run[o]
      /\ run'[r].todo \subseteq run[r].todo
  <2>1. CASE Handled(r, k)
    <3>1. run[r].todo \ {k} \in SUBSET Jobs
      BY DEF TypeOK
    <3>2. /\ \A o \in Runs : o # r => run'[o] = run[o]
          /\ run'[r].todo = run[r].todo \ {k}
      BY <2>1, <3>1, FromStep DEF Handled
    <3> QED
      BY <3>2
  <2>2. CASE \E q \in {"posting", "refused", "lost"} : To(r, q)
    BY <1>2, <2>2, ToFacts DEF Phases
  <2> QED
    BY <2>1, <2>2 DEF Stub, LeavePending, Post, Refuse
<1>4. NoOutcome(j)' => NoOutcome(j)
  BY <1>1, OutcomeLasts DEF Perhaps, Statuses
<1>5. ~Unrecorded(r, j)
  BY <1>2, Recorded
<1> QED
  BY <1>1, <1>3, <1>4, <1>5, OneRunMoves, FewerKeep DEF Holds

LEMMA AcceptKeepsBound ==
  ASSUME TypeOK, NEW j \in Jobs, BoundFor(j), NEW r \in Runs, NEW k \in Jobs, Accept(r, k)
  PROVE  BoundFor(j)'
<1>1. UNCHANGED <<status, faults>> /\ posts' = [posts EXCEPT ![k] = @ + 1] /\ At(r, k, "posting")
  BY DEF Accept, rows, history
<1>2. PICK q \in {"answered", "lost"} : To(r, q)
  BY DEF Accept
<1>3. /\ \A o \in Runs : run'[o].todo = run[o].todo
      /\ \A o \in Runs : o # r => run'[o] = run[o]
      /\ run'[r].phase = q
  BY <1>1, <1>2, ToFacts DEF Phases
<1>4. ~Unrecorded(r, j) /\ (NoOutcome(j)' => NoOutcome(j))
  BY <1>1, Recorded DEF NoOutcome
<1>5. MayPost(j)' \in SUBSET MayPost(j)
  BY <1>3, <1>4, OneRunMoves DEF Holds
<1>6. CASE j # k
  <2>1. posts'[j] = posts[j]
    BY <1>1, <1>6 DEF TypeOK
  <2> QED
    BY <1>1, <1>5, <2>1, FewerKeep
<1>7. CASE j = k
  <2>1. r \in MayPost(j)
    BY <1>1, <1>4, <1>7 DEF MayPost, Holds, At
  <2>2. Unrecorded(r, j)'
    BY <1>1, <1>3, <1>7 DEF Unrecorded, At
  <2>3. MayPost(j)' \in SUBSET (MayPost(j) \ {r})
    BY <1>5, <2>2 DEF MayPost
  <2>4. /\ IsFiniteSet(MayPost(j) \ {r})
        /\ Cardinality(MayPost(j) \ {r}) = Cardinality(MayPost(j)) - 1
    BY <2>1, MayPostFinite, FS_RemoveElement
  <2>5. Cardinality(MayPost(j)') <= Cardinality(MayPost(j)) - 1
    BY <2>3, <2>4, FS_Subset
  <2>6. posts'[j] = posts[j] + 1 /\ posts[j] \in Nat /\ faults \in Nat
    BY <1>1, <1>7, SocialAssumption DEF TypeOK
  <2>7. BoundFor(j)' <=> posts'[j] + Cardinality(MayPost(j)') <= Cardinality(Runs) + Overlap * faults'
    BY DEF BoundFor
  <2>8. Overlap * faults' = Overlap * faults /\ Overlap * faults \in Nat
    BY <1>1, <2>6, FaultRaises
  <2> QED
    BY <2>5, <2>6, <2>7, <2>8, MayPostFinite, MayPostFiniteNext, RunsFinite DEF BoundFor
<1> QED
  BY <1>6, <1>7

\* Recording the outcome ends NoOutcome, and so the run is not one that may post it.
LEMMA RecordKeepsBound ==
  ASSUME TypeOK, NEW j \in Jobs, BoundFor(j), NEW r \in Runs, NEW k \in Jobs,
         MarkSent(r, k) \/ MarkFailed(r, k)
  PROVE  BoundFor(j)'
<1>1. UNCHANGED <<posts, faults>> /\ Handled(r, k)
  BY DEF MarkSent, MarkFailed, history
<1>2. PICK s \in {"sent", "failed"} : Update(k, s)
  BY DEF MarkSent, MarkFailed
<1>3. PICK p \in Phases : At(r, k, p)
  BY DEF MarkSent, MarkFailed, Phases
<1>4. /\ \A o \in Runs : o # r => run'[o] = run[o]
      /\ run'[r].todo = run[r].todo \ {k}
  <2>1. run[r].todo \ {k} \in SUBSET Jobs
    BY DEF TypeOK
  <2> QED
    BY <1>1, <2>1, FromStep DEF Handled
<1>5. NoOutcome(j)' => NoOutcome(j)
  BY <1>2, OutcomeLasts DEF Perhaps, Statuses
<1>6. Unrecorded(r, j) => r \notin MayPost(j)'
  <2>1. CASE j # k
    BY <1>3, <2>1, Recorded
  <2>2. CASE j = k
    <3>1. ~NoOutcome(k)'
      BY <1>2, UpdateFacts DEF Statuses, Perhaps, NoOutcome
    <3> QED
      BY <1>4, <2>2, <3>1 DEF MayPost, Holds
  <2> QED
    BY <2>1, <2>2
<1> QED
  BY <1>1, <1>4, <1>5, <1>6, OneRunMoves, FewerKeep DEF Holds

LEMMA MarkFailsKeepsBound ==
  ASSUME TypeOK, NEW j \in Jobs, BoundFor(j), NEW r \in Runs, NEW k \in Jobs, MarkFails(r, k)
  PROVE  BoundFor(j)'
<1>1. UNCHANGED posts /\ faults' = faults + 1 /\ To(r, "lost")
  BY DEF MarkFails, Fault
<1>2. PICK s \in {"sent", "failed"} : Perhaps(k, s)
  BY DEF MarkFails
<1>3. PICK p \in {"answered", "refused"} : At(r, k, p)
  BY DEF MarkFails
<1>4. /\ \A o \in Runs : run'[o].todo = run[o].todo
      /\ \A o \in Runs : o # r => run'[o] = run[o]
      /\ run'[r].phase = "lost"
  BY <1>1, <1>3, ToFacts DEF Phases
<1>5. NoOutcome(j)' => NoOutcome(j)
  BY <1>2, OutcomeLasts DEF Statuses
<1>6. Unrecorded(r, j) => Unrecorded(r, j)'
  <2>1. CASE j # k
    BY <1>3, <2>1, Recorded
  <2>2. CASE j = k
    BY <1>3, <1>4, <2>2 DEF Unrecorded, At
  <2> QED
    BY <2>1, <2>2
<1>7. Unrecorded(r, j) => r \notin MayPost(j)'
  BY <1>6 DEF MayPost
<1> QED
  BY <1>1, <1>4, <1>5, <1>7, OneRunMoves, FewerKeep DEF Holds

LEMMA AbandonKeepsBound ==
  ASSUME TypeOK, NEW j \in Jobs, BoundFor(j), NEW r \in Runs, NEW k \in Jobs, Abandon(r, k)
  PROVE  BoundFor(j)'
<1>1. UNCHANGED posts /\ faults' = faults + 1 /\ run' = [run EXCEPT ![r] = From({})]
  BY DEF Abandon, Fault
<1>2. run'[r].todo = {} /\ \A o \in Runs : o # r => run'[o] = run[o]
  BY <1>1, FromStep, {} \in SUBSET Jobs
<1>3. ~Holds(r, j)'
  BY <1>2 DEF Holds
<1>4. NoOutcome(j)' => NoOutcome(j)
  BY OutcomeLasts DEF Abandon, Statuses
<1>5. MayPost(j)' \in SUBSET (MayPost(j) \cup {r})
  BY <1>2, <1>3, <1>4, OneRunMoves
<1>6. IsFiniteSet({r}) /\ Cardinality({r}) = 1
  BY FS_Singleton
<1>7. 1 <= Overlap
  BY SocialAssumption DEF Runs
<1> QED
  BY <1>1, <1>5, <1>6, <1>7, FreedKeep

LEMMA CrashKeepsBound ==
  ASSUME TypeOK, NEW j \in Jobs, BoundFor(j), NEW i \in Instances, Crash(i)
  PROVE  BoundFor(j)'
<1> DEFINE own == {r \in Runs : r[1] = i}
<1>1. /\ UNCHANGED <<status, posts>> /\ faults' = faults + 1
      /\ run' = [r \in Runs |-> IF r[1] = i THEN From({}) ELSE run[r]]
  BY DEF Crash, Fault, rows
<1>2. ASSUME NEW o \in Runs, o \notin own
      PROVE  run'[o] = run[o]
  BY <1>1, <1>2
<1>3. ASSUME NEW o \in MayPost(j)', o \notin own
      PROVE  o \in MayPost(j)
  BY <1>1, <1>2, <1>3 DEF MayPost, Unrecorded, At, Holds, NoOutcome
<1>4. MayPost(j)' \in SUBSET (MayPost(j) \cup own)
  BY <1>3
<1>5. own \in SUBSET Runs /\ IsFiniteSet(own) /\ Cardinality(own) = Overlap
  BY RunsFinite
<1> HIDE DEF own
<1> QED
  BY <1>1, <1>4, <1>5, FreedKeep, SocialAssumption

LEMMA BoundStep == BoundInv /\ [Next]_vars => BoundInv'
<1> SUFFICES ASSUME BoundInv, [Next]_vars, NEW j \in Jobs PROVE BoundFor(j)'
  BY TypeStep DEF BoundInv
<1>1. TypeOK /\ BoundFor(j)
  BY DEF BoundInv
<1>2. CASE \/ \E k \in Jobs : Enqueue(k) \/ Delete(k)
           \/ \E t \in Tenants : provisionVenue(t)
           \/ UNCHANGED vars
  BY <1>1, <1>2, RoutesKeepBound
<1>3. CASE \E r \in Runs : Tick(r)
  BY <1>1, <1>3, TickKeepsBound
<1>4. CASE \E r \in Runs, k \in Jobs : processJob(r, k)
  BY <1>1, <1>4, SelectedKeepBound, AcceptKeepsBound, RecordKeepsBound DEF processJob
<1>5. CASE \E r \in Runs, k \in Jobs : MarkFails(r, k) \/ Abandon(r, k)
  BY <1>1, <1>5, MarkFailsKeepsBound, AbandonKeepsBound
<1>6. CASE \E i \in Instances : Crash(i)
  BY <1>1, <1>6, CrashKeepsBound
<1> QED
  BY <1>2, <1>3, <1>4, <1>5, <1>6 DEF Next

\* Whatever runs overlap, on one instance or several, and whatever statements, answers and
\* processes are lost: a job is given to the service at most as often as runs fit beside each
\* other, and as often again as an instance has runs for every fault (social-worker.js:18-36,
\* 105-146).
THEOREM PostsAreBounded == Spec => []PostsBounded
<1>1. BoundInv => PostsBounded
  <2> SUFFICES ASSUME BoundInv, NEW j \in Jobs
               PROVE  posts[j] <= Cardinality(Runs) + Overlap * faults
    BY DEF PostsBounded
  <2>1. posts[j] \in Nat /\ faults \in Nat
    BY SocialAssumption DEF BoundInv, TypeOK
  <2>2. Overlap * faults \in Nat
    BY <2>1, FaultRaises
  <2> QED
    BY <2>1, <2>2, MayPostFinite, RunsFinite DEF BoundInv, BoundFor
<1> QED
  BY <1>1, InitBound, BoundStep, PTL DEF Spec

=============================================================================
