---------------------------- MODULE SocialWorker ----------------------------
(***************************************************************************)
(* Cross-posting to social media: POST /content enqueues jobs              *)
(* (routes/content.js), a timer of every instance picks up the pending     *)
(* ones and posts them (lib/social-worker.js), for venues that have been   *)
(* provisioned with the posting service (lib/cognito-bridge.js).           *)
(*                                                                         *)
(* A tick of the timer starts a run although earlier runs of the instance  *)
(* have not ended: setInterval() does not wait. A run holds the rows it    *)
(* selected, which no row lock protects, and handles them one by one.      *)
(*                                                                         *)
(* Abstracted: a job is its place in the order of created_at. Each job has *)
(* a content of its own, as with the one platform the interface sends. The *)
(* text of a post is left out.                                             *)
(***************************************************************************)
EXTENDS Integers, FiniteSets

CONSTANTS Jobs,        \* the jobs that may be enqueued, by created_at
          Tenants,
          TenantOf,    \* the tenant of each job
          Instances,   \* backend instances, each with its timer
          Overlap,     \* bound: runs of one instance at the same time
          Limit,       \* rows a run selects: 10 in the code
          MaxDeletes,  \* bound: jobs whose content is deleted
          MaxFaults    \* bound: failed statements and crashes

ASSUME SocialAssumption == /\ Jobs \subseteq Nat
                           /\ TenantOf \in [Jobs -> Tenants]
                           /\ IsFiniteSet(Instances)
                           /\ Limit \in Nat \ {0}
                           /\ Overlap \in Nat
                           /\ MaxDeletes \in Nat
                           /\ MaxFaults \in Nat

VARIABLES configured,  \* whether service key and base URL are set; fixed by Init
          status,      \* status of each row of social_jobs
          mapped,      \* tenants with a row in cognito_mappings
          run,         \* where each run is, and the rows it has still to handle
          posts,       \* how often the service accepted each job
          exposed,     \* history: jobs that two runs held at the same time, or whose run
                       \* ended between the post and its record
          faults       \* how many faults there were

rows == <<status, mapped>>
history == <<exposed, faults>>
vars == <<configured, rows, run, posts, history>>

-----------------------------------------------------------------------------
(* States *)

Runs == Instances \X (1..Overlap)

Statuses == {"pending", "sent", "failed"}

\* next: about to handle the first row of todo; posting: its request is sent; answered: with
\* success; refused: with another status; lost: in the catch block.
Phases == {"idle", "next", "posting", "answered", "refused", "lost"}

\* The run has nothing to do any more exactly when it has ended.
From(todo) == [phase |-> IF todo = {} THEN "idle" ELSE "next", todo |-> todo]

Pending == {j \in Jobs : status[j] = "pending"}

\* Mutant: the SELECT forgets the status.
BatchOfAny == LET rest == {j \in Jobs : status[j] \in Statuses}
              IN  {j \in rest : Cardinality({k \in rest : k < j}) < Limit}

\* SELECT ... WHERE status = 'pending' ORDER BY created_at ASC LIMIT 10
Batch == {j \in Pending : Cardinality({k \in Pending : k < j}) < Limit}

\* Run r is at job j, in the given phase.
At(r, j, phase) == /\ run[r].phase = phase
                   /\ j \in run[r].todo
                   /\ \A k \in run[r].todo : j <= k

\* Run r has sent a post of job j that may have been accepted, and has not recorded it.
Unrecorded(r, j) == At(r, j, "answered") \/ At(r, j, "lost")

TypeOK == /\ configured \in BOOLEAN
          /\ status \in [Jobs -> Statuses \cup {"none", "deleted"}]
          /\ mapped \subseteq Tenants
          /\ configured \/ mapped = {}
          /\ run \in [Runs -> [phase : Phases, todo : SUBSET Jobs]]
          /\ \A r \in Runs : run[r].todo = {} <=> run[r].phase = "idle"
          /\ posts \in [Jobs -> Nat]
          /\ exposed \subseteq Jobs
          /\ faults \in 0..MaxFaults

Init == /\ configured \in BOOLEAN
        /\ status = [j \in Jobs |-> "none"]
        /\ mapped \in SUBSET Tenants
        /\ configured \/ mapped = {}
        /\ run = [r \in Runs |-> From({})]
        /\ posts = [j \in Jobs |-> 0]
        /\ exposed = {}
        /\ faults = 0

-----------------------------------------------------------------------------
(* The routes *)

\* POST /content with cross_post.
Enqueue(j) == /\ status[j] = "none"
              /\ \A k \in Jobs : k < j => status[k] # "none"
              /\ status' = [status EXCEPT ![j] = "pending"]
              /\ UNCHANGED <<configured, mapped, run, posts, history>>

\* DELETE /content/:id; the rows of social_jobs go with it.
Delete(j) == /\ status[j] \in Statuses
             /\ Cardinality({k \in Jobs : status[k] = "deleted"}) < MaxDeletes
             /\ status' = [status EXCEPT ![j] = "deleted"]
             /\ UNCHANGED <<configured, mapped, run, posts, history>>

\* Mutant: the key is not looked at before the tenant is provisioned.
provisionVenueAlways(t) == /\ mapped' = mapped \cup {t}
                           /\ UNCHANGED <<configured, status, run, posts, history>>

\* POST /tenants does not wait for it, and nothing repeats it when it fails.
provisionVenue(t) == /\ configured
                     /\ mapped' = mapped \cup {t}
                     /\ UNCHANGED <<configured, status, run, posts, history>>

-----------------------------------------------------------------------------
(* A run of the worker *)

Tick(r) == /\ run[r].phase = "idle"
           /\ Batch # {}
           /\ run' = [run EXCEPT ![r] = From(Batch)]
           /\ exposed' = exposed \cup
                {j \in Batch : \E q \in Runs : q # r /\ j \in run[q].todo}
           /\ UNCHANGED <<configured, rows, posts, faults>>

To(r, phase) == run' = [run EXCEPT ![r].phase = phase]

Handled(r, j) == run' = [run EXCEPT ![r] = From(run[r].todo \ {j})]

\* UPDATE social_jobs SET status = s WHERE id = j, whatever the status is by now. A row that
\* was deleted is not there to be updated.
Update(j, s) == status' = IF status[j] = "deleted" THEN status
                                                   ELSE [status EXCEPT ![j] = s]

\* Without the service key nothing is posted.
Stub(r, j) == /\ ~configured
              /\ At(r, j, "next")
              /\ Update(j, "sent")
              /\ Handled(r, j)
              /\ UNCHANGED <<configured, mapped, posts, history>>

\* Mutant: the first job without a mapping ends the run.
LeavePendingEnds(r, j) == /\ configured
                          /\ At(r, j, "next")
                          /\ TenantOf[j] \notin mapped
                          /\ run' = [run EXCEPT ![r] = From({})]
                          /\ UNCHANGED <<configured, rows, posts, history>>

LeavePending(r, j) == /\ configured
                      /\ At(r, j, "next")
                      /\ TenantOf[j] \notin mapped
                      /\ Handled(r, j)
                      /\ UNCHANGED <<configured, rows, posts, history>>

Post(r, j) == /\ configured
              /\ At(r, j, "next")
              /\ TenantOf[j] \in mapped
              /\ To(r, "posting")
              /\ UNCHANGED <<configured, rows, posts, history>>

\* The service accepts the post; its answer arrives, or is lost (15 s are over, no JSON).
Accept(r, j) == /\ At(r, j, "posting")
                /\ posts' = [posts EXCEPT ![j] = @ + 1]
                /\ To(r, "answered") \/ To(r, "lost")
                /\ UNCHANGED <<configured, rows, history>>

\* It refuses the post, or is not reached.
Refuse(r, j) == /\ At(r, j, "posting")
                /\ To(r, "refused") \/ To(r, "lost")
                /\ UNCHANGED <<configured, rows, posts, history>>

MarkSent(r, j) == /\ At(r, j, "answered")
                  /\ Update(j, "sent")
                  /\ Handled(r, j)
                  /\ UNCHANGED <<configured, mapped, posts, history>>

MarkFailed(r, j) == /\ At(r, j, "refused") \/ At(r, j, "lost")
                    /\ Update(j, "failed")
                    /\ Handled(r, j)
                    /\ UNCHANGED <<configured, mapped, posts, history>>

processJob(r, j) == \/ Stub(r, j) \/ LeavePending(r, j) \/ Post(r, j)
                    \/ Accept(r, j) \/ Refuse(r, j)
                    \/ MarkSent(r, j) \/ MarkFailed(r, j)

-----------------------------------------------------------------------------
(* Faults *)

Fault == faults < MaxFaults /\ faults' = faults + 1

\* A statement that throws may have been executed.
Perhaps(j, s) == UNCHANGED status \/ Update(j, s)

\* Inside the try block: the catch block is next.
MarkFails(r, j) == /\ Fault
                   /\ \/ At(r, j, "answered") /\ Perhaps(j, "sent")
                      \/ At(r, j, "refused") /\ Perhaps(j, "failed")
                   /\ To(r, "lost")
                   /\ UNCHANGED <<configured, mapped, posts, exposed>>

\* Outside of it: the error ends the run, the rest of its rows is not handled.
Abandon(r, j) == /\ Fault
                 /\ \/ /\ At(r, j, "next")
                       /\ IF configured THEN UNCHANGED status ELSE Perhaps(j, "sent")
                       /\ UNCHANGED exposed
                    \/ /\ At(r, j, "lost")
                       /\ Perhaps(j, "failed")
                       /\ exposed' = exposed \cup {j}
                 /\ run' = [run EXCEPT ![r] = From({})]
                 /\ UNCHANGED <<configured, mapped, posts>>

\* The instance dies, and starts again.
Crash(i) == /\ Fault
            /\ \E r \in Runs : r[1] = i /\ run[r].phase # "idle"
            /\ run' = [r \in Runs |-> IF r[1] = i THEN From({}) ELSE run[r]]
            /\ exposed' = exposed \cup
                 {j \in Jobs : \E r \in Runs : r[1] = i /\ Unrecorded(r, j)}
            /\ UNCHANGED <<configured, rows, posts>>

-----------------------------------------------------------------------------
Next == \/ \E j \in Jobs : Enqueue(j) \/ Delete(j)
        \/ \E t \in Tenants : provisionVenue(t)
        \/ \E r \in Runs : Tick(r)
        \/ \E r \in Runs, j \in Jobs : processJob(r, j) \/ MarkFails(r, j) \/ Abandon(r, j)
        \/ \E i \in Instances : Crash(i)

Spec == Init /\ [][Next]_vars

\* The timer of an instance goes on, and a run does: its statements are answered or throw,
\* its requests end after 15 s.
Fairness == /\ \A i \in Instances : WF_vars(\E k \in 1..Overlap : Tick(<<i, k>>))
            /\ \A r \in Runs : WF_vars(\E j \in Jobs : processJob(r, j))

FairSpec == Spec /\ Fairness

-----------------------------------------------------------------------------
(* Properties *)

\* Posted once: the service is given a job a second time only if two runs held it at the same
\* time, or a run ended before it had recorded the outcome. Otherwise a job that is pending
\* was not posted, unless it is being posted now; and one that is sent was, if the worker
\* posts at all. The SELECT takes no lock; what keeps runs apart is the status alone.
PostedOnce == \A j \in Jobs \ exposed :
                 /\ posts[j] <= 1
                 /\ status[j] = "pending" /\ posts[j] > 0 => \E r \in Runs : Unrecorded(r, j)
                 /\ status[j] = "sent" /\ configured => posts[j] > 0

\* A job for which the SELECT or the mapping has no room: its venue is not provisioned, or
\* as many older jobs of such venues are pending as a run selects.
Starved(j) == /\ configured
              /\ \/ TenantOf[j] \notin mapped
                 \/ Cardinality({k \in Pending : k < j /\ TenantOf[k] \notin mapped}) >= Limit

\* Every job is concluded: none stays pending for ever, whatever the service answers and
\* however many jobs come before it, except one that is starved. (The worker leaves a job of
\* a venue without mapping pending, and such jobs keep their places in the LIMIT.)
Concluded == \A j \in Jobs : <>[](status[j] = "pending") => <>[]Starved(j)

\* An outcome stays: unless two runs held the job or one ended before its record, nothing
\* changes a job that is sent or failed but its deletion, and the catch block, which
\* overrules an UPDATE that was executed and yet threw (social-worker.js:105-138).
OutcomeStays ==
  [][\A j \in Jobs \ exposed' : status[j] \in {"sent", "failed"} =>
       \/ status'[j] \in {status[j], "deleted"}
       \/ \E r \in Runs : At(r, j, "lost") /\ MarkFailed(r, j)]_vars

\* How often the service may be given one job although nothing claims a row: at most once by
\* each run there can be at a time, and once more by each run that a fault sets free before
\* it has recorded what it posted. For, a run that records an outcome ends the status
\* pending, and no run takes the job up again (social-worker.js:18-36, 105-146).
PostsBounded == \A j \in Jobs : posts[j] <= Cardinality(Runs) + Overlap * faults

=============================================================================
