---------------------------- MODULE Deployments ----------------------------
(***************************************************************************)
(* Canary deployment of corpus versions in services/cms-api: the routes    *)
(* advance and abort of deployment-approval.ts and rollback of             *)
(* corpus-rollback.ts over the append-only table corpus_deployments.       *)
(*                                                                         *)
(* Every check of a route is a query of its own; only the INSERT is in a   *)
(* transaction.  The latest row of a group is the one with the largest     *)
(* deployed_at, which is now(): the time its transaction began, not the    *)
(* time its row became visible.                                            *)
(*                                                                         *)
(* Abstracted: times are stamps in the order transactions begin; a stage   *)
(* is its index in CANARY_STAGE_ORDER; the health gate passes or not.  Who *)
(* publishes a version and who freezes the fleet is not in the source.     *)
(***************************************************************************)
EXTENDS Integers, Sequences, FiniteSets

CONSTANTS Groups,         \* deployment groups
          Versions,       \* corpus versions
          NoVersion,      \* not a version
          Requests,       \* requests the service handles at once
          CanaryLimit,    \* MAX_CONCURRENT_CANARIES
          RollbackLimit,  \* ROLLBACK_RATE_LIMIT
          HealthTable,    \* is there a table player_state?  runHealthChecks reads it, no migration makes it
          History,        \* rows the table starts with, all more than an hour old
          OldRows,        \* how many of them are more than a week old
          MaxRows,        \* bound: rows inserted
          MaxEvents       \* bound: publications, freezes and pauses

VARIABLES table,      \* rows of corpus_deployments in the order they were committed
          published,  \* published_at of each version, 0 while there is none
          clock,      \* the last stamp
          hour,       \* the last stamp that is more than an hour old
          week,       \* the last stamp that is more than seven days old
          freeze,     \* rows there were when the active freeze began, or NotFrozen
          request,    \* the requests being handled
          events      \* how many events of the surroundings there were

vars == <<table, published, clock, hour, week, freeze, request, events>>

-----------------------------------------------------------------------------
(* States *)

Shadow == 0
Authoritative == 5
Stages == Shadow..Authoritative
Canary == 1..3           \* INTERNAL_CANARY, SINGLE_VENUE, MULTI_VENUE
VenueCanary == 2..3      \* SINGLE_VENUE, MULTI_VENUE

NotFrozen == -1

Row == [group : Groups, version : Versions, stage : Stages, at : Nat,
        by : {"publish", "advance", "abort", "rollback"}]

Idle == [phase |-> "idle"]

\* unfrozen, read: checks of advance; aborting: of abort; rated: of rollback; checked: all passed;
\* begun: its row is not visible yet.  History: seen, rows there were at its first read of the table.
Working == [phase : {"unfrozen", "read", "aborting", "rated", "checked", "begun"},
            by : {"advance", "abort", "rollback"}, group : Groups,
            version : Versions \cup {NoVersion}, stage : Stages, at : Nat, seen : Nat]

Request == {Idle} \cup Working

\* History is a table without overlaps: published rows, and the advances that follow them.
ASSUME DeploymentsAssumption ==
  /\ NoVersion \notin Versions
  /\ IsFiniteSet(Requests) /\ Requests # {}
  /\ CanaryLimit \in Nat \ {0}
  /\ RollbackLimit \in Nat \ {0}
  /\ HealthTable \in BOOLEAN
  /\ MaxRows \in Nat
  /\ MaxEvents \in Nat
  /\ History \in Seq(Row)
  /\ OldRows \in 0..Len(History)
  /\ \A i \in DOMAIN History :
       /\ History[i].at = i
       /\ i > OldRows => History[i].stage = Shadow
       /\ \A s \in Shadow..History[i].stage - 1 :
            \E j \in 1..i - 1 : /\ History[j].group = History[i].group
                                /\ History[j].version = History[i].version
                                /\ History[j].stage = s

\* A version of History was published with the first row that has it.
Init == /\ table = History
        /\ published \in [Versions -> 0..Len(History)]
        /\ \A v \in Versions :
             LET rows == {i \in DOMAIN History : History[i].version = v}
             IN  IF rows = {} THEN published[v] = 0
                 ELSE published[v] \in rows /\ \A i \in rows : published[v] =< i
        /\ clock = Len(History)
        /\ hour = clock
        /\ week = OldRows
        /\ freeze = NotFrozen
        /\ request = [q \in Requests |-> Idle]
        /\ events = 0

RowsOf(g) == {i \in DOMAIN table : table[i].group = g}

\* ORDER BY deployed_at DESC LIMIT 1.
LatestOf(rows) == {i \in rows : \A j \in rows : table[j].at =< table[i].at}

\* Mutant: ORDER BY deployed_at LIMIT 1.
OldestOf(rows) == {i \in rows : \A j \in rows : table[j].at >= table[i].at}

Latest(g) == LatestOf(RowsOf(g))

AuthoritativeRows(g) == {i \in RowsOf(g) : table[i].stage = Authoritative}

\* Rows in a canary stage of the last seven days.
CanaryRows(g) == {i \in RowsOf(g) : table[i].stage \in Canary /\ table[i].at > week}

OtherCanaries(g) == {i \in DOMAIN table : /\ table[i].group # g
                                          /\ table[i].stage \in Canary
                                          /\ table[i].at > week}

Is(q, phase) == request[q].phase = phase

Goes(q, r) == /\ request' = [request EXCEPT ![q] = r]
              /\ UNCHANGED <<table, published, clock, hour, week, freeze, events>>

-----------------------------------------------------------------------------
(* POST /api/v2/canary/advance *)

\* Mutant: the freeze is not checked.
AdvanceUnchecked(q, g) ==
  /\ Is(q, "idle")
  /\ Goes(q, [phase |-> "unfrozen", by |-> "advance", group |-> g, version |-> NoVersion,
              stage |-> Shadow, at |-> 0, seen |-> 0])

\* Query of constitutional_freeze_active.
Advance(q, g) ==
  /\ Is(q, "idle")
  /\ freeze = NotFrozen
  /\ Goes(q, [phase |-> "unfrozen", by |-> "advance", group |-> g, version |-> NoVersion,
              stage |-> Shadow, at |-> 0, seen |-> 0])

\* Mutant: ORDER BY deployed_at without DESC.
ReadOldestStage(q) ==
  /\ Is(q, "unfrozen")
  /\ \E i \in OldestOf(RowsOf(request[q].group)) :
       /\ table[i].stage < Authoritative
       /\ Goes(q, [request[q] EXCEPT !.phase = "read", !.version = table[i].version,
                                     !.stage = table[i].stage + 1, !.seen = Len(table)])

\* Mutant: a stage may be skipped.
ReadAnyStage(q) ==
  /\ Is(q, "unfrozen")
  /\ \E i \in Latest(request[q].group), s \in Stages :
       /\ s > table[i].stage
       /\ Goes(q, [request[q] EXCEPT !.phase = "read", !.version = table[i].version,
                                     !.stage = s, !.seen = Len(table)])

\* Mutant: the stage after AUTHORITATIVE is not refused.
ReadPastTheEnd(q) ==
  /\ Is(q, "unfrozen")
  /\ \E i \in Latest(request[q].group) :
       Goes(q, [request[q] EXCEPT !.phase = "read", !.version = table[i].version,
                                  !.stage = table[i].stage + 1, !.seen = Len(table)])

\* The latest row of the group; the target has to be the stage after its stage.
ReadStage(q) ==
  /\ Is(q, "unfrozen")
  /\ \E i \in Latest(request[q].group) :
       /\ table[i].stage < Authoritative
       /\ Goes(q, [request[q] EXCEPT !.phase = "read", !.version = table[i].version,
                                     !.stage = table[i].stage + 1, !.seen = Len(table)])

\* Mutant: off by one.
CountCanariesLoosely(q) ==
  /\ Is(q, "read")
  /\ Cardinality(OtherCanaries(request[q].group)) =< CanaryLimit
  /\ Goes(q, [request[q] EXCEPT !.phase = "checked"])

\* The count is of rows, not of groups.
CountCanaries(q) ==
  /\ Is(q, "read")
  /\ Cardinality(OtherCanaries(request[q].group)) < CanaryLimit
  /\ Goes(q, [request[q] EXCEPT !.phase = "checked"])

-----------------------------------------------------------------------------
(* POST /api/v2/canary/abort *)

Abort(q, g) ==
  /\ Is(q, "idle")
  /\ \E i \in Latest(g) : table[i].stage # Authoritative
  /\ Goes(q, [phase |-> "aborting", by |-> "abort", group |-> g, version |-> NoVersion,
              stage |-> Authoritative, at |-> 0, seen |-> Len(table)])

\* The last AUTHORITATIVE row of the group.
FindBaseline(q) ==
  /\ Is(q, "aborting")
  /\ \E i \in LatestOf(AuthoritativeRows(request[q].group)) :
       Goes(q, [request[q] EXCEPT !.phase = "checked", !.version = table[i].version])

-----------------------------------------------------------------------------
(* POST /api/v2/corpus/rollback *)

RollbackRows(g) == {i \in RowsOf(g) : table[i].at > hour}

\* Mutant: off by one.
RollbackLoosely(q, g, v) ==
  /\ Is(q, "idle")
  /\ published[v] > week
  /\ Cardinality(RollbackRows(g)) =< RollbackLimit
  /\ Goes(q, [phase |-> "rated", by |-> "rollback", group |-> g, version |-> v,
              stage |-> Authoritative, at |-> 0, seen |-> Len(table)])

\* The version exists and is young enough; every row of the last hour counts as a rollback.
Rollback(q, g, v) ==
  /\ Is(q, "idle")
  /\ published[v] > week
  /\ Cardinality(RollbackRows(g)) < RollbackLimit
  /\ Goes(q, [phase |-> "rated", by |-> "rollback", group |-> g, version |-> v,
              stage |-> Authoritative, at |-> 0, seen |-> Len(table)])

\* Any row counts, not the latest: a group that was ever in such a stage is refused.
CheckCanary(q) ==
  /\ Is(q, "rated")
  /\ \A i \in RowsOf(request[q].group) : table[i].stage \notin VenueCanary
  /\ Goes(q, [request[q] EXCEPT !.phase = "checked"])

-----------------------------------------------------------------------------
(* The transaction, which only inserts *)

\* BEGIN fixes now(); before it an advance passes the health gate, whose queries fail without the table.
Begin(q) ==
  /\ Is(q, "checked")
  /\ request[q].by = "advance" => HealthTable
  /\ clock < Len(History) + MaxRows
  /\ clock' = clock + 1
  /\ request' = [request EXCEPT ![q].phase = "begun", ![q].at = clock + 1]
  /\ UNCHANGED <<table, published, hour, week, freeze, events>>

RowOf(r) == [group |-> r.group, version |-> r.version, stage |-> r.stage, at |-> r.at,
             by |-> r.by]

Commit(q) ==
  /\ Is(q, "begun")
  /\ table' = Append(table, RowOf(request[q]))
  /\ request' = [request EXCEPT ![q] = Idle]
  /\ UNCHANGED <<published, clock, hour, week, freeze, events>>

\* A check or the health gate fails, or the database does.
Refuse(q) ==
  /\ ~Is(q, "idle")
  /\ Goes(q, Idle)

-----------------------------------------------------------------------------
(* Surroundings *)

Event == events < MaxEvents /\ events' = events + 1

\* A version is published to a group: its first row is SHADOW_ONLY by default.
Publish(g, v) ==
  /\ Event
  /\ clock < Len(History) + MaxRows
  /\ clock' = clock + 1
  /\ published' = [published EXCEPT ![v] = IF @ = 0 THEN clock + 1 ELSE @]
  /\ table' = Append(table, [group |-> g, version |-> v, stage |-> Shadow, at |-> clock + 1,
                             by |-> "publish"])
  /\ UNCHANGED <<hour, week, freeze, request>>

\* The fleet enters EMERGENCY_FREEZE, or an administrator sets exit_at.
Freeze == /\ Event
          /\ freeze = NotFrozen
          /\ freeze' = Len(table)
          /\ UNCHANGED <<table, published, clock, hour, week, request>>

Unfreeze == /\ freeze # NotFrozen
            /\ freeze' = NotFrozen
            /\ UNCHANGED <<table, published, clock, hour, week, request, events>>

\* An hour, or a week, in which nothing happens.
Pause == /\ Event
         /\ hour' = clock
         /\ week' \in {week, clock}
         /\ UNCHANGED <<table, published, clock, freeze, request>>

Step(q) == \/ \E g \in Groups : Advance(q, g) \/ Abort(q, g)
           \/ \E g \in Groups, v \in Versions : Rollback(q, g, v)
           \/ ReadStage(q) \/ CountCanaries(q)
           \/ FindBaseline(q)
           \/ CheckCanary(q)
           \/ Begin(q) \/ Commit(q) \/ Refuse(q)

Next == \/ \E q \in Requests : Step(q)
        \/ \E g \in Groups, v \in Versions : Publish(g, v)
        \/ Freeze \/ Unfreeze
        \/ Pause

Spec == Init /\ [][Next]_vars

-----------------------------------------------------------------------------
(* Properties *)


\* The variables are well typed; no two rows have the same time, and no row is from the future.
TypeOK == /\ table \in Seq(Row)
          /\ published \in [Versions -> Nat]
          /\ clock \in Nat
          /\ hour \in 0..clock
          /\ week \in 0..hour
          /\ freeze \in {NotFrozen} \cup 0..Len(table)
          /\ request \in [Requests -> Request]
          /\ events \in Nat
          /\ \A i \in DOMAIN table : table[i].at \in 1..clock
          /\ \A i, j \in DOMAIN table : table[i].at = table[j].at => i = j

\* Version v was made AUTHORITATIVE for g by a rollback among the first n rows.
RolledBack(g, v, n) == \E k \in 1..n : /\ table[k].group = g
                                       /\ table[k].version = v
                                       /\ table[k].by = "rollback"

\* Stages are sequential (rule 1 of deployment-approval.ts): whatever requests overlap, a version
\* is in a stage of a group only after it was in every stage before, or after a rollback to it.
LadderClimbed ==
  \A i \in DOMAIN table :
    \/ RolledBack(table[i].group, table[i].version, i)
    \/ \A s \in Shadow..table[i].stage - 1 :
         \E j \in 1..i - 1 : /\ table[j].group = table[i].group
                             /\ table[j].version = table[i].version
                             /\ table[j].stage = s
                             /\ table[j].at < table[i].at

\* Groups with a canary of the last seven days (rule 6): requests that overlap can exceed the
\* limit, but only by as many as are handled at once.
CanaryLimitHolds ==
  Cardinality({g \in Groups : CanaryRows(g) # {}}) =< CanaryLimit + Cardinality(Requests) - 1

\* Rollbacks of one group within an hour: the same bound for their limit.
RollbackLimitHolds ==
  \A g \in Groups : Cardinality({i \in RollbackRows(g) : table[i].by = "rollback"})
                       =< RollbackLimit + Cardinality(Requests) - 1

\* Rows advance inserted after the active freeze began.
FrozenAdvances == {i \in DOMAIN table : i > freeze /\ table[i].by = "advance"}

\* A freeze stops all advances (rule 2) but those that were past its check when it began.
FreezeHolds ==
  freeze # NotFrozen => Cardinality(FrozenAdvances) =< Cardinality(Requests)

\* No other row of its group became visible since the request first read the table.
Undisturbed(q) ==
  \A i \in DOMAIN table : i > request[q].seen => table[i].group # request[q].group

\* What a route promises about the rows there are when its own becomes visible.
Promised(r) ==
  CASE r.by = "advance" -> \A i \in Latest(r.group) : /\ table[i].version = r.version
                                                      /\ table[i].stage + 1 = r.stage
    [] r.by = "abort" -> /\ \A i \in Latest(r.group) : table[i].stage # Authoritative
                         /\ \A i \in LatestOf(AuthoritativeRows(r.group)) :
                              table[i].version = r.version
    [] r.by = "rollback" -> \A i \in RowsOf(r.group) : table[i].stage \notin VenueCanary

\* A request that no other of its group overtakes does what one atomic transaction would do, and
\* its row becomes the current one: checks and INSERT are apart, and deployed_at is not the order
\* in which rows become visible.
AtomicWhenUndisturbed ==
  [][\A q \in Requests : Commit(q) /\ Undisturbed(q) =>
       /\ Promised(request[q])
       /\ \A i \in RowsOf(request[q].group) : table[i].at < request[q].at]_vars

\* An abort restores (deployment-approval.ts:309): the version it makes AUTHORITATIVE was so for
\* the group before, whatever was published or rolled back while it ran.
AbortRestores ==
  \A i \in DOMAIN table : i > Len(History) /\ table[i].by = "abort" =>
    \E j \in 1..i - 1 : /\ table[j].group = table[i].group
                        /\ table[j].version = table[i].version
                        /\ table[j].stage = Authoritative
                        /\ table[j].at < table[i].at

=============================================================================
