------------------------- MODULE DeploymentsProofs -------------------------
(***************************************************************************)
(* Proofs about Deployments, for any groups, versions, limits and number   *)
(* of requests handled at once.                                            *)
(***************************************************************************)
EXTENDS Deployments, FiniteSetTheorems, TLAPS

-----------------------------------------------------------------------------
(* Types *)

\* What the phase of a request says of its other fields.
Sound(q) ==
  ~Is(q, "idle") =>
    /\ request[q] \in Working
    /\ request[q].phase \in {"unfrozen", "read"} => request[q].by = "advance"
    /\ request[q].phase = "aborting" => request[q].by = "abort"
    /\ request[q].phase = "rated" => request[q].by = "rollback"
    /\ request[q].phase \in {"read", "rated", "checked", "begun"} => request[q].version \in Versions
    /\ request[q].seen =< Len(table)
    /\ request[q].by # "advance" => request[q].stage = Authoritative

\* No two rows have the same time, whether they are visible yet or not.
Stamped ==
  \A q \in Requests : Is(q, "begun") =>
    /\ request[q].at \in 1..clock
    /\ \A i \in DOMAIN table : table[i].at # request[q].at
    /\ \A p \in Requests : Is(p, "begun") /\ request[p].at = request[q].at => p = q

TInv == TypeOK /\ Stamped /\ \A q \in Requests : Sound(q)

\* One row more.
LEMMA Appended ==
  ASSUME table \in Seq(Row), NEW row \in Row, table' = Append(table, row)
  PROVE  /\ table' \in Seq(Row)
         /\ Len(table) \in Nat
         /\ Len(table') = Len(table) + 1
         /\ DOMAIN table = 1..Len(table)
         /\ DOMAIN table' = 1..Len(table) + 1
         /\ \A i \in DOMAIN table : i \in DOMAIN table' /\ table'[i] = table[i]
         /\ table'[Len(table) + 1] = row
  OBVIOUS

LEMMA InitType == Init => TInv
  <1> SUFFICES ASSUME Init PROVE TInv
    OBVIOUS
  <1>1. /\ table \in Seq(Row) /\ Len(table) \in Nat /\ DOMAIN table = 1..Len(table)
        /\ \A i \in DOMAIN table : table[i].at = i
        /\ OldRows \in 0..Len(table)
    BY DeploymentsAssumption DEF Init
  <1>2. \A q \in Requests : request[q] = Idle /\ Is(q, "idle") /\ ~Is(q, "begun")
    BY DEF Init, Idle, Is
  <1>3. request \in [Requests -> Request]
    BY DEF Init, Request
  <1>4. published \in [Versions -> Nat]
    <2>1. 0..Len(History) \subseteq Nat
      OBVIOUS
    <2> QED BY <2>1 DEF Init
  <1>5. TypeOK
    BY <1>1, <1>3, <1>4 DEF Init, TypeOK
  <1> QED BY <1>2, <1>5 DEF TInv, Stamped, Sound

\* A step of a request that only changes the request.
LEMMA GoesType ==
  ASSUME TInv, NEW q \in Requests, NEW r, Goes(q, r), r.phase # "begun",
         \/ r = Idle
         \/ /\ r \in Working
            /\ r.phase \in {"unfrozen", "read"} => r.by = "advance"
            /\ r.phase = "aborting" => r.by = "abort"
            /\ r.phase = "rated" => r.by = "rollback"
            /\ r.phase \in {"read", "rated", "checked"} => r.version \in Versions
            /\ r.seen =< Len(table)
            /\ r.by # "advance" => r.stage = Authoritative
  PROVE  TInv'
  <1>1. /\ request' = [request EXCEPT ![q] = r]
        /\ UNCHANGED <<table, published, clock, hour, week, freeze, events>>
    BY DEF Goes
  <1>2. /\ request \in [Requests -> Request] /\ request'[q] = r
        /\ \A p \in Requests : p # q => request'[p] = request[p]
    BY <1>1 DEF TInv, TypeOK
  <1>3. r \in Request
    BY DEF Request
  <1>4. TypeOK'
    BY <1>1, <1>3 DEF TInv, TypeOK
  <1>5. Stamped'
    BY <1>1, <1>2 DEF TInv, Stamped, Is
  <1>6. Sound(q)'
    BY <1>1, <1>2 DEF Sound, Is, Idle
  <1>7. \A p \in Requests : p # q => Sound(p)'
    BY <1>1, <1>2 DEF TInv, Sound, Is
  <1> QED BY <1>4, <1>5, <1>6, <1>7 DEF TInv

\* The fields of a request that works.
LEMMA Works ==
  ASSUME TInv, NEW q \in Requests, ~Is(q, "idle")
  PROVE  /\ request[q] \in Working /\ Sound(q)
         /\ request[q].group \in Groups /\ request[q].stage \in Stages
         /\ request[q].seen \in Nat /\ request[q].at \in Nat
  BY DEF TInv, Sound, Working

LEMMA Rows ==
  ASSUME TInv
  PROVE  /\ table \in Seq(Row) /\ Len(table) \in Nat /\ DOMAIN table = 1..Len(table)
         /\ \A i \in DOMAIN table : table[i] \in Row /\ table[i].stage \in Stages
                                    /\ table[i].version \in Versions /\ table[i].at \in 1..clock
         /\ clock \in Nat
  <1>1. table \in Seq(Row) /\ Len(table) \in Nat /\ DOMAIN table = 1..Len(table) /\ clock \in Nat
        /\ \A i \in DOMAIN table : table[i].at \in 1..clock
    BY DEF TInv, TypeOK
  <1>2. \A i \in DOMAIN table : table[i] \in Row
    BY <1>1
  <1>3. \A i \in DOMAIN table : table[i].stage \in Stages /\ table[i].version \in Versions
    BY <1>2 DEF Row
  <1> QED BY <1>1, <1>2, <1>3

LEMMA LatestIsOne ==
  ASSUME TInv, NEW rows \in SUBSET DOMAIN table, NEW i \in LatestOf(rows), NEW j \in LatestOf(rows)
  PROVE  i = j
  BY Rows DEF LatestOf, TInv, TypeOK

LEMMA ReadType ==
  ASSUME TInv, NEW q \in Requests, ReadStage(q) \/ CountCanaries(q) \/ FindBaseline(q) \/ CheckCanary(q)
  PROVE  TInv'
  <1>1. ~Is(q, "idle")
    BY DEF ReadStage, CountCanaries, FindBaseline, CheckCanary, Is
  <1>2. request[q] \in Working /\ Sound(q)
    BY <1>1, Works
  <1>3. CASE ReadStage(q)
    <2>1. PICK i \in Latest(request[q].group) :
            /\ table[i].stage < Authoritative
            /\ Goes(q, [request[q] EXCEPT !.phase = "read", !.version = table[i].version,
                                          !.stage = table[i].stage + 1, !.seen = Len(table)])
      BY <1>3 DEF ReadStage
    <2> DEFINE r == [request[q] EXCEPT !.phase = "read", !.version = table[i].version,
                                       !.stage = table[i].stage + 1, !.seen = Len(table)]
    <2>2. /\ table[i].version \in Versions /\ table[i].stage + 1 \in Stages
          /\ Len(table) \in Nat /\ request[q].by = "advance"
      <3>1. i \in DOMAIN table
        BY DEF Latest, LatestOf, RowsOf
      <3>2. table[i].version \in Versions /\ table[i].stage \in Stages /\ Len(table) \in Nat
        BY <3>1, Rows
      <3>3. table[i].stage + 1 \in Stages
        BY <3>2, <2>1 DEF Stages, Shadow, Authoritative
      <3>4. request[q].by = "advance"
        BY <1>3, <1>1, <1>2 DEF ReadStage, Is, Sound
      <3> QED BY <3>2, <3>3, <3>4
    <2>3. r \in Working /\ r.phase = "read" /\ r.version \in Versions /\ r.seen = Len(table)
          /\ r.by = "advance"
      BY <1>2, <2>2 DEF Working
    <2>4. r.seen =< Len(table)
      BY <2>2, <2>3
    <2> QED BY <2>1, <2>3, <2>4, GoesType
  <1>4. CASE CountCanaries(q) \/ CheckCanary(q)
    <2> DEFINE r == [request[q] EXCEPT !.phase = "checked"]
    <2>1. request[q].phase \in {"read", "rated"} /\ Goes(q, r)
      BY <1>4 DEF CountCanaries, CheckCanary, Is
    <2>2. r \in Working /\ r.phase = "checked" /\ r.version = request[q].version /\ r.by = request[q].by
          /\ r.seen = request[q].seen /\ r.stage = request[q].stage
      BY <1>2 DEF Working
    <2>3. /\ r.version \in Versions /\ r.seen =< Len(table)
          /\ r.by # "advance" => r.stage = Authoritative
      BY <1>1, <1>2, <2>1, <2>2 DEF Sound
    <2> QED BY <2>1, <2>2, <2>3, GoesType
  <1>5. CASE FindBaseline(q)
    <2>1. PICK i \in LatestOf(AuthoritativeRows(request[q].group)) :
            Goes(q, [request[q] EXCEPT !.phase = "checked", !.version = table[i].version])
      BY <1>5 DEF FindBaseline
    <2> DEFINE r == [request[q] EXCEPT !.phase = "checked", !.version = table[i].version]
    <2>2. table[i].version \in Versions
      BY Rows DEF LatestOf, AuthoritativeRows, RowsOf
    <2>3. r \in Working /\ r.phase = "checked" /\ r.version \in Versions /\ r.by = request[q].by
          /\ r.seen = request[q].seen /\ r.stage = request[q].stage
      BY <1>2, <2>2 DEF Working
    <2>4. r.seen =< Len(table) /\ (r.by # "advance" => r.stage = Authoritative)
      BY <1>1, <1>2, <2>3 DEF Sound
    <2> QED BY <2>1, <2>3, <2>4, GoesType
  <1> QED BY <1>3, <1>4, <1>5

LEMMA AskType ==
  ASSUME TInv, NEW q \in Requests, NEW g \in Groups,
         Advance(q, g) \/ Abort(q, g) \/ \E v \in Versions : Rollback(q, g, v)
  PROVE  TInv'
  <1>1. Len(table) \in Nat /\ Len(table) =< Len(table)
    BY Rows
  <1>2. CASE Advance(q, g)
    <2> DEFINE r == [phase |-> "unfrozen", by |-> "advance", group |-> g, version |-> NoVersion,
                     stage |-> Shadow, at |-> 0, seen |-> 0]
    <2>1. r \in Working
      BY DEF Working, Stages, Shadow, Authoritative
    <2>2. Goes(q, r)
      BY <1>2 DEF Advance
    <2> QED BY <1>1, <2>1, <2>2, GoesType
  <1>3. CASE Abort(q, g)
    <2> DEFINE r == [phase |-> "aborting", by |-> "abort", group |-> g, version |-> NoVersion,
                     stage |-> Authoritative, at |-> 0, seen |-> Len(table)]
    <2>1. r \in Working
      BY <1>1 DEF Working, Stages, Shadow, Authoritative
    <2>2. Goes(q, r)
      BY <1>3 DEF Abort
    <2> QED BY <1>1, <2>1, <2>2, GoesType
  <1>4. ASSUME NEW v \in Versions, Rollback(q, g, v)
        PROVE  TInv'
    <2> DEFINE r == [phase |-> "rated", by |-> "rollback", group |-> g, version |-> v,
                     stage |-> Authoritative, at |-> 0, seen |-> Len(table)]
    <2>1. r \in Working
      BY <1>1 DEF Working, Stages, Shadow, Authoritative
    <2>2. Goes(q, r)
      BY <1>4 DEF Rollback
    <2> QED BY <1>1, <2>1, <2>2, GoesType
  <1> QED BY <1>2, <1>3, <1>4

LEMMA BeginType ==
  ASSUME TInv, NEW q \in Requests, Begin(q)
  PROVE  TInv'
  <1>1. ~Is(q, "idle")
    BY DEF Begin, Is
  <1>2. request[q] \in Working /\ Sound(q)
    BY <1>1, Works
  <1> DEFINE r == [request[q] EXCEPT !.phase = "begun", !.at = clock + 1]
  <1>3. clock \in Nat /\ clock' = clock + 1 /\ UNCHANGED <<table, published, hour, week, freeze, events>>
    BY DEF Begin, TInv, TypeOK
  <1>4. /\ request \in [Requests -> Request] /\ request' = [request EXCEPT ![q] = r]
        /\ request'[q] = r /\ \A p \in Requests : p # q => request'[p] = request[p]
    BY DEF Begin, TInv, TypeOK
  <1>5. r \in Working /\ r.phase = "begun" /\ r.at = clock + 1 /\ r.version = request[q].version
        /\ r.by = request[q].by /\ r.seen = request[q].seen /\ r.stage = request[q].stage
    <2>1. clock + 1 \in Nat /\ request[q] \in Working
      BY <1>2, <1>3
    <2> QED BY <2>1 DEF Working
  <1>6. TypeOK'
    <2>1. request' \in [Requests -> Request]
      BY <1>4, <1>5 DEF Request
    <2> QED BY <1>3, <2>1 DEF TInv, TypeOK
  <1>7. Stamped'
    <2>1. \A p \in Requests : p # q /\ Is(p, "begun")' => request[p].at \in 1..clock /\ Is(p, "begun")
      BY <1>4 DEF TInv, Stamped, Is
    <2>2. \A i \in DOMAIN table : table[i].at \in 1..clock
      BY DEF TInv, TypeOK
    <2> QED BY <1>3, <1>4, <1>5, <2>1, <2>2 DEF TInv, Stamped, Is
  <1>8. Sound(q)'
    BY <1>1, <1>2, <1>3, <1>4, <1>5 DEF Begin, Sound, Is
  <1>9. \A p \in Requests : p # q => Sound(p)'
    BY <1>3, <1>4 DEF TInv, Sound, Is
  <1> QED BY <1>6, <1>7, <1>8, <1>9 DEF TInv

\* The row of a request that has begun.
LEMMA BegunRow ==
  ASSUME TInv, NEW q \in Requests, Is(q, "begun")
  PROVE  RowOf(request[q]) \in Row
  <1>1. ~Is(q, "idle")
    BY DEF Is
  <1> QED BY <1>1, Works DEF RowOf, Row, Sound, Working, Is

LEMMA CommitType ==
  ASSUME TInv, NEW q \in Requests, Commit(q)
  PROVE  TInv'
  <1> DEFINE row == RowOf(request[q])
  <1>1. row \in Row /\ row.at = request[q].at
    BY BegunRow DEF Commit, RowOf
  <1>2. table' = Append(table, row) /\ UNCHANGED <<published, clock, hour, week, freeze, events>>
    BY DEF Commit
  <1>3. /\ table \in Seq(Row) /\ table' \in Seq(Row) /\ Len(table) \in Nat
        /\ Len(table') = Len(table) + 1
        /\ DOMAIN table = 1..Len(table) /\ DOMAIN table' = 1..Len(table) + 1
        /\ \A i \in DOMAIN table : i \in DOMAIN table' /\ table'[i] = table[i]
        /\ table'[Len(table) + 1] = row
    BY <1>1, <1>2, Appended DEF TInv, TypeOK
  <1>4. /\ request' = [request EXCEPT ![q] = Idle] /\ request'[q] = Idle
        /\ \A p \in Requests : p # q => request'[p] = request[p]
    BY DEF Commit, TInv, TypeOK
  <1>5. request[q].at \in 1..clock /\ \A i \in DOMAIN table : table[i].at # request[q].at
    BY DEF Commit, TInv, Stamped
  <1>6. \A i \in DOMAIN table' : \/ i \in DOMAIN table /\ table'[i] = table[i]
                                 \/ i = Len(table) + 1 /\ table'[i] = row
    BY <1>3
  <1>7. TypeOK'
    <2>1. request' \in [Requests -> Request]
      BY <1>4 DEF TInv, TypeOK, Request
    <2>2. freeze' \in {NotFrozen} \cup 0..Len(table')
      BY <1>2, <1>3 DEF TInv, TypeOK
    <2>3. \A i \in DOMAIN table' : table'[i].at \in 1..clock'
      BY <1>1, <1>2, <1>5, <1>6 DEF TInv, TypeOK
    <2>4. \A i, j \in DOMAIN table' : table'[i].at = table'[j].at => i = j
      BY <1>1, <1>5, <1>6 DEF TInv, TypeOK
    <2> QED BY <1>2, <1>3, <2>1, <2>2, <2>3, <2>4 DEF TInv, TypeOK
  <1>8. Stamped'
    <2>1. Is(q, "begun")
      BY DEF Commit
    <2>2. ~Is(q, "begun")' /\ \A p \in Requests : Is(p, "begun")' => p # q /\ Is(p, "begun")
      BY <1>4 DEF Is, Idle
    <2> QED BY <1>1, <1>2, <1>4, <1>6, <2>1, <2>2 DEF TInv, Stamped
  <1>9. \A p \in Requests : Sound(p)'
    <2>1. Sound(q)'
      BY <1>4 DEF Sound, Is, Idle
    <2>2. ASSUME NEW p \in Requests, p # q, ~Is(p, "idle")
          PROVE  request[p].seen \in Nat /\ request[p].seen =< Len(table)
      BY <2>2, Works DEF Sound
    <2>3. ASSUME NEW p \in Requests, p # q
          PROVE  Sound(p)'
      BY <1>3, <1>4, <2>2, <2>3 DEF TInv, Sound, Is
    <2> QED BY <2>1, <2>3
  <1> QED BY <1>7, <1>8, <1>9 DEF TInv

LEMMA PublishType ==
  ASSUME TInv, NEW g \in Groups, NEW v \in Versions, Publish(g, v)
  PROVE  TInv'
  <1> DEFINE row == [group |-> g, version |-> v, stage |-> Shadow, at |-> clock + 1, by |-> "publish"]
  <1>1. clock \in Nat /\ clock' = clock + 1 /\ UNCHANGED <<hour, week, freeze, request>>
    BY DEF Publish, TInv, TypeOK
  <1>2. row \in Row /\ table' = Append(table, row)
    BY <1>1 DEF Publish, Row, Stages, Shadow, Authoritative
  <1>3. /\ table \in Seq(Row) /\ table' \in Seq(Row) /\ Len(table) \in Nat
        /\ Len(table') = Len(table) + 1
        /\ DOMAIN table = 1..Len(table) /\ DOMAIN table' = 1..Len(table) + 1
        /\ \A i \in DOMAIN table : i \in DOMAIN table' /\ table'[i] = table[i]
        /\ table'[Len(table) + 1] = row
    BY <1>2, Appended DEF TInv, TypeOK
  <1>4. \A i \in DOMAIN table' : \/ i \in DOMAIN table /\ table'[i] = table[i] /\ table[i].at \in 1..clock
                                 \/ i = Len(table) + 1 /\ table'[i].at = clock + 1
    BY <1>3 DEF TInv, TypeOK
  <1>5. published' \in [Versions -> Nat] /\ events' \in Nat
    BY <1>1 DEF Publish, Event, TInv, TypeOK
  <1>6. TypeOK'
    <2>1. \A i \in DOMAIN table' : table'[i].at \in 1..clock'
      BY <1>1, <1>4
    <2>2. \A i, j \in DOMAIN table' : table'[i].at = table'[j].at => i = j
      BY <1>1, <1>4 DEF TInv, TypeOK
    <2>3. freeze' \in {NotFrozen} \cup 0..Len(table') /\ hour' \in 0..clock' /\ week' \in 0..hour'
      BY <1>1, <1>3 DEF TInv, TypeOK
    <2> QED BY <1>1, <1>3, <1>5, <2>1, <2>2, <2>3 DEF TInv, TypeOK
  <1>7. Stamped'
    <2>1. \A q \in Requests : Is(q, "begun") => request[q].at \in 1..clock
      BY DEF TInv, Stamped
    <2> QED BY <1>1, <1>4, <2>1 DEF TInv, Stamped, Is
  <1>8. ASSUME NEW p \in Requests
        PROVE  Sound(p)'
    <2>1. ~Is(p, "idle") => request[p].seen \in Nat /\ request[p].seen =< Len(table)
      BY Works DEF Sound
    <2> QED BY <1>1, <1>3, <2>1 DEF TInv, Sound, Is
  <1> QED BY <1>6, <1>7, <1>8 DEF TInv

LEMMA StepType == TInv /\ [Next]_vars => TInv'
  <1> SUFFICES ASSUME TInv, [Next]_vars PROVE TInv'
    OBVIOUS
  <1>1. CASE UNCHANGED vars
    BY <1>1 DEF vars, TInv, TypeOK, Stamped, Sound, Is
  <1>2. ASSUME NEW q \in Requests, Step(q)
        PROVE  TInv'
    <2>1. CASE Refuse(q)
      BY <2>1, GoesType DEF Refuse, Idle
    <2> QED BY <1>2, <2>1, ReadType, AskType, BeginType, CommitType DEF Step
  <1>3. CASE \E g \in Groups, v \in Versions : Publish(g, v)
    BY <1>3, PublishType
  <1>4. CASE Freeze \/ Unfreeze \/ Pause
    <2>1. UNCHANGED <<table, published, clock, request>>
      BY <1>4 DEF Freeze, Unfreeze, Pause
    <2>2. /\ hour' \in 0..clock /\ week' \in 0..hour' /\ freeze' \in {NotFrozen} \cup 0..Len(table)
          /\ events' \in Nat
      BY <1>4, Rows DEF Freeze, Unfreeze, Pause, Event, TInv, TypeOK
    <2> QED BY <2>1, <2>2 DEF TInv, TypeOK, Stamped, Sound, Is
  <1> QED BY <1>1, <1>2, <1>3, <1>4 DEF Next

\* Every reachable state is well typed, and the times of the rows are all different, so that
\* "the latest row" names one row (deployment-approval.ts:198-209, 347-353).
THEOREM TypeCorrect == Spec => []TypeOK
  <1>1. TInv => TypeOK
    BY DEF TInv
  <1> QED BY <1>1, InitType, StepType, PTL DEF Spec

-----------------------------------------------------------------------------
(* The ladder of stages *)

\* Row j is where request q starts from: the stage before its own, or its baseline.
From(q, j) ==
  /\ table[j].group = request[q].group
  /\ table[j].version = request[q].version
  /\ table[j].stage = IF request[q].by = "advance" THEN request[q].stage - 1 ELSE Authoritative
  /\ Is(q, "begun") => table[j].at < request[q].at

\* What a request has read stays in the table, which is append-only.
Founded(q) ==
  /\ request[q].phase \in {"read", "checked", "begun"}
  /\ request[q].by # "rollback"
  => \E j \in DOMAIN table : From(q, j)

LadderInv == TInv /\ LadderClimbed /\ \A q \in Requests : Founded(q)

\* A row that follows row j of its group and version one stage later, or equals it in stage.
Follows(row, j) ==
  /\ table[j].group = row.group
  /\ table[j].version = row.version
  /\ table[j].at < row.at
  /\ \/ row.stage = table[j].stage + 1
     \/ row.stage = table[j].stage

LEMMA InitLadder == Init => LadderInv
  <1> SUFFICES ASSUME Init PROVE LadderInv
    OBVIOUS
  <1>1. TInv
    BY InitType
  <1>2. LadderClimbed
    <2> SUFFICES ASSUME NEW i \in DOMAIN table, NEW s \in Shadow..table[i].stage - 1
                 PROVE  \E j \in 1..i - 1 : /\ table[j].group = table[i].group
                                            /\ table[j].version = table[i].version
                                            /\ table[j].stage = s
                                            /\ table[j].at < table[i].at
      BY DEF LadderClimbed
    <2>1. PICK j \in 1..i - 1 : /\ table[j].group = table[i].group
                                /\ table[j].version = table[i].version
                                /\ table[j].stage = s
      BY DeploymentsAssumption DEF Init
    <2>2. i \in Nat /\ j \in DOMAIN table /\ j < i
      BY <1>1, Rows
    <2>3. table[j].at = j /\ table[i].at = i
      BY <2>2, DeploymentsAssumption DEF Init
    <2> QED BY <2>1, <2>2, <2>3
  <1>3. \A q \in Requests : Founded(q)
    BY DEF Init, Founded, Is, Idle
  <1> QED BY <1>1, <1>2, <1>3 DEF LadderInv

\* A row can be appended to the ladder in three ways.
LEMMA ClimbOne ==
  ASSUME LadderInv, NEW row \in Row, table' = Append(table, row),
         \/ row.stage = Shadow
         \/ row.by = "rollback"
         \/ \E j \in DOMAIN table : Follows(row, j)
  PROVE  LadderClimbed'
  <1> DEFINE n == Len(table) + 1
  <1>1. /\ Len(table) \in Nat /\ DOMAIN table = 1..Len(table) /\ DOMAIN table' = 1..n
        /\ \A i \in DOMAIN table : table'[i] = table[i]
        /\ table'[n] = row
    BY Appended DEF LadderInv, TInv, TypeOK
  <1> DEFINE RolledNext(g, v, m) == \E k \in 1..m : /\ table'[k].group = g
                                                   /\ table'[k].version = v
                                                   /\ table'[k].by = "rollback"
  <1>2. \A g, v : \A i \in DOMAIN table : RolledBack(g, v, i) => RolledNext(g, v, i)
    BY <1>1 DEF RolledBack
  <1> DEFINE Steps(i, s) == \E j \in 1..i - 1 : /\ table[j].group = table[i].group
                                               /\ table[j].version = table[i].version
                                               /\ table[j].stage = s
                                               /\ table[j].at < table[i].at
             StepsNext(i, s) == \E j \in 1..i - 1 : /\ table'[j].group = table'[i].group
                                                   /\ table'[j].version = table'[i].version
                                                   /\ table'[j].stage = s
                                                   /\ table'[j].at < table'[i].at
  <1>3. \A i \in DOMAIN table : \/ RolledBack(table[i].group, table[i].version, i)
                                \/ \A s \in Shadow..table[i].stage - 1 : Steps(i, s)
    BY DEF LadderInv, LadderClimbed
  <1>4. ASSUME NEW i \in DOMAIN table
        PROVE  \/ RolledNext(table'[i].group, table'[i].version, i)
               \/ \A s \in Shadow..table'[i].stage - 1 : StepsNext(i, s)
    <2>1. table'[i] = table[i] /\ \A j \in 1..i - 1 : table'[j] = table[j]
      BY <1>1
    <2>2. CASE RolledBack(table[i].group, table[i].version, i)
      BY <1>2, <2>1, <2>2
    <2>3. CASE \A s \in Shadow..table[i].stage - 1 : Steps(i, s)
      BY <2>1, <2>3
    <2> QED BY <1>3, <2>2, <2>3
  <1>5. \/ RolledNext(row.group, row.version, n)
        \/ \A s \in Shadow..row.stage - 1 : StepsNext(n, s)
    <2>1. CASE row.stage = Shadow
      BY <2>1 DEF Shadow
    <2>2. CASE row.by = "rollback"
      BY <1>1, <2>2
    <2>3. ASSUME NEW j \in DOMAIN table, Follows(row, j)
          PROVE  \/ RolledNext(row.group, row.version, n)
                 \/ \A s \in Shadow..row.stage - 1 : StepsNext(n, s)
      <3>1. j \in 1..n - 1 /\ table'[j] = table[j]
        BY <1>1
      <3>2. CASE RolledBack(table[j].group, table[j].version, j)
        <4>1. RolledNext(row.group, row.version, j)
          BY <1>2, <2>3, <3>2 DEF Follows
        <4> QED BY <1>1, <4>1
      <3>3. CASE \A s \in Shadow..table[j].stage - 1 : Steps(j, s)
        <4> SUFFICES ASSUME NEW s \in Shadow..row.stage - 1 PROVE StepsNext(n, s)
          OBVIOUS
        <4>1. table[j].stage \in Stages /\ row.stage \in Stages /\ row.at \in Nat
              /\ \A k \in DOMAIN table : table[k].at \in Nat
          BY Rows DEF LadderInv, Row
        <4>2. CASE s = table[j].stage
          BY <1>1, <2>3, <3>1, <4>2 DEF Follows
        <4>3. CASE s # table[j].stage
          <5>1. s \in Shadow..table[j].stage - 1
            BY <2>3, <4>1, <4>3 DEF Follows, Shadow, Stages
          <5>2. PICK k \in 1..j - 1 : /\ table[k].group = table[j].group
                                      /\ table[k].version = table[j].version
                                      /\ table[k].stage = s
                                      /\ table[k].at < table[j].at
            BY <3>3, <5>1
          <5>3. k \in DOMAIN table /\ k \in 1..n - 1 /\ table'[k] = table[k]
            BY <1>1
          <5>4. table[k].at < row.at
            BY <2>3, <4>1, <5>2, <5>3 DEF Follows
          <5> QED BY <1>1, <2>3, <5>2, <5>3, <5>4 DEF Follows
        <4> QED BY <4>2, <4>3
      <3> QED BY <1>3, <3>2, <3>3
    <2> QED BY <2>1, <2>2, <2>3
  <1>6. \A i \in DOMAIN table' : i \in DOMAIN table \/ i = n
    BY <1>1
  <1>7. \A i \in DOMAIN table' : \/ RolledNext(table'[i].group, table'[i].version, i)
                                 \/ \A s \in Shadow..table'[i].stage - 1 : StepsNext(i, s)
    BY <1>1, <1>4, <1>5, <1>6
  <1> QED BY <1>7 DEF LadderClimbed, RolledBack

\* What founded a request is not lost when rows are appended.
LEMMA StaysFounded ==
  ASSUME LadderInv, NEW q \in Requests, request'[q] = request[q],
         \A i \in DOMAIN table : i \in DOMAIN table' /\ table'[i] = table[i]
  PROVE  Founded(q)'
  <1>1. \A j \in DOMAIN table : From(q, j) => From(q, j)'
    BY DEF From, Is
  <1> QED BY <1>1 DEF LadderInv, Founded, Is

LEMMA StepLadder == LadderInv /\ [Next]_vars => LadderInv'
  <1> SUFFICES ASSUME LadderInv, [Next]_vars PROVE LadderInv'
    OBVIOUS
  <1>1. TInv /\ TInv'
    BY StepType DEF LadderInv
  <1>2. request \in [Requests -> Request]
    BY <1>1 DEF TInv, TypeOK
  <1>3. ASSUME UNCHANGED table
        PROVE  LadderClimbed'
    BY <1>3 DEF LadderInv, LadderClimbed, RolledBack
  <1>4. ASSUME NEW q \in Requests, NEW r, Goes(q, r)
        PROVE  \A p \in Requests : p # q => Founded(p)'
    <2>1. UNCHANGED table /\ \A p \in Requests : p # q => request'[p] = request[p]
      BY <1>2, <1>4 DEF Goes
    <2> QED BY <2>1, StaysFounded
  <1>5. ASSUME NEW q \in Requests, Step(q)
        PROVE  LadderClimbed' /\ \A p \in Requests : Founded(p)'
    <2>1. ASSUME NEW r, Goes(q, r), r.phase \notin {"begun", "checked", "read"}
          PROVE  LadderClimbed' /\ \A p \in Requests : Founded(p)'
      <3>1. request'[q] = r /\ UNCHANGED table
        BY <1>2, <2>1 DEF Goes
      <3>2. Founded(q)'
        BY <2>1, <3>1 DEF Founded
      <3> QED BY <1>3, <1>4, <2>1, <3>1, <3>2
    <2>2. CASE Refuse(q)
      BY <2>1, <2>2 DEF Refuse, Idle
    <2>3. CASE \E g \in Groups : Advance(q, g) \/ Abort(q, g)
      BY <2>1, <2>3 DEF Advance, Abort
    <2>4. CASE \E g \in Groups, v \in Versions : Rollback(q, g, v)
      BY <2>1, <2>4 DEF Rollback
    <2>5. CASE ReadStage(q)
      <3>1. PICK i \in Latest(request[q].group) :
              /\ table[i].stage < Authoritative
              /\ Goes(q, [request[q] EXCEPT !.phase = "read", !.version = table[i].version,
                                            !.stage = table[i].stage + 1, !.seen = Len(table)])
        BY <2>5 DEF ReadStage
      <3>2. i \in DOMAIN table /\ table[i].group = request[q].group /\ table[i].stage \in Stages
        BY <1>1, Rows DEF Latest, LatestOf, RowsOf
      <3>3. /\ ~Is(q, "idle") /\ request[q].by = "advance" /\ request[q] \in Working
        BY <1>1, <2>5, Works DEF ReadStage, Is, Sound
      <3>4. /\ UNCHANGED table
            /\ request'[q].group = request[q].group /\ request'[q].by = "advance"
            /\ request'[q].version = table[i].version /\ request'[q].phase = "read"
            /\ request'[q].stage = table[i].stage + 1
        BY <1>2, <3>1, <3>3 DEF Goes, Working
      <3>5. From(q, i)'
        BY <3>2, <3>4 DEF From, Is, Stages
      <3>6. Founded(q)'
        BY <3>2, <3>4, <3>5 DEF Founded
      <3> QED BY <1>3, <1>4, <3>1, <3>4, <3>6
    <2>6. CASE CountCanaries(q) \/ CheckCanary(q)
      <3>1. Goes(q, [request[q] EXCEPT !.phase = "checked"]) /\ (Is(q, "read") \/ Is(q, "rated"))
        BY <2>6 DEF CountCanaries, CheckCanary
      <3>2. request[q] \in Working /\ Sound(q) /\ ~Is(q, "idle")
        BY <1>1, <3>1, Works DEF Is
      <3>3. /\ UNCHANGED table /\ request'[q].phase = "checked"
            /\ request'[q].group = request[q].group /\ request'[q].by = request[q].by
            /\ request'[q].version = request[q].version /\ request'[q].stage = request[q].stage
        BY <1>2, <3>1, <3>2 DEF Goes, Working
      <3>4. \A j : From(q, j) => From(q, j)'
        BY <3>3 DEF From, Is
      <3>5. Founded(q)'
        <4>1. CASE Is(q, "rated")
          BY <3>2, <3>3, <4>1 DEF Founded, Sound, Is
        <4>2. CASE Is(q, "read")
          BY <3>3, <3>4, <4>2 DEF Founded, LadderInv, Is
        <4> QED BY <3>1, <4>1, <4>2
      <3> QED BY <1>3, <1>4, <3>1, <3>3, <3>5
    <2>7. CASE FindBaseline(q)
      <3>1. PICK i \in LatestOf(AuthoritativeRows(request[q].group)) :
              Goes(q, [request[q] EXCEPT !.phase = "checked", !.version = table[i].version])
        BY <2>7 DEF FindBaseline
      <3>2. i \in DOMAIN table /\ table[i].group = request[q].group /\ table[i].stage = Authoritative
        BY DEF LatestOf, AuthoritativeRows, RowsOf
      <3>3. ~Is(q, "idle") /\ request[q].by = "abort" /\ request[q] \in Working
        BY <1>1, <2>7, Works DEF FindBaseline, Is, Sound
      <3>4. /\ UNCHANGED table
            /\ request'[q].group = request[q].group /\ request'[q].by = "abort"
            /\ request'[q].version = table[i].version /\ request'[q].phase = "checked"
        BY <1>2, <3>1, <3>3 DEF Goes, Working
      <3>5. From(q, i)'
        BY <3>2, <3>4 DEF From, Is
      <3>6. Founded(q)'
        BY <3>2, <3>4, <3>5 DEF Founded
      <3> QED BY <1>3, <1>4, <3>1, <3>4, <3>6
    <2>8. CASE Begin(q)
      <3>1. Is(q, "checked") /\ request[q] \in Working
        BY <1>1, <2>8, Works DEF Begin, Is
      <3>2. /\ UNCHANGED table
            /\ request'[q].phase = "begun" /\ request'[q].at = clock + 1
            /\ request'[q].group = request[q].group /\ request'[q].by = request[q].by
            /\ request'[q].version = request[q].version /\ request'[q].stage = request[q].stage
            /\ \A p \in Requests : p # q => request'[p] = request[p]
        BY <1>2, <2>8, <3>1 DEF Begin, Working
      <3>3. \A j \in DOMAIN table : From(q, j) => From(q, j)'
        <4>1. \A j \in DOMAIN table : table[j].at < clock + 1
          BY <1>1, Rows
        <4> QED BY <3>2, <4>1 DEF From
      <3>4. Founded(q)'
        BY <3>1, <3>2, <3>3 DEF Founded, LadderInv, Is
      <3> QED BY <1>3, <3>2, <3>4, StaysFounded
    <2>9. CASE Commit(q)
      <3> DEFINE row == RowOf(request[q])
      <3>1. row \in Row /\ table' = Append(table, row) /\ Is(q, "begun")
        BY <1>1, <2>9, BegunRow DEF Commit
      <3>2. \A i \in DOMAIN table : i \in DOMAIN table' /\ table'[i] = table[i]
        BY <1>1, <3>1, Appended, Rows
      <3>3. request'[q] = Idle /\ \A p \in Requests : p # q => request'[p] = request[p]
        BY <1>2, <2>9 DEF Commit
      <3>4. Founded(q)'
        BY <3>3 DEF Founded, Is, Idle
      <3>5. row.by # "rollback" => \E j \in DOMAIN table : Follows(row, j)
        <4>1. ~Is(q, "idle")
          BY <3>1 DEF Is
        <4>2. /\ row.by = request[q].by /\ row.group = request[q].group
              /\ row.version = request[q].version /\ row.stage = request[q].stage
              /\ row.at = request[q].at /\ request[q].stage \in Int
              /\ row.by = "abort" => row.stage = Authoritative
              /\ row.by \in {"advance", "abort", "rollback"}
          BY <1>1, <4>1, Works DEF RowOf, Sound, Working, Stages
        <4>3. \A j \in DOMAIN table : From(q, j) /\ row.by # "rollback" => Follows(row, j)
          BY <3>1, <4>2 DEF From, Follows
        <4> QED BY <3>1, <4>2, <4>3 DEF LadderInv, Founded, Is
      <3> QED BY <3>1, <3>2, <3>3, <3>4, <3>5, ClimbOne, StaysFounded
    <2> QED BY <1>5, <2>2, <2>3, <2>4, <2>5, <2>6, <2>7, <2>8, <2>9 DEF Step
  <1>6. ASSUME NEW g \in Groups, NEW v \in Versions, Publish(g, v)
        PROVE  LadderClimbed' /\ \A p \in Requests : Founded(p)'
    <2> DEFINE row == [group |-> g, version |-> v, stage |-> Shadow, at |-> clock + 1, by |-> "publish"]
    <2>1. row \in Row /\ row.stage = Shadow
      BY <1>1, Rows DEF Row, Stages, Shadow, Authoritative
    <2>2. table' = Append(table, row) /\ UNCHANGED request
      BY <1>6 DEF Publish
    <2>3. \A i \in DOMAIN table : i \in DOMAIN table' /\ table'[i] = table[i]
      BY <1>1, <2>1, <2>2, Appended, Rows
    <2> QED BY <2>1, <2>2, <2>3, ClimbOne, StaysFounded
  <1>7. CASE Freeze \/ Unfreeze \/ Pause \/ UNCHANGED vars
    <2>1. UNCHANGED <<table, request>>
      BY <1>7 DEF Freeze, Unfreeze, Pause, vars
    <2> QED BY <1>1, <1>3, <2>1, StaysFounded DEF LadderInv
  <1> QED BY <1>1, <1>5, <1>6, <1>7 DEF Next, LadderInv

\* Whatever requests overlap, no stage is skipped but by a rollback
\* (deployment-approval.ts:222-228): an abort or an advance only follows a row that is there.
THEOREM StagesInOrder == Spec => []LadderClimbed
  <1>1. LadderInv => LadderClimbed
    BY DEF LadderInv
  <1> QED BY <1>1, InitLadder, StepLadder, PTL DEF Spec

-----------------------------------------------------------------------------
(* Limits that are checked before the row is inserted *)

\* Advances past the count, rollbacks past theirs, advances past the freeze check.
Counted == {q \in Requests : request[q].phase \in {"checked", "begun"} /\ request[q].by = "advance"}

Rated(g) == {q \in Requests : /\ request[q].phase \in {"rated", "checked", "begun"}
                              /\ request[q].by = "rollback"
                              /\ request[q].group = g}

Unfrozen == {q \in Requests : ~Is(q, "idle") /\ request[q].by = "advance"}

CanaryGroups == {g \in Groups : CanaryRows(g) # {}}

CountedGroups == {request[q].group : q \in Counted}

RolledRows(g) == {i \in RollbackRows(g) : table[i].by = "rollback"}

\* A row that is still to come is counted with those that are there.
CanaryInv == Cardinality(CanaryGroups \cup CountedGroups) =< CanaryLimit + Cardinality(Requests) - 1

RollbackInv ==
  \A g \in Groups :
    Cardinality(RolledRows(g)) + Cardinality(Rated(g)) =< RollbackLimit + Cardinality(Requests) - 1

FreezeInv ==
  freeze # NotFrozen => Cardinality(FrozenAdvances) + Cardinality(Unfrozen) =< Cardinality(Requests)

LimitInv == TInv /\ CanaryInv /\ RollbackInv /\ FreezeInv

LEMMA SmallerSet ==
  ASSUME NEW T, IsFiniteSet(T), NEW S \in SUBSET T
  PROVE  /\ IsFiniteSet(S) /\ Cardinality(S) \in Nat /\ Cardinality(T) \in Nat
         /\ Cardinality(S) =< Cardinality(T)
  BY FS_Subset, FS_CardinalityType

LEMMA RequestsCount ==
  /\ IsFiniteSet(Requests) /\ Cardinality(Requests) \in Nat \ {0}
  /\ CanaryLimit \in Nat \ {0} /\ RollbackLimit \in Nat \ {0}
  BY DeploymentsAssumption, FS_CardinalityType, FS_EmptySet

\* Sets of rows and of requests are finite.
LEMMA RowSets ==
  ASSUME TInv, NEW S \in SUBSET DOMAIN table
  PROVE  IsFiniteSet(S) /\ Cardinality(S) \in Nat
  <1>1. IsFiniteSet(DOMAIN table)
    BY Rows, FS_Interval
  <1> QED BY <1>1, SmallerSet

LEMMA RequestSets ==
  ASSUME NEW S \in SUBSET Requests
  PROVE  IsFiniteSet(S) /\ Cardinality(S) \in Nat /\ Cardinality(S) =< Cardinality(Requests)
  BY RequestsCount, SmallerSet

\* No more groups than rows, or than requests.
LEMMA ImageCount ==
  ASSUME NEW S, IsFiniteSet(S), NEW f \in [S -> Groups]
  PROVE  /\ IsFiniteSet({f[x] : x \in S}) /\ Cardinality({f[x] : x \in S}) \in Nat
         /\ Cardinality({f[x] : x \in S}) =< Cardinality(S)
  <1>1. f \in Surjection(S, {f[x] : x \in S})
    BY DEF Surjection
  <1>2. IsFiniteSet({f[x] : x \in S}) /\ Cardinality({f[x] : x \in S}) <= Cardinality(S)
    BY <1>1, FS_Surjection
  <1> QED BY <1>2, FS_CardinalityType

LEMMA GroupSets ==
  ASSUME TInv
  PROVE  /\ IsFiniteSet(CanaryGroups) /\ IsFiniteSet(CountedGroups)
         /\ IsFiniteSet(CanaryGroups \cup CountedGroups)
         /\ Cardinality(CountedGroups) \in Nat
         /\ Cardinality(CountedGroups) =< Cardinality(Requests)
  <1>1. Counted \in SUBSET Requests /\ \A q \in Counted : request[q].group \in Groups
    BY Works DEF Counted, Is
  <1> DEFINE f == [q \in Counted |-> request[q].group]
             rows == {i \in DOMAIN table : table[i].group \in Groups}
             h == [i \in rows |-> table[i].group]
  <1>2. IsFiniteSet(CountedGroups) /\ Cardinality(CountedGroups) \in Nat
        /\ Cardinality(CountedGroups) =< Cardinality(Counted)
    <2>1. f \in [Counted -> Groups] /\ IsFiniteSet(Counted)
      BY <1>1, RequestSets
    <2>2. CountedGroups = {f[q] : q \in Counted}
      BY DEF CountedGroups
    <2> HIDE DEF f
    <2> QED BY <2>1, <2>2, ImageCount
  <1>3. IsFiniteSet(CanaryGroups)
    <2>1. h \in [rows -> Groups] /\ IsFiniteSet(rows)
      BY RowSets
    <2>2. CanaryGroups \in SUBSET {h[i] : i \in rows}
      BY DEF CanaryGroups, CanaryRows, RowsOf
    <2>3. IsFiniteSet({h[i] : i \in rows})
      <3> HIDE DEF h, rows
      <3> QED BY <2>1, ImageCount
    <2> QED BY <2>2, <2>3, FS_Subset
  <1>4. Cardinality(Counted) \in Nat /\ Cardinality(Counted) =< Cardinality(Requests)
    BY <1>1, RequestSets
  <1>5. IsFiniteSet(CanaryGroups \cup CountedGroups)
    BY <1>2, <1>3, FS_Union
  <1> QED BY <1>2, <1>3, <1>4, <1>5, RequestsCount

\* The count of an advance bounds the other groups that have a canary.
LEMMA OthersCounted ==
  ASSUME TInv, NEW g \in Groups, Cardinality(OtherCanaries(g)) < CanaryLimit
  PROVE  /\ IsFiniteSet(CanaryGroups \ {g})
         /\ Cardinality(CanaryGroups \ {g}) \in Nat
         /\ Cardinality(CanaryGroups \ {g}) =< CanaryLimit - 1
  <1> DEFINE f == [i \in OtherCanaries(g) |-> table[i].group]
  <1>1. OtherCanaries(g) \in SUBSET DOMAIN table
    BY DEF OtherCanaries
  <1>2. IsFiniteSet(OtherCanaries(g)) /\ Cardinality(OtherCanaries(g)) \in Nat
    BY <1>1, RowSets
  <1>3. f \in [OtherCanaries(g) -> Groups]
    BY <1>1, Rows DEF Row
  <1>4. CanaryGroups \ {g} \in SUBSET {f[i] : i \in OtherCanaries(g)}
    BY DEF CanaryGroups, CanaryRows, RowsOf, OtherCanaries
  <1>5. /\ IsFiniteSet({f[i] : i \in OtherCanaries(g)})
        /\ Cardinality({f[i] : i \in OtherCanaries(g)}) \in Nat
        /\ Cardinality({f[i] : i \in OtherCanaries(g)}) =< Cardinality(OtherCanaries(g))
    <2> HIDE DEF f
    <2> QED BY <1>2, <1>3, ImageCount
  <1>6. /\ IsFiniteSet(CanaryGroups \ {g}) /\ Cardinality(CanaryGroups \ {g}) \in Nat
        /\ Cardinality(CanaryGroups \ {g}) =< Cardinality({f[i] : i \in OtherCanaries(g)})
    <2> HIDE DEF f
    <2> QED BY <1>4, <1>5, SmallerSet
  <1> HIDE DEF f
  <1> QED BY <1>2, <1>5, <1>6, RequestsCount

LEMMA InitLimit == Init => LimitInv
  <1> SUFFICES ASSUME Init PROVE LimitInv
    OBVIOUS
  <1>1. TInv
    BY InitType
  <1>2. \A q \in Requests : request[q].phase = "idle"
    BY DEF Init, Idle
  <1>3. Counted = {} /\ Unfrozen = {} /\ \A g \in Groups : Rated(g) = {}
    BY <1>2 DEF Counted, Unfrozen, Rated, Is
  <1>4. CanaryGroups = {}
    <2> SUFFICES ASSUME NEW i \in DOMAIN table, table[i].stage \in Canary, table[i].at > week
                 PROVE  FALSE
      BY DEF CanaryGroups, CanaryRows, RowsOf
    <2>1. i \in DOMAIN History /\ History[i].at = i /\ week = OldRows /\ table = History
      BY DeploymentsAssumption DEF Init
    <2>2. History[i].stage = Shadow
      BY <2>1, DeploymentsAssumption
    <2> QED BY <2>1, <2>2 DEF Canary, Shadow
  <1>5. \A g \in Groups : RolledRows(g) = {}
    <2> SUFFICES ASSUME NEW i \in DOMAIN table, table[i].at > hour
                 PROVE  FALSE
      BY DEF RolledRows, RollbackRows, RowsOf
    <2> QED BY <1>1, Rows DEF Init
  <1>6. CanaryGroups \cup CountedGroups = {} /\ freeze = NotFrozen
    BY <1>3, <1>4 DEF CountedGroups, Init
  <1>7. Cardinality({}) = 0
    BY FS_EmptySet
  <1>8. CanaryInv /\ FreezeInv
    <2>1. Cardinality(CanaryGroups \cup CountedGroups) = 0
      BY <1>6, <1>7
    <2>2. CanaryInv
      BY <2>1, RequestsCount DEF CanaryInv
    <2> QED BY <1>6, <2>2 DEF FreezeInv
  <1>9. RollbackInv
    BY <1>3, <1>5, <1>7, RequestsCount DEF RollbackInv
  <1> QED BY <1>1, <1>8, <1>9 DEF LimitInv

\* Sets that do not grow keep a bound.
LEMMA CanaryKeeps ==
  ASSUME LimitInv, (CanaryGroups \cup CountedGroups)' \subseteq CanaryGroups \cup CountedGroups
  PROVE  CanaryInv'
  <1>1. /\ Cardinality((CanaryGroups \cup CountedGroups)') \in Nat
        /\ Cardinality(CanaryGroups \cup CountedGroups) \in Nat
        /\ Cardinality((CanaryGroups \cup CountedGroups)') =< Cardinality(CanaryGroups \cup CountedGroups)
    BY GroupSets, SmallerSet DEF LimitInv
  <1> QED BY <1>1, RequestsCount DEF LimitInv, CanaryInv

LEMMA RollbackKeeps ==
  ASSUME LimitInv, NEW g \in Groups, RolledRows(g)' \subseteq RolledRows(g), Rated(g)' \subseteq Rated(g)
  PROVE  Cardinality(RolledRows(g)') + Cardinality(Rated(g)') =< RollbackLimit + Cardinality(Requests) - 1
  <1>1. IsFiniteSet(RolledRows(g)) /\ IsFiniteSet(Rated(g))
    <2>1. RolledRows(g) \in SUBSET DOMAIN table /\ Rated(g) \in SUBSET Requests
      BY DEF RolledRows, RollbackRows, RowsOf, Rated
    <2> QED BY <2>1, RowSets, RequestSets DEF LimitInv
  <1>2. /\ Cardinality(RolledRows(g)') \in Nat /\ Cardinality(RolledRows(g)) \in Nat
        /\ Cardinality(RolledRows(g)') =< Cardinality(RolledRows(g))
    BY <1>1, SmallerSet
  <1>3. /\ Cardinality(Rated(g)') \in Nat /\ Cardinality(Rated(g)) \in Nat
        /\ Cardinality(Rated(g)') =< Cardinality(Rated(g))
    BY <1>1, SmallerSet
  <1>4. Cardinality(RolledRows(g)) + Cardinality(Rated(g)) =< RollbackLimit + Cardinality(Requests) - 1
    BY DEF LimitInv, RollbackInv
  <1> QED BY <1>2, <1>3, <1>4, RequestsCount

LEMMA FreezeKeeps ==
  ASSUME LimitInv, freeze # NotFrozen, FrozenAdvances' \subseteq FrozenAdvances, Unfrozen' \subseteq Unfrozen
  PROVE  FreezeInv'
  <1>1. IsFiniteSet(FrozenAdvances) /\ IsFiniteSet(Unfrozen)
    <2>1. FrozenAdvances \in SUBSET DOMAIN table /\ Unfrozen \in SUBSET Requests
      BY DEF FrozenAdvances, Unfrozen
    <2> QED BY <2>1, RowSets, RequestSets DEF LimitInv
  <1>2. /\ Cardinality(FrozenAdvances') \in Nat /\ Cardinality(FrozenAdvances) \in Nat
        /\ Cardinality(FrozenAdvances') =< Cardinality(FrozenAdvances)
    BY <1>1, SmallerSet
  <1>3. /\ Cardinality(Unfrozen') \in Nat /\ Cardinality(Unfrozen) \in Nat
        /\ Cardinality(Unfrozen') =< Cardinality(Unfrozen)
    BY <1>1, SmallerSet
  <1> QED BY <1>2, <1>3, RequestsCount DEF LimitInv, FreezeInv

\* A row more, a request that is counted less.
LEMMA Moved ==
  ASSUME NEW S, NEW T, NEW x, NEW y \in T, IsFiniteSet(S), IsFiniteSet(T),
         NEW S1 \in SUBSET (S \cup {x}), NEW T1 \in SUBSET (T \ {y})
  PROVE  /\ Cardinality(S1) \in Nat /\ Cardinality(T1) \in Nat
         /\ Cardinality(S) \in Nat /\ Cardinality(T) \in Nat
         /\ Cardinality(S1) + Cardinality(T1) =< Cardinality(S) + Cardinality(T)
  <1>1. IsFiniteSet(S \cup {x}) /\ Cardinality(S \cup {x}) =< Cardinality(S) + 1
        /\ Cardinality(S) \in Nat /\ Cardinality(T) \in Nat
    BY FS_AddElement, FS_CardinalityType
  <1>2. IsFiniteSet(T \ {y}) /\ Cardinality(T \ {y}) = Cardinality(T) - 1
    BY FS_RemoveElement
  <1>3. Cardinality(S1) \in Nat /\ Cardinality(S \cup {x}) \in Nat
        /\ Cardinality(S1) =< Cardinality(S \cup {x})
    BY <1>1, SmallerSet
  <1>4. Cardinality(T1) \in Nat /\ Cardinality(T1) =< Cardinality(T \ {y})
    BY <1>2, SmallerSet
  <1> QED BY <1>1, <1>2, <1>3, <1>4

\* A step of one request changes only what that request counts for.
LEMMA GoesLimit ==
  ASSUME LimitInv, NEW q \in Requests, NEW r, Goes(q, r)
  PROVE  /\ CanaryGroups' = CanaryGroups /\ FrozenAdvances' = FrozenAdvances /\ freeze' = freeze
         /\ \A g \in Groups : RolledRows(g)' = RolledRows(g)
         /\ request'[q] = r
         /\ \A p \in Requests : p # q => request'[p] = request[p]
         /\ Counted' \subseteq Counted \cup {q} /\ Unfrozen' \subseteq Unfrozen \cup {q}
         /\ \A g \in Groups : Rated(g)' \subseteq Rated(g) \cup {q}
         /\ \A p \in Counted' : p # q => p \in Counted /\ request'[p] = request[p]
  <1>1. /\ UNCHANGED <<table, week, hour, freeze>> /\ request'[q] = r
        /\ \A p \in Requests : p # q => request'[p] = request[p]
    BY DEF Goes, LimitInv, TInv, TypeOK
  <1>2. CanaryGroups' = CanaryGroups /\ FrozenAdvances' = FrozenAdvances
    BY <1>1 DEF CanaryGroups, CanaryRows, RowsOf, FrozenAdvances
  <1>3. \A g \in Groups : RolledRows(g)' = RolledRows(g)
    BY <1>1 DEF RolledRows, RollbackRows, RowsOf
  <1>4. /\ Counted' \subseteq Counted \cup {q} /\ Unfrozen' \subseteq Unfrozen \cup {q}
        /\ \A g \in Groups : Rated(g)' \subseteq Rated(g) \cup {q}
        /\ \A p \in Counted' : p # q => p \in Counted /\ request'[p] = request[p]
    BY <1>1 DEF Counted, Unfrozen, Rated, Is
  <1> QED BY <1>1, <1>2, <1>3, <1>4

\* Refused, or a step that passes no check with a bound.
LEMMA PassesNone ==
  ASSUME LimitInv, NEW q \in Requests, NEW r, Goes(q, r),
         q \in Counted' => q \in Counted /\ r.group = request[q].group,
         q \in Unfrozen' => q \in Unfrozen,
         \A g \in Groups : q \in Rated(g)' => q \in Rated(g)
  PROVE  CanaryInv' /\ RollbackInv' /\ FreezeInv'
  <1>1. CountedGroups' \subseteq CountedGroups
    BY GoesLimit DEF CountedGroups
  <1>2. CanaryInv'
    BY <1>1, GoesLimit, CanaryKeeps
  <1>3. RollbackInv'
    <2>1. \A g \in Groups : RolledRows(g)' \subseteq RolledRows(g) /\ Rated(g)' \subseteq Rated(g)
      BY GoesLimit
    <2> QED BY <2>1, RollbackKeeps DEF RollbackInv
  <1>4. FreezeInv'
    <2>1. FrozenAdvances' \subseteq FrozenAdvances /\ Unfrozen' \subseteq Unfrozen /\ freeze' = freeze
      BY GoesLimit
    <2> QED BY <2>1, FreezeKeeps DEF FreezeInv
  <1> QED BY <1>2, <1>3, <1>4

LEMMA AdvanceLimit ==
  ASSUME LimitInv, NEW q \in Requests, NEW g \in Groups, Advance(q, g)
  PROVE  CanaryInv' /\ RollbackInv' /\ FreezeInv'
  <1> DEFINE r == [phase |-> "unfrozen", by |-> "advance", group |-> g, version |-> NoVersion,
                   stage |-> Shadow, at |-> 0, seen |-> 0]
  <1>1. Goes(q, r) /\ freeze = NotFrozen
    BY DEF Advance
  <1>2. request'[q] = r
    BY <1>1, GoesLimit
  <1>3. q \notin Counted' /\ \A a \in Groups : q \notin Rated(a)'
    BY <1>2 DEF Counted, Rated
  <1>4. CountedGroups' \subseteq CountedGroups
    BY <1>1, <1>3, GoesLimit DEF CountedGroups
  <1>5. CanaryInv'
    BY <1>1, <1>4, GoesLimit, CanaryKeeps
  <1>6. RollbackInv'
    <2>1. \A a \in Groups : RolledRows(a)' \subseteq RolledRows(a) /\ Rated(a)' \subseteq Rated(a)
      BY <1>1, <1>3, GoesLimit
    <2> QED BY <2>1, RollbackKeeps DEF RollbackInv
  <1>7. FreezeInv'
    BY <1>1, GoesLimit DEF FreezeInv
  <1> QED BY <1>5, <1>6, <1>7

LEMMA CountLimit ==
  ASSUME LimitInv, NEW q \in Requests, CountCanaries(q)
  PROVE  CanaryInv' /\ RollbackInv' /\ FreezeInv'
  <1> DEFINE r == [request[q] EXCEPT !.phase = "checked"]
             g == request[q].group
  <1>1. Goes(q, r) /\ Is(q, "read") /\ Cardinality(OtherCanaries(g)) < CanaryLimit
    BY DEF CountCanaries
  <1>2. TInv /\ ~Is(q, "idle")
    BY <1>1 DEF LimitInv, Is
  <1>3. request[q] \in Working /\ g \in Groups /\ request[q].by = "advance"
    BY <1>1, <1>2, Works DEF Sound, Is
  <1>4. request'[q] = r /\ r.group = g /\ r.by = "advance" /\ r.phase = "checked"
    BY <1>1, <1>3, GoesLimit DEF Working
  <1>5. RollbackInv'
    <2>1. \A a \in Groups : q \notin Rated(a)'
      BY <1>4 DEF Rated
    <2>2. \A a \in Groups : RolledRows(a)' \subseteq RolledRows(a) /\ Rated(a)' \subseteq Rated(a)
      BY <1>1, <2>1, GoesLimit
    <2> QED BY <2>2, RollbackKeeps DEF RollbackInv
  <1>6. FreezeInv'
    <2>1. q \in Unfrozen
      BY <1>2, <1>3 DEF Unfrozen
    <2>2. FrozenAdvances' \subseteq FrozenAdvances /\ Unfrozen' \subseteq Unfrozen /\ freeze' = freeze
      BY <1>1, <2>1, GoesLimit
    <2> QED BY <2>2, FreezeKeeps DEF FreezeInv
  <1>7. CanaryInv'
    <2> DEFINE others == CanaryGroups \ {g}
               counted == CountedGroups'
    <2>1. IsFiniteSet(others) /\ Cardinality(others) \in Nat /\ Cardinality(others) =< CanaryLimit - 1
      BY <1>1, <1>2, <1>3, OthersCounted
    <2>2. IsFiniteSet(counted) /\ Cardinality(counted) \in Nat
          /\ Cardinality(counted) =< Cardinality(Requests)
      <3> DEFINE f == [p \in Counted' |-> request'[p].group]
      <3>1. Counted' \in SUBSET Requests
        BY DEF Counted
      <3>2. \A p \in Counted' : request'[p].group \in Groups
        <4>1. \A p \in Counted : ~Is(p, "idle")
          BY DEF Counted, Is
        <4>2. \A p \in Counted : p \in Requests /\ request[p].group \in Groups
          BY <1>2, <4>1, Works DEF Counted
        <4> QED BY <1>1, <1>3, <1>4, <4>2, GoesLimit
      <3>3. IsFiniteSet(Counted') /\ Cardinality(Counted') \in Nat
            /\ Cardinality(Counted') =< Cardinality(Requests)
        BY <3>1, RequestSets
      <3>4. f \in [Counted' -> Groups] /\ counted = {f[p] : p \in Counted'}
        BY <3>2 DEF CountedGroups
      <3> HIDE DEF f, counted
      <3>5. IsFiniteSet(counted) /\ Cardinality(counted) \in Nat
            /\ Cardinality(counted) =< Cardinality(Counted')
        BY <3>3, <3>4, ImageCount
      <3> QED BY <3>3, <3>5, RequestsCount
    <2>3. (CanaryGroups \cup CountedGroups)' = others \cup counted
      <3>1. q \in Counted'
        BY <1>4 DEF Counted
      <3>2. g \in counted
        BY <1>4, <3>1 DEF CountedGroups
      <3>3. CanaryGroups' = CanaryGroups
        BY <1>1, GoesLimit
      <3> QED BY <3>2, <3>3
    <2>4. /\ IsFiniteSet(others \cup counted)
          /\ Cardinality(others \cup counted) =< Cardinality(others) + Cardinality(counted)
      <3> HIDE DEF others, counted
      <3>1. others \cap counted \in SUBSET others
        OBVIOUS
      <3>2. Cardinality(others \cap counted) \in Nat
        BY <2>1, <3>1, SmallerSet
      <3>3. IsFiniteSet(others \cup counted)
            /\ Cardinality(others \cup counted)
                 = Cardinality(others) + Cardinality(counted) - Cardinality(others \cap counted)
        BY <2>1, <2>2, FS_Union
      <3> QED BY <2>1, <2>2, <3>2, <3>3
    <2>5. Cardinality(others \cup counted) \in Nat
      <3> HIDE DEF others, counted
      <3> QED BY <2>4, FS_CardinalityType
    <2>6. Cardinality(others \cup counted) =< CanaryLimit + Cardinality(Requests) - 1
      <3> HIDE DEF others, counted
      <3> QED BY <2>1, <2>2, <2>4, <2>5, RequestsCount
    <2> QED BY <2>3, <2>6 DEF CanaryInv
  <1> QED BY <1>5, <1>6, <1>7

LEMMA RollbackLimited ==
  ASSUME LimitInv, NEW q \in Requests, NEW g \in Groups, NEW v \in Versions, Rollback(q, g, v)
  PROVE  CanaryInv' /\ RollbackInv' /\ FreezeInv'
  <1> DEFINE r == [phase |-> "rated", by |-> "rollback", group |-> g, version |-> v,
                   stage |-> Authoritative, at |-> 0, seen |-> Len(table)]
  <1>1. Goes(q, r) /\ Cardinality(RollbackRows(g)) < RollbackLimit
    BY DEF Rollback
  <1>2. request'[q] = r /\ TInv
    BY <1>1, GoesLimit DEF LimitInv
  <1>3. q \notin Counted' /\ q \notin Unfrozen' /\ \A a \in Groups \ {g} : q \notin Rated(a)'
    BY <1>2 DEF Counted, Unfrozen, Rated
  <1>4. CountedGroups' \subseteq CountedGroups
    BY <1>1, <1>3, GoesLimit DEF CountedGroups
  <1>5. CanaryInv'
    BY <1>1, <1>4, GoesLimit, CanaryKeeps
  <1>6. FreezeInv'
    <2>1. FrozenAdvances' \subseteq FrozenAdvances /\ Unfrozen' \subseteq Unfrozen /\ freeze' = freeze
      BY <1>1, <1>3, GoesLimit
    <2> QED BY <2>1, FreezeKeeps DEF FreezeInv
  <1>7. Cardinality(RolledRows(g)') + Cardinality(Rated(g)') =< RollbackLimit + Cardinality(Requests) - 1
    <2>1. RolledRows(g)' = RolledRows(g)
      BY <1>1, GoesLimit
    <2>2. RollbackRows(g) \in SUBSET DOMAIN table /\ RolledRows(g) \in SUBSET RollbackRows(g)
      BY DEF RolledRows, RollbackRows, RowsOf
    <2>3. IsFiniteSet(RollbackRows(g)) /\ Cardinality(RollbackRows(g)) \in Nat
      BY <1>2, <2>2, RowSets
    <2>4. Cardinality(RolledRows(g)) \in Nat /\ Cardinality(RolledRows(g)) =< Cardinality(RollbackRows(g))
      BY <2>2, <2>3, SmallerSet
    <2>5. Cardinality(Rated(g)') \in Nat /\ Cardinality(Rated(g)') =< Cardinality(Requests)
      <3>1. Rated(g)' \in SUBSET Requests
        BY DEF Rated
      <3> QED BY <3>1, RequestSets
    <2> QED BY <1>1, <2>1, <2>3, <2>4, <2>5, RequestsCount
  <1>8. \A a \in Groups \ {g} : RolledRows(a)' \subseteq RolledRows(a) /\ Rated(a)' \subseteq Rated(a)
    BY <1>1, <1>3, GoesLimit
  <1>9. RollbackInv'
    BY <1>7, <1>8, RollbackKeeps DEF RollbackInv
  <1> QED BY <1>5, <1>6, <1>9

\* A row appended by a route or by a publication.
LEMMA AppendLimit ==
  ASSUME LimitInv, NEW row \in Row, table' = Append(table, row), UNCHANGED <<hour, week, freeze>>
  PROVE  /\ CanaryGroups' \subseteq CanaryGroups \cup (IF row.stage \in Canary THEN {row.group} ELSE {})
         /\ \A g \in Groups : RolledRows(g)' \subseteq
              RolledRows(g) \cup (IF row.by = "rollback" /\ row.group = g THEN {Len(table) + 1} ELSE {})
         /\ FrozenAdvances' \subseteq
              FrozenAdvances \cup (IF row.by = "advance" THEN {Len(table) + 1} ELSE {})
  <1>1. /\ Len(table) \in Nat /\ DOMAIN table = 1..Len(table) /\ DOMAIN table' = 1..Len(table) + 1
        /\ \A i \in DOMAIN table : table'[i] = table[i]
        /\ table'[Len(table) + 1] = row
    BY Appended DEF LimitInv, TInv, TypeOK
  <1>2. \A i \in DOMAIN table' : \/ i \in DOMAIN table /\ table'[i] = table[i]
                                 \/ i = Len(table) + 1 /\ table'[i] = row
    BY <1>1
  <1>3. CanaryGroups' \subseteq CanaryGroups \cup (IF row.stage \in Canary THEN {row.group} ELSE {})
    BY <1>2 DEF CanaryGroups, CanaryRows, RowsOf
  <1>4. \A g \in Groups : RolledRows(g)' \subseteq
          RolledRows(g) \cup (IF row.by = "rollback" /\ row.group = g THEN {Len(table) + 1} ELSE {})
    BY <1>2 DEF RolledRows, RollbackRows, RowsOf
  <1>5. FrozenAdvances' \subseteq
          FrozenAdvances \cup (IF row.by = "advance" THEN {Len(table) + 1} ELSE {})
    BY <1>2 DEF FrozenAdvances
  <1> QED BY <1>3, <1>4, <1>5

\* A row becomes visible and its request is no longer counted.
LEMMA CommitLimit ==
  ASSUME LimitInv, NEW q \in Requests, Commit(q)
  PROVE  CanaryInv' /\ RollbackInv' /\ FreezeInv'
  <1> DEFINE row == RowOf(request[q])
             n == Len(table) + 1
  <1>1. TInv /\ Is(q, "begun") /\ ~Is(q, "idle")
    BY DEF LimitInv, Commit, Is
  <1>2. /\ row \in Row /\ table' = Append(table, row) /\ UNCHANGED <<hour, week, freeze>>
        /\ request[q].phase = "begun" /\ row.by = request[q].by /\ row.group = request[q].group
        /\ row.stage = request[q].stage /\ request[q] \in Working /\ Sound(q)
    BY <1>1, BegunRow, Works DEF Commit, RowOf, Is
  <1>3. /\ request'[q] = Idle /\ \A p \in Requests : p # q => request'[p] = request[p]
    BY DEF Commit, LimitInv, TInv, TypeOK
  <1>4. /\ Counted' \subseteq Counted \ {q} /\ Unfrozen' \subseteq Unfrozen \ {q}
        /\ \A g \in Groups : Rated(g)' \subseteq Rated(g) \ {q}
        /\ \A p \in Counted' : request'[p] = request[p]
    BY <1>3 DEF Counted, Unfrozen, Rated, Is, Idle
  <1>5. CanaryInv'
    <2>1. CountedGroups' \subseteq CountedGroups
      BY <1>4 DEF CountedGroups
    <2>3. CASE row.by = "advance"
      <3>1. row.group \in CountedGroups
        BY <1>2, <2>3 DEF CountedGroups, Counted
      <3>2. CanaryGroups' \subseteq CanaryGroups \cup CountedGroups
        BY <1>2, <3>1, AppendLimit
      <3> QED BY <2>1, <3>2, CanaryKeeps
    <2>4. CASE row.by # "advance"
      <3>1. row.stage \notin Canary
        BY <1>1, <1>2, <2>4 DEF Sound, Working, Canary, Authoritative
      <3>2. CanaryGroups' \subseteq CanaryGroups
        BY <1>2, <3>1, AppendLimit
      <3> QED BY <2>1, <3>2, CanaryKeeps
    <2> QED BY <2>3, <2>4
  <1>6. RollbackInv'
    <2> SUFFICES ASSUME NEW g \in Groups
                 PROVE  Cardinality(RolledRows(g)') + Cardinality(Rated(g)')
                          =< RollbackLimit + Cardinality(Requests) - 1
      BY DEF RollbackInv
    <2>1. CASE row.by = "rollback" /\ row.group = g
      <3>1. q \in Rated(g) /\ RolledRows(g)' \in SUBSET (RolledRows(g) \cup {n})
            /\ Rated(g)' \in SUBSET (Rated(g) \ {q})
        BY <1>2, <1>4, <2>1, AppendLimit DEF Rated
      <3>2. IsFiniteSet(RolledRows(g)) /\ IsFiniteSet(Rated(g))
        <4>1. RolledRows(g) \in SUBSET DOMAIN table /\ Rated(g) \in SUBSET Requests
          BY DEF RolledRows, RollbackRows, RowsOf, Rated
        <4> QED BY <1>1, <4>1, RowSets, RequestSets
      <3>3. /\ Cardinality(RolledRows(g)') \in Nat /\ Cardinality(Rated(g)') \in Nat
            /\ Cardinality(RolledRows(g)) \in Nat /\ Cardinality(Rated(g)) \in Nat
            /\ Cardinality(RolledRows(g)') + Cardinality(Rated(g)')
                 =< Cardinality(RolledRows(g)) + Cardinality(Rated(g))
        BY <3>1, <3>2, Moved
      <3>4. Cardinality(RolledRows(g)) + Cardinality(Rated(g)) =< RollbackLimit + Cardinality(Requests) - 1
        BY DEF LimitInv, RollbackInv
      <3> QED BY <3>3, <3>4, RequestsCount
    <2>2. CASE ~(row.by = "rollback" /\ row.group = g)
      <3>1. RolledRows(g)' \subseteq RolledRows(g) /\ Rated(g)' \subseteq Rated(g)
        BY <1>2, <1>4, <2>2, AppendLimit
      <3> QED BY <3>1, RollbackKeeps
    <2> QED BY <2>1, <2>2
  <1>7. FreezeInv'
    <2> SUFFICES ASSUME freeze # NotFrozen PROVE FreezeInv'
      BY <1>2 DEF FreezeInv
    <2>1. CASE row.by = "advance"
      <3>1. q \in Unfrozen /\ FrozenAdvances' \in SUBSET (FrozenAdvances \cup {n})
            /\ Unfrozen' \in SUBSET (Unfrozen \ {q})
        BY <1>1, <1>2, <1>4, <2>1, AppendLimit DEF Unfrozen
      <3>2. IsFiniteSet(FrozenAdvances) /\ IsFiniteSet(Unfrozen)
        <4>1. FrozenAdvances \in SUBSET DOMAIN table /\ Unfrozen \in SUBSET Requests
          BY DEF FrozenAdvances, Unfrozen
        <4> QED BY <1>1, <4>1, RowSets, RequestSets
      <3>3. /\ Cardinality(FrozenAdvances') \in Nat /\ Cardinality(Unfrozen') \in Nat
            /\ Cardinality(FrozenAdvances) \in Nat /\ Cardinality(Unfrozen) \in Nat
            /\ Cardinality(FrozenAdvances') + Cardinality(Unfrozen')
                 =< Cardinality(FrozenAdvances) + Cardinality(Unfrozen)
        BY <3>1, <3>2, Moved
      <3> QED BY <3>3, RequestsCount DEF LimitInv, FreezeInv
    <2>2. CASE row.by # "advance"
      <3>1. FrozenAdvances' \subseteq FrozenAdvances /\ Unfrozen' \subseteq Unfrozen
        BY <1>2, <1>4, <2>2, AppendLimit
      <3> QED BY <3>1, FreezeKeeps
    <2> QED BY <2>1, <2>2
  <1> QED BY <1>5, <1>6, <1>7

LEMMA SameRequests ==
  ASSUME LimitInv, UNCHANGED request
  PROVE  /\ CountedGroups' = CountedGroups /\ Unfrozen' = Unfrozen
         /\ \A g \in Groups : Rated(g)' = Rated(g)
  BY DEF CountedGroups, Counted, Unfrozen, Rated, Is

LEMMA PublishLimit ==
  ASSUME LimitInv, NEW g \in Groups, NEW v \in Versions, Publish(g, v)
  PROVE  CanaryInv' /\ RollbackInv' /\ FreezeInv'
  <1> DEFINE row == [group |-> g, version |-> v, stage |-> Shadow, at |-> clock + 1, by |-> "publish"]
  <1>1. row \in Row /\ table' = Append(table, row) /\ UNCHANGED <<hour, week, freeze, request>>
    BY Rows DEF Publish, Row, Stages, Shadow, Authoritative, LimitInv
  <1>2. /\ CanaryGroups' \subseteq CanaryGroups /\ FrozenAdvances' \subseteq FrozenAdvances
        /\ \A a \in Groups : RolledRows(a)' \subseteq RolledRows(a)
    BY <1>1, AppendLimit DEF Canary, Shadow
  <1>3. CanaryInv'
    BY <1>1, <1>2, SameRequests, CanaryKeeps
  <1>4. RollbackInv'
    BY <1>1, <1>2, SameRequests, RollbackKeeps DEF RollbackInv
  <1>5. FreezeInv'
    BY <1>1, <1>2, SameRequests, FreezeKeeps DEF FreezeInv
  <1> QED BY <1>3, <1>4, <1>5

\* A freeze begins with no advance after it; rows only leave the windows.
LEMMA SurroundingsLimit ==
  ASSUME LimitInv, Freeze \/ Unfreeze \/ Pause
  PROVE  CanaryInv' /\ RollbackInv' /\ FreezeInv'
  <1>1. UNCHANGED <<table, request>> /\ TInv
    BY DEF Freeze, Unfreeze, Pause, LimitInv
  <1>2. hour \in Nat /\ hour' \in Nat /\ hour =< hour' /\ week \in Nat /\ week' \in Nat /\ week =< week'
        /\ \A i \in DOMAIN table : table[i].at \in Nat
    BY <1>1, Rows DEF Freeze, Unfreeze, Pause, TInv, TypeOK
  <1>3. CanaryGroups' \subseteq CanaryGroups
    BY <1>1, <1>2 DEF CanaryGroups, CanaryRows, RowsOf
  <1>4. \A g \in Groups : RolledRows(g)' \subseteq RolledRows(g)
    BY <1>1, <1>2 DEF RolledRows, RollbackRows, RowsOf
  <1>5. CanaryInv'
    BY <1>1, <1>3, SameRequests, CanaryKeeps
  <1>6. RollbackInv'
    BY <1>1, <1>4, SameRequests, RollbackKeeps DEF RollbackInv
  <1>7. CASE Freeze
    <2>1. FrozenAdvances' = {}
      <3>1. freeze' = Len(table) /\ table' = table
        BY <1>7 DEF Freeze
      <3>2. \A i \in DOMAIN table : ~(i > Len(table))
        BY <1>1, Rows
      <3> QED BY <3>1, <3>2 DEF FrozenAdvances
    <2>2. Cardinality(Unfrozen') \in Nat /\ Cardinality(Unfrozen') =< Cardinality(Requests)
      <3>1. Unfrozen' \in SUBSET Requests
        BY DEF Unfrozen
      <3> QED BY <3>1, RequestSets
    <2>3. Cardinality(FrozenAdvances') = 0
      BY <2>1, FS_EmptySet
    <2>4. FreezeInv'
      BY <2>2, <2>3, RequestsCount DEF FreezeInv
    <2> QED BY <1>5, <1>6, <2>4
  <1>8. CASE Unfreeze
    BY <1>5, <1>6, <1>8 DEF Unfreeze, FreezeInv
  <1>9. CASE Pause
    <2>1. freeze' = freeze /\ FrozenAdvances' = FrozenAdvances
      BY <1>1, <1>9 DEF Pause, FrozenAdvances
    <2> QED BY <1>1, <1>5, <1>6, <2>1, SameRequests, FreezeKeeps DEF FreezeInv
  <1> QED BY <1>7, <1>8, <1>9

LEMMA StepLimit == LimitInv /\ [Next]_vars => LimitInv'
  <1> SUFFICES ASSUME LimitInv, [Next]_vars PROVE CanaryInv' /\ RollbackInv' /\ FreezeInv'
    BY StepType DEF LimitInv
  <1>1. TInv
    BY DEF LimitInv
  <1>2. CASE UNCHANGED vars
    BY <1>2 DEF vars, LimitInv, CanaryInv, RollbackInv, FreezeInv, CanaryGroups, CountedGroups, Counted,
                CanaryRows, RowsOf, RolledRows, RollbackRows, Rated, FrozenAdvances, Unfrozen, Is
  <1>3. ASSUME NEW q \in Requests, Step(q)
        PROVE  CanaryInv' /\ RollbackInv' /\ FreezeInv'
    <2>1. CASE \E g \in Groups : Advance(q, g)
      BY <2>1, AdvanceLimit
    <2>2. CASE \E g \in Groups, v \in Versions : Rollback(q, g, v)
      BY <2>2, RollbackLimited
    <2>3. CASE CountCanaries(q)
      BY <2>3, CountLimit
    <2>4. CASE Commit(q)
      BY <2>4, CommitLimit
    <2>5. ASSUME NEW g \in Groups, Abort(q, g)
          PROVE  CanaryInv' /\ RollbackInv' /\ FreezeInv'
      <3> DEFINE r == [phase |-> "aborting", by |-> "abort", group |-> g, version |-> NoVersion,
                       stage |-> Authoritative, at |-> 0, seen |-> Len(table)]
      <3>1. Goes(q, r)
        BY <2>5 DEF Abort
      <3>2. request'[q] = r
        BY <3>1, GoesLimit
      <3>3. q \notin Counted' /\ q \notin Unfrozen' /\ \A a \in Groups : q \notin Rated(a)'
        BY <3>2 DEF Counted, Unfrozen, Rated
      <3> QED BY <3>1, <3>3, PassesNone
    <2>6. CASE Refuse(q)
      <3>1. Goes(q, Idle)
        BY <2>6 DEF Refuse
      <3>2. request'[q] = Idle
        BY <3>1, GoesLimit
      <3>3. q \notin Counted' /\ q \notin Unfrozen' /\ \A a \in Groups : q \notin Rated(a)'
        BY <3>2 DEF Counted, Unfrozen, Rated, Is, Idle
      <3> QED BY <3>1, <3>3, PassesNone
    <2>7. ASSUME NEW r, Goes(q, r), ~Is(q, "idle"), r.by = request[q].by, r.group = request[q].group,
                 \/ r.phase = "read"
                 \/ r.phase = "checked" /\ r.by = "abort"
                 \/ r.phase = "checked" /\ Is(q, "rated")
          PROVE  CanaryInv' /\ RollbackInv' /\ FreezeInv'
      <3>1. request'[q] = r /\ Sound(q)
        BY <1>1, <2>7, GoesLimit, Works
      <3>2. q \in Unfrozen' => q \in Unfrozen
        BY <2>7, <3>1 DEF Unfrozen
      <3>3. q \notin Counted' /\ \A a \in Groups : q \in Rated(a)' => q \in Rated(a)
        BY <2>7, <3>1 DEF Counted, Rated, Sound, Is
      <3> QED BY <2>7, <3>2, <3>3, PassesNone
    <2>8. CASE ReadStage(q)
      <3>1. PICK i \in Latest(request[q].group) :
              Goes(q, [request[q] EXCEPT !.phase = "read", !.version = table[i].version,
                                         !.stage = table[i].stage + 1, !.seen = Len(table)])
        BY <2>8 DEF ReadStage
      <3>2. ~Is(q, "idle") /\ request[q] \in Working
        BY <1>1, <2>8, Works DEF ReadStage, Is
      <3> DEFINE r == [request[q] EXCEPT !.phase = "read", !.version = table[i].version,
                                         !.stage = table[i].stage + 1, !.seen = Len(table)]
      <3>3. r.by = request[q].by /\ r.group = request[q].group /\ r.phase = "read"
        BY <3>2 DEF Working
      <3> HIDE DEF r
      <3> QED BY <2>7, <3>1, <3>2, <3>3 DEF r
    <2>9. CASE FindBaseline(q)
      <3>1. PICK i \in LatestOf(AuthoritativeRows(request[q].group)) :
              Goes(q, [request[q] EXCEPT !.phase = "checked", !.version = table[i].version])
        BY <2>9 DEF FindBaseline
      <3>2. ~Is(q, "idle") /\ request[q] \in Working /\ request[q].by = "abort"
        BY <1>1, <2>9, Works DEF FindBaseline, Is, Sound
      <3> DEFINE r == [request[q] EXCEPT !.phase = "checked", !.version = table[i].version]
      <3>3. r.by = request[q].by /\ r.group = request[q].group /\ r.phase = "checked"
        BY <3>2 DEF Working
      <3> HIDE DEF r
      <3> QED BY <2>7, <3>1, <3>2, <3>3 DEF r
    <2>10. CASE CheckCanary(q)
      <3> DEFINE r == [request[q] EXCEPT !.phase = "checked"]
      <3>1. Goes(q, r) /\ Is(q, "rated")
        BY <2>10 DEF CheckCanary
      <3>2. ~Is(q, "idle") /\ request[q] \in Working
        BY <1>1, <3>1, Works DEF Is
      <3>3. r.by = request[q].by /\ r.group = request[q].group /\ r.phase = "checked"
        BY <3>2 DEF Working
      <3> HIDE DEF r
      <3> QED BY <2>7, <3>1, <3>2, <3>3
    <2>11. CASE Begin(q)
      <3>1. /\ UNCHANGED <<table, hour, week, freeze>> /\ Is(q, "checked")
            /\ request'[q].phase = "begun" /\ request'[q].by = request[q].by
            /\ request'[q].group = request[q].group
            /\ \A p \in Requests : p # q => request'[p] = request[p]
        <4>1. request[q] \in Working /\ request \in [Requests -> Request]
          BY <1>1, <2>11, Works DEF Begin, Is, TInv, TypeOK
        <4> QED BY <2>11, <4>1 DEF Begin, Working
      <3>2. /\ Counted' = Counted /\ Unfrozen' = Unfrozen
            /\ \A a \in Groups : Rated(a)' = Rated(a)
            /\ \A p \in Requests : request'[p].group = request[p].group
        BY <3>1 DEF Counted, Unfrozen, Rated, Is
      <3>3. CountedGroups' = CountedGroups
        BY <3>2 DEF CountedGroups, Counted
      <3>4. /\ CanaryGroups' = CanaryGroups /\ FrozenAdvances' = FrozenAdvances
            /\ \A a \in Groups : RolledRows(a)' = RolledRows(a)
        BY <3>1 DEF CanaryGroups, CanaryRows, RowsOf, FrozenAdvances, RolledRows, RollbackRows
      <3>5. CanaryInv'
        BY <3>3, <3>4, CanaryKeeps
      <3>6. RollbackInv'
        BY <3>2, <3>4, RollbackKeeps DEF RollbackInv
      <3>7. FreezeInv'
        BY <3>1, <3>2, <3>4, FreezeKeeps DEF FreezeInv
      <3> QED BY <3>5, <3>6, <3>7
    <2> QED BY <1>3, <2>1, <2>2, <2>3, <2>4, <2>5, <2>6, <2>8, <2>9, <2>10, <2>11 DEF Step
  <1>4. CASE \E g \in Groups, v \in Versions : Publish(g, v)
    BY <1>4, PublishLimit
  <1>5. CASE Freeze \/ Unfreeze \/ Pause
    BY <1>5, SurroundingsLimit
  <1> QED BY <1>2, <1>3, <1>4, <1>5 DEF Next

\* The limit of concurrent canaries is exceeded by less than the number of requests handled at
\* once (deployment-approval.ts:231-244): with one request at a time it holds as it stands.
THEOREM CanariesLimited == Spec => []CanaryLimitHolds
  <1>1. LimitInv => CanaryLimitHolds
    <2> SUFFICES ASSUME LimitInv PROVE CanaryLimitHolds
      OBVIOUS
    <2>1. IsFiniteSet(CanaryGroups \cup CountedGroups)
      BY GroupSets DEF LimitInv
    <2>2. /\ Cardinality(CanaryGroups) \in Nat /\ Cardinality(CanaryGroups \cup CountedGroups) \in Nat
          /\ Cardinality(CanaryGroups) =< Cardinality(CanaryGroups \cup CountedGroups)
      BY <2>1, SmallerSet
    <2>3. Cardinality(CanaryGroups) =< CanaryLimit + Cardinality(Requests) - 1
      BY <2>2, RequestsCount DEF LimitInv, CanaryInv
    <2> QED BY <2>3 DEF CanaryLimitHolds, CanaryGroups
  <1> QED BY <1>1, InitLimit, StepLimit, PTL DEF Spec

\* The same for the rollbacks of a group in an hour (corpus-rollback.ts:194-208).
THEOREM RollbacksLimited == Spec => []RollbackLimitHolds
  <1>1. LimitInv => RollbackLimitHolds
    <2> SUFFICES ASSUME LimitInv, NEW g \in Groups
                 PROVE  Cardinality(RolledRows(g)) =< RollbackLimit + Cardinality(Requests) - 1
      BY DEF RollbackLimitHolds, RolledRows
    <2>1. RolledRows(g) \in SUBSET DOMAIN table /\ Rated(g) \in SUBSET Requests
      BY DEF RolledRows, RollbackRows, RowsOf, Rated
    <2>2. Cardinality(RolledRows(g)) \in Nat /\ Cardinality(Rated(g)) \in Nat
      BY <2>1, RowSets, RequestSets DEF LimitInv
    <2> QED BY <2>2, RequestsCount DEF LimitInv, RollbackInv
  <1> QED BY <1>1, InitLimit, StepLimit, PTL DEF Spec

\* A freeze lets no more advances through than were past its check
\* (deployment-approval.ts:186-195).
THEOREM FreezeStops == Spec => []FreezeHolds
  <1>1. LimitInv => FreezeHolds
    <2> SUFFICES ASSUME LimitInv, freeze # NotFrozen
                 PROVE  Cardinality(FrozenAdvances) =< Cardinality(Requests)
      BY DEF FreezeHolds
    <2>1. FrozenAdvances \in SUBSET DOMAIN table /\ Unfrozen \in SUBSET Requests
      BY DEF FrozenAdvances, Unfrozen
    <2>2. Cardinality(FrozenAdvances) \in Nat /\ Cardinality(Unfrozen) \in Nat
      BY <2>1, RowSets, RequestSets DEF LimitInv
    <2> QED BY <2>2, RequestsCount DEF LimitInv, FreezeInv
  <1> QED BY <1>1, InitLimit, StepLimit, PTL DEF Spec

-----------------------------------------------------------------------------
(* A request that is not overtaken is atomic *)

\* What request r relies on in the rows of its group.
ReliesOn(r) ==
  /\ r.by = "advance" /\ r.phase \in {"read", "checked", "begun"} =>
       \A i \in Latest(r.group) : table[i].version = r.version /\ table[i].stage + 1 = r.stage
  /\ r.by = "abort" /\ r.phase \in {"aborting", "checked", "begun"} =>
       \A i \in Latest(r.group) : table[i].stage # Authoritative
  /\ r.by = "abort" /\ r.phase \in {"checked", "begun"} =>
       \A i \in LatestOf(AuthoritativeRows(r.group)) : table[i].version = r.version
  /\ r.by = "rollback" /\ r.phase \in {"checked", "begun"} =>
       \A i \in RowsOf(r.group) : table[i].stage \notin VenueCanary
  /\ r.phase = "begun" => \A i \in RowsOf(r.group) : table[i].at < r.at

Kept(q) == ~Is(q, "idle") /\ Undisturbed(q) => ReliesOn(request[q])

AtomicInv == TInv /\ \A q \in Requests : Kept(q)

\* The rows of a group are its own.
LEMMA KeptByOthers ==
  ASSUME TInv, NEW p \in Requests, Kept(p), request'[p] = request[p],
         \/ table' = table
         \/ \E row \in Row : table' = Append(table, row)
  PROVE  Kept(p)'
  <1> SUFFICES ASSUME ~Is(p, "idle"), Undisturbed(p)'
               PROVE  ReliesOn(request[p])'
    BY DEF Kept, Is
  <1> DEFINE r == request[p]
             g == request[p].group
  <1>1. r.seen \in Nat /\ r.seen =< Len(table) /\ Len(table) \in Nat /\ DOMAIN table = 1..Len(table)
    BY Works, Rows DEF Sound
  <1>2. RowsOf(g)' = RowsOf(g) /\ Undisturbed(p) /\ \A i \in RowsOf(g) : table'[i] = table[i]
    <2>1. CASE table' = table
      BY <2>1 DEF RowsOf, Undisturbed
    <2>2. ASSUME NEW row \in Row, table' = Append(table, row)
          PROVE  RowsOf(g)' = RowsOf(g) /\ Undisturbed(p) /\ \A i \in RowsOf(g) : table'[i] = table[i]
      <3>1. /\ DOMAIN table' = 1..Len(table) + 1 /\ table'[Len(table) + 1] = row
            /\ \A i \in DOMAIN table : i \in DOMAIN table' /\ table'[i] = table[i]
        BY <2>2, Appended DEF TInv, TypeOK
      <3>2. row.group # g
        BY <1>1, <3>1 DEF Undisturbed
      <3>3. \A i \in DOMAIN table' : i \in DOMAIN table \/ i = Len(table) + 1
        BY <1>1, <3>1
      <3>4. RowsOf(g)' = RowsOf(g)
        BY <3>1, <3>2, <3>3 DEF RowsOf
      <3>5. Undisturbed(p)
        BY <3>1 DEF Undisturbed
      <3>6. \A i \in RowsOf(g) : table'[i] = table[i]
        BY <3>1 DEF RowsOf
      <3> QED BY <3>4, <3>5, <3>6
    <2> QED BY <2>1, <2>2
  <1>3. AuthoritativeRows(g)' = AuthoritativeRows(g) /\ AuthoritativeRows(g) \subseteq RowsOf(g)
    BY <1>2 DEF AuthoritativeRows
  <1>4. Latest(g)' = Latest(g) /\ Latest(g) \subseteq RowsOf(g)
    BY <1>2 DEF Latest, LatestOf
  <1>5. LatestOf(AuthoritativeRows(g))' = LatestOf(AuthoritativeRows(g))
    BY <1>2, <1>3 DEF LatestOf
  <1>6. LatestOf(AuthoritativeRows(g)) \subseteq RowsOf(g)
    BY <1>3 DEF LatestOf
  <1>7. ReliesOn(r)
    BY <1>2 DEF Kept
  <1>8. (r.group)' = g
    OBVIOUS
  <1> QED BY <1>2, <1>4, <1>5, <1>6, <1>7 DEF ReliesOn

\* What a check of a request adds to what it relies on.
LEMMA ChecksKeep ==
  ASSUME AtomicInv, NEW q \in Requests,
         ReadStage(q) \/ CountCanaries(q) \/ FindBaseline(q) \/ CheckCanary(q) \/ Begin(q)
  PROVE  Kept(q)'
  <1>1. /\ TInv /\ Kept(q) /\ ~Is(q, "idle") /\ request[q] \in Working /\ Sound(q)
        /\ table' = table /\ request \in [Requests -> Request]
    BY Works DEF AtomicInv, ReadStage, CountCanaries, FindBaseline, CheckCanary, Begin, Goes, Is,
                 TInv, TypeOK
  <1>2. CASE ReadStage(q)
    <2>1. PICK i \in Latest(request[q].group) :
            Goes(q, [request[q] EXCEPT !.phase = "read", !.version = table[i].version,
                                       !.stage = table[i].stage + 1, !.seen = Len(table)])
      BY <1>2 DEF ReadStage
    <2>2. /\ request'[q].phase = "read" /\ request'[q].version = table[i].version
          /\ request'[q].stage = table[i].stage + 1 /\ request'[q].by = "advance"
          /\ request'[q].group = request[q].group
      BY <1>1, <1>2, <2>1 DEF ReadStage, Goes, Is, Sound, Working
    <2>3. \A j \in Latest(request[q].group) : j = i
      <3>1. RowsOf(request[q].group) \in SUBSET DOMAIN table
        BY DEF RowsOf
      <3> QED BY <1>1, <3>1, LatestIsOne DEF Latest
    <2>4. Latest(request[q].group)' = Latest(request[q].group)
      BY <1>1, <2>2 DEF Latest, LatestOf, RowsOf
    <2> QED BY <1>1, <2>2, <2>3, <2>4 DEF Kept, ReliesOn
  <1>3. CASE CountCanaries(q) \/ FindBaseline(q) \/ CheckCanary(q) \/ Begin(q)
    <2>1. /\ request'[q].by = request[q].by /\ request'[q].group = request[q].group
          /\ request'[q].stage = request[q].stage /\ request'[q].seen = request[q].seen
          /\ request'[q].version = request[q].version \/ FindBaseline(q)
          /\ request'[q].phase = IF Begin(q) THEN "begun" ELSE "checked"
      <3>1. CASE Begin(q)
        BY <1>1, <3>1 DEF Begin, Working, FindBaseline, Is
      <3>2. CASE CountCanaries(q)
        BY <1>1, <3>2 DEF CountCanaries, Goes, Working, Begin, Is
      <3>3. CASE FindBaseline(q)
        BY <1>1, <3>3 DEF FindBaseline, Goes, Working, Begin, Is
      <3>4. CASE CheckCanary(q)
        BY <1>1, <3>4 DEF CheckCanary, Goes, Working, Begin, Is
      <3> QED BY <1>3, <3>1, <3>2, <3>3, <3>4
    <2>2. Undisturbed(q)' => Undisturbed(q)
      BY <1>1, <2>1 DEF Undisturbed
    <2> SUFFICES ASSUME ReliesOn(request[q])
                 PROVE  ReliesOn(request[q])'
      BY <1>1, <2>2 DEF Kept
    <2> DEFINE g == request[q].group
    <2>3. /\ RowsOf(g)' = RowsOf(g) /\ Latest(g)' = Latest(g)
          /\ AuthoritativeRows(g)' = AuthoritativeRows(g)
          /\ LatestOf(AuthoritativeRows(g))' = LatestOf(AuthoritativeRows(g))
      BY <1>1, <2>1 DEF RowsOf, Latest, LatestOf, AuthoritativeRows
    <2>4. CASE CountCanaries(q)
      <3>1. request[q].by = "advance" /\ request[q].phase = "read" /\ request'[q].phase = "checked"
            /\ request'[q].version = request[q].version
        BY <1>1, <2>1, <2>4 DEF CountCanaries, Begin, FindBaseline, Is, Sound
      <3> QED BY <1>1, <2>1, <2>3, <3>1 DEF ReliesOn
    <2>5. CASE FindBaseline(q)
      <3>1. PICK i \in LatestOf(AuthoritativeRows(g)) :
              Goes(q, [request[q] EXCEPT !.phase = "checked", !.version = table[i].version])
        BY <2>5 DEF FindBaseline
      <3>2. request'[q].version = table[i].version
        BY <1>1, <3>1 DEF Goes, Working
      <3>3. \A j \in LatestOf(AuthoritativeRows(g)) : j = i
        <4>1. AuthoritativeRows(g) \in SUBSET DOMAIN table
          BY DEF AuthoritativeRows, RowsOf
        <4> QED BY <1>1, <4>1, LatestIsOne
      <3>4. request[q].by = "abort" /\ request[q].phase = "aborting" /\ request'[q].phase = "checked"
        BY <1>1, <2>1, <2>5 DEF FindBaseline, Begin, Is, Sound
      <3> QED BY <1>1, <2>1, <2>3, <3>2, <3>3, <3>4 DEF ReliesOn
    <2>6. CASE CheckCanary(q)
      <3>1. request[q].by = "rollback" /\ request'[q].phase = "checked"
            /\ \A i \in RowsOf(g) : table[i].stage \notin VenueCanary
        BY <1>1, <2>1, <2>6 DEF CheckCanary, Begin, Is, Sound
      <3> QED BY <1>1, <2>1, <2>3, <3>1 DEF ReliesOn
    <2>7. CASE Begin(q)
      <3>1. /\ request[q].phase = "checked" /\ request'[q].phase = "begun"
            /\ request'[q].version = request[q].version /\ request'[q].at = clock + 1
        BY <1>1, <2>1, <2>7 DEF Begin, FindBaseline, Is, Working
      <3>2. \A i \in RowsOf(g) : table[i].at < clock + 1
        BY <1>1, Rows DEF RowsOf
      <3> QED BY <1>1, <2>1, <2>3, <3>1, <3>2 DEF ReliesOn
    <2> QED BY <1>3, <2>4, <2>5, <2>6, <2>7
  <1> QED BY <1>2, <1>3

\* What a request relies on when it comes in.
LEMMA AsksKeep ==
  ASSUME AtomicInv, NEW q \in Requests, NEW g \in Groups,
         Advance(q, g) \/ Abort(q, g) \/ \E v \in Versions : Rollback(q, g, v)
  PROVE  Kept(q)'
  <1>1. TInv /\ table' = table /\ request \in [Requests -> Request]
    BY DEF AtomicInv, Advance, Abort, Rollback, Goes, TInv, TypeOK
  <1>2. CASE Advance(q, g) \/ \E v \in Versions : Rollback(q, g, v)
    <2>1. request'[q].phase \in {"unfrozen", "rated"}
          /\ request'[q].by = IF request'[q].phase = "unfrozen" THEN "advance" ELSE "rollback"
      BY <1>1, <1>2 DEF Advance, Rollback, Goes
    <2> QED BY <2>1 DEF Kept, ReliesOn
  <1>3. CASE Abort(q, g)
    <2>1. PICK i \in Latest(g) : table[i].stage # Authoritative
      BY <1>3 DEF Abort
    <2>2. \A j \in Latest(g) : j = i
      <3>1. RowsOf(g) \in SUBSET DOMAIN table
        BY DEF RowsOf
      <3> QED BY <1>1, <3>1, LatestIsOne DEF Latest
    <2>3. request'[q].phase = "aborting" /\ request'[q].by = "abort" /\ request'[q].group = g
      BY <1>1, <1>3 DEF Abort, Goes
    <2>4. Latest(g)' = Latest(g)
      BY <1>1 DEF Latest, LatestOf, RowsOf
    <2> QED BY <1>1, <2>1, <2>2, <2>3, <2>4 DEF Kept, ReliesOn
  <1> QED BY <1>2, <1>3

LEMMA InitAtomic == Init => AtomicInv
  BY InitType DEF AtomicInv, Kept, Init, Is, Idle

LEMMA StepAtomic == AtomicInv /\ [Next]_vars => AtomicInv'
  <1> SUFFICES ASSUME AtomicInv, [Next]_vars PROVE \A p \in Requests : Kept(p)'
    BY StepType DEF AtomicInv
  <1>1. TInv /\ \A p \in Requests : Kept(p)
    BY DEF AtomicInv
  <1>2. CASE UNCHANGED vars
    BY <1>1, <1>2, KeptByOthers DEF vars
  <1>3. ASSUME NEW q \in Requests, Step(q)
        PROVE  \A p \in Requests : Kept(p)'
    <2>1. \/ table' = table
          \/ \E row \in Row : table' = Append(table, row)
      BY <1>1, <1>3, BegunRow DEF Step, Advance, Abort, Rollback, ReadStage, CountCanaries, FindBaseline,
                                  CheckCanary, Begin, Commit, Refuse, Goes
    <2>2. \A p \in Requests : p # q => request'[p] = request[p]
      BY <1>1, <1>3 DEF Step, Advance, Abort, Rollback, ReadStage, CountCanaries, FindBaseline,
                        CheckCanary, Begin, Commit, Refuse, Goes, TInv, TypeOK
    <2>3. Kept(q)'
      <3>1. CASE Commit(q) \/ Refuse(q)
        <4>1. request'[q] = Idle
          BY <1>1, <3>1 DEF Commit, Refuse, Goes, TInv, TypeOK
        <4> QED BY <4>1 DEF Kept, Is, Idle
      <3> QED BY <1>3, <3>1, ChecksKeep, AsksKeep DEF Step
    <2> QED BY <1>1, <2>1, <2>2, <2>3, KeptByOthers
  <1>4. ASSUME NEW g \in Groups, NEW v \in Versions, Publish(g, v)
        PROVE  \A p \in Requests : Kept(p)'
    <2> DEFINE row == [group |-> g, version |-> v, stage |-> Shadow, at |-> clock + 1, by |-> "publish"]
    <2>1. row \in Row /\ table' = Append(table, row) /\ request' = request
      BY <1>1, <1>4, Rows DEF Publish, Row, Stages, Shadow, Authoritative
    <2> QED BY <1>1, <2>1, KeptByOthers
  <1>5. CASE Freeze \/ Unfreeze \/ Pause
    <2>1. table' = table /\ request' = request
      BY <1>5 DEF Freeze, Unfreeze, Pause
    <2> QED BY <1>1, <2>1, KeptByOthers
  <1> QED BY <1>2, <1>3, <1>4, <1>5 DEF Next

\* A request that no other of its group overtakes has the effect of one transaction
\* (deployment-approval.ts:198-289, 322-390; corpus-rollback.ts:194-270): the latest row is still the
\* one it checked, the baseline still the last one, and its own row becomes the latest.
THEOREM UndisturbedIsAtomic == Spec => AtomicWhenUndisturbed
  <1>1. AtomicInv /\ [Next]_vars =>
          [\A q \in Requests : Commit(q) /\ Undisturbed(q) =>
             /\ Promised(request[q])
             /\ \A i \in RowsOf(request[q].group) : table[i].at < request[q].at]_vars
    <2> SUFFICES ASSUME AtomicInv, NEW q \in Requests, Commit(q), Undisturbed(q)
                 PROVE  /\ Promised(request[q])
                        /\ \A i \in RowsOf(request[q].group) : table[i].at < request[q].at
      OBVIOUS
    <2>1. /\ request[q].phase = "begun" /\ ReliesOn(request[q])
          /\ request[q].by \in {"advance", "abort", "rollback"}
      <3>1. ~Is(q, "idle") /\ request[q].phase = "begun"
        BY DEF Commit, Is
      <3> QED BY <3>1, Works DEF AtomicInv, Kept, Working
    <2>2. \A i \in RowsOf(request[q].group) : table[i].at < request[q].at
      BY <2>1 DEF ReliesOn
    <2>3. CASE request[q].by = "advance"
      BY <2>1, <2>3 DEF ReliesOn, Promised
    <2>4. CASE request[q].by = "abort"
      BY <2>1, <2>4 DEF ReliesOn, Promised
    <2>5. CASE request[q].by = "rollback"
      BY <2>1, <2>5 DEF ReliesOn, Promised
    <2> QED BY <2>1, <2>2, <2>3, <2>4, <2>5
  <1> QED BY <1>1, InitAtomic, StepAtomic, PTL DEF Spec, AtomicWhenUndisturbed

-----------------------------------------------------------------------------
(* Without the table of the health gate *)

NoAdvance == {i \in DOMAIN table : table[i].by = "advance"} \subseteq DOMAIN History

NoAdvanceInv ==
  /\ NoAdvance
  /\ table \in Seq(Row) /\ Len(History) =< Len(table)
  /\ \A q \in Requests : Is(q, "begun") => request[q].by # "advance"

\* With the migrations of the repository no advance ever commits: runHealthChecks
\* (deployment-approval.ts:423-470) reads a table that none of them creates.
THEOREM NoneAdvances ==
  ASSUME ~HealthTable
  PROVE  Spec => []NoAdvance
  <1>1. Init => NoAdvanceInv
    BY InitType, DeploymentsAssumption DEF Init, NoAdvanceInv, NoAdvance, TInv, TypeOK, Is, Idle
  <1>2. NoAdvanceInv /\ TInv /\ [Next]_vars => NoAdvanceInv'
    <2> SUFFICES ASSUME NoAdvanceInv, TInv, [Next]_vars
                 PROVE  NoAdvanceInv'
      OBVIOUS
    <2>1. request \in [Requests -> Request]
      BY DEF TInv, TypeOK
    <2>2. \/ table' = table
          \/ \E row \in Row : table' = Append(table, row) /\ row.by # "advance"
      <3>1. ASSUME NEW q \in Requests, Commit(q)
            PROVE  RowOf(request[q]) \in Row /\ RowOf(request[q]).by # "advance"
        BY <3>1, BegunRow DEF Commit, RowOf, NoAdvanceInv
      <3>2. ASSUME NEW g \in Groups, NEW v \in Versions, Publish(g, v)
            PROVE  \E row \in Row : table' = Append(table, row) /\ row.by # "advance"
        <4> DEFINE row == [group |-> g, version |-> v, stage |-> Shadow, at |-> clock + 1,
                           by |-> "publish"]
        <4>1. row \in Row /\ table' = Append(table, row) /\ row.by # "advance"
          BY <3>2, Rows DEF Publish, Row, Stages, Shadow, Authoritative
        <4> QED BY <4>1
      <3> QED BY <3>1, <3>2 DEF Next, Step, Advance, Abort, Rollback, ReadStage, CountCanaries,
                               FindBaseline, CheckCanary, Begin, Commit, Refuse, Goes, Freeze, Unfreeze,
                               Pause, vars
    <2>3. \A q \in Requests : Is(q, "begun")' => request'[q].by # "advance"
      <3>1. ASSUME NEW q \in Requests, Step(q), NEW p \in Requests, Is(p, "begun")'
            PROVE  request'[p].by # "advance"
        <4>1. CASE Begin(q)
          <5>1. ~Is(q, "idle") /\ request[q].by # "advance"
            BY <4>1 DEF Begin, Is
          <5>2. request[q] \in Working
            BY <5>1, Works
          <5> QED BY <2>1, <3>1, <4>1, <5>1, <5>2 DEF Begin, NoAdvanceInv, Is, Working
        <4>2. CASE ~Begin(q)
          <5>1. ~Is(q, "begun")' /\ \A o \in Requests : o # q => request'[o] = request[o]
            <6>1. CASE \E g \in Groups : Advance(q, g) \/ Abort(q, g)
              BY <2>1, <6>1 DEF Advance, Abort, Goes, Is
            <6>2. CASE \E g \in Groups, v \in Versions : Rollback(q, g, v)
              BY <2>1, <6>2 DEF Rollback, Goes, Is
            <6>3. CASE ReadStage(q) \/ CountCanaries(q) \/ FindBaseline(q) \/ CheckCanary(q)
              <7>1. request[q] \in Working
                BY <6>3, Works DEF ReadStage, CountCanaries, FindBaseline, CheckCanary, Is
              <7> QED BY <2>1, <6>3, <7>1 DEF ReadStage, CountCanaries, FindBaseline, CheckCanary, Goes,
                                              Is, Working
            <6>4. CASE Commit(q) \/ Refuse(q)
              BY <2>1, <6>4 DEF Commit, Refuse, Goes, Is, Idle
            <6> QED BY <3>1, <4>2, <6>1, <6>2, <6>3, <6>4 DEF Step
          <5> QED BY <3>1, <5>1 DEF NoAdvanceInv, Is
        <4> QED BY <4>1, <4>2
      <3>2. CASE UNCHANGED request
        BY <3>2 DEF NoAdvanceInv, Is
      <3> QED BY <3>1, <3>2 DEF Next, Publish, Freeze, Unfreeze, Pause, vars
    <2>4. /\ {i \in DOMAIN table : table[i].by = "advance"}' \subseteq
                {i \in DOMAIN table : table[i].by = "advance"}
          /\ table' \in Seq(Row) /\ Len(History) =< Len(table')
      <3>1. CASE table' = table
        BY <3>1 DEF NoAdvanceInv
      <3>2. ASSUME NEW row \in Row, table' = Append(table, row), row.by # "advance"
            PROVE  <2>4!:
        <4>1. /\ table' \in Seq(Row) /\ Len(table) \in Nat /\ Len(table') = Len(table) + 1
              /\ DOMAIN table = 1..Len(table) /\ DOMAIN table' = 1..Len(table) + 1
              /\ \A i \in DOMAIN table : table'[i] = table[i]
              /\ table'[Len(table) + 1] = row
          BY <3>2, Appended DEF NoAdvanceInv
        <4>2. Len(History) \in Nat
          BY DeploymentsAssumption
        <4> QED BY <3>2, <4>1, <4>2 DEF NoAdvanceInv
      <3> QED BY <2>2, <3>1, <3>2
    <2> QED BY <2>3, <2>4 DEF NoAdvanceInv, NoAdvance
  <1>3. NoAdvanceInv => NoAdvance
    BY DEF NoAdvanceInv
  <1> QED BY <1>1, <1>2, <1>3, InitType, StepType, PTL DEF Spec

-----------------------------------------------------------------------------
(* What an abort restores *)

\* Row i of t repeats an AUTHORITATIVE row of its group and version that was there before.
Repeats(t, i) == \E j \in 1..i - 1 : /\ t[j].group = t[i].group
                                     /\ t[j].version = t[i].version
                                     /\ t[j].stage = Authoritative
                                     /\ t[j].at < t[i].at

\* One row more, which is not an abort's or repeats another.
LEMMA AppendRestores ==
  ASSUME TInv, AbortRestores, NEW row \in Row, table' = Append(table, row),
         row.by = "abort" => \E j \in DOMAIN table : /\ table[j].group = row.group
                                                     /\ table[j].version = row.version
                                                     /\ table[j].stage = Authoritative
                                                     /\ table[j].at < row.at
  PROVE  AbortRestores'
  <1>1. /\ Len(table) \in Nat /\ DOMAIN table = 1..Len(table) /\ DOMAIN table' = 1..Len(table) + 1
        /\ \A i \in DOMAIN table : table'[i] = table[i]
        /\ table'[Len(table) + 1] = row
    BY Appended DEF TInv, TypeOK
  <1> SUFFICES ASSUME NEW i \in DOMAIN table', i > Len(History), table'[i].by = "abort"
               PROVE  Repeats(table', i)
    BY DEF AbortRestores, Repeats
  <1>2. CASE i \in DOMAIN table
    <2>1. Repeats(table, i)
      BY <1>1, <1>2 DEF AbortRestores, Repeats
    <2>2. \A j \in 1..i - 1 : table'[j] = table[j]
      BY <1>1, <1>2
    <2> QED BY <1>1, <1>2, <2>1, <2>2 DEF Repeats
  <1>3. CASE i = Len(table) + 1
    <2>1. PICK j \in DOMAIN table : /\ table[j].group = row.group
                                    /\ table[j].version = row.version
                                    /\ table[j].stage = Authoritative
                                    /\ table[j].at < row.at
      BY <1>1, <1>3
    <2>2. j \in 1..i - 1 /\ table'[j] = table[j] /\ table'[i] = row
      BY <1>1, <1>3
    <2> QED BY <2>1, <2>2 DEF Repeats
  <1> QED BY <1>1, <1>2, <1>3

\* An abort reads its baseline in a statement of its own and inserts the row in a later one;
\* what it read is still in the table, which no request ever deletes from
\* (deployment-approval.ts:309-390).
THEOREM AbortsRestore == Spec => []AbortRestores
  <1>1. Init => AbortRestores
    BY DEF Init, AbortRestores
  <1>2. LadderInv /\ AbortRestores /\ [Next]_vars => AbortRestores'
    <2> SUFFICES ASSUME LadderInv, AbortRestores, [Next]_vars PROVE AbortRestores'
      OBVIOUS
    <2>1. TInv
      BY DEF LadderInv
    <2>2. CASE UNCHANGED table
      BY <2>2 DEF AbortRestores
    <2>3. ASSUME NEW q \in Requests, Commit(q)
          PROVE  AbortRestores'
      <3> DEFINE row == RowOf(request[q])
      <3>1. row \in Row /\ table' = Append(table, row) /\ Is(q, "begun")
        BY <2>1, <2>3, BegunRow DEF Commit
      <3>2. ASSUME row.by = "abort"
            PROVE  \E j \in DOMAIN table : From(q, j) /\ request[q].by = "abort"
        BY <3>1, <3>2 DEF LadderInv, Founded, Is, RowOf
      <3>3. row.by = "abort" => \E j \in DOMAIN table : /\ table[j].group = row.group
                                                        /\ table[j].version = row.version
                                                        /\ table[j].stage = Authoritative
                                                        /\ table[j].at < row.at
        BY <3>1, <3>2 DEF From, RowOf
      <3> QED BY <2>1, <3>1, <3>3, AppendRestores
    <2>4. ASSUME NEW g \in Groups, NEW v \in Versions, Publish(g, v)
          PROVE  AbortRestores'
      <3> DEFINE row == [group |-> g, version |-> v, stage |-> Shadow, at |-> clock + 1, by |-> "publish"]
      <3>1. row \in Row /\ row.by # "abort"
        BY <2>1, Rows DEF Row, Stages, Shadow, Authoritative
      <3>2. table' = Append(table, row)
        BY <2>4 DEF Publish
      <3> QED BY <2>1, <3>1, <3>2, AppendRestores
    <2> QED BY <2>2, <2>3, <2>4 DEF Next, Step, Advance, Abort, Rollback, ReadStage, CountCanaries,
                                    FindBaseline, CheckCanary, Begin, Refuse, Goes, Freeze, Unfreeze,
                                    Pause, vars
  <1> QED BY <1>1, <1>2, InitLadder, StepLadder, PTL DEF Spec

=============================================================================
