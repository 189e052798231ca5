------------------------- MODULE RolloutStoreProofs -------------------------
(***************************************************************************)
(* Theorems about RolloutStore, for any set of updates, any number of      *)
(* concurrent requests and any windows.                                    *)
(*                                                                         *)
(* The inductive invariant says what optimistic concurrency buys: a copy   *)
(* whose version is still the version of its row is one legal step away    *)
(* from that row (Derived), whatever other requests did in between.        *)
(***************************************************************************)
EXTENDS RolloutStore, TLAPS

-----------------------------------------------------------------------------
(* The inductive invariant *)

\* The origin of a freeze is on record exactly while the row is frozen.
OriginOK(r) == IF r.state = "FROZEN" THEN r.frozenFrom \in Freezable
                                     ELSE r.frozenFrom = NoRing

\* c is the row r as loaded, or r after one legal step.
Derived(r, c) ==
  /\ c.version = r.version
  /\ \/ c = r
     \/ /\ c.state \in ALLOWED_TRANSITIONS[r.state]
        /\ c.history = Append(r.history, c.state)
        /\ c.frozenFrom = IF c.state = "FROZEN" THEN r.state ELSE NoRing
        /\ r.state = "FROZEN" => c.state = r.frozenFrom
        /\ c.state = NextRingState[r.state] =>
             c.enteredAt - r.enteredAt >= RequiredWindow(r.state)
        /\ c.state \in DOMAIN RingBefore => r.state \in {"FROZEN", RingBefore[c.state]}

\* A request that holds a copy of a row.
Holding(q) == reqs[q].stage \in {"decide", "persist"}

Live(r) == r.state \notin Terminal \cup {"ABSENT"}

\* The copy of request x was taken from row r; while their versions agree it is what
\* the stage of the request makes of that row.
Follows(x, r) ==
  /\ r.state # "ABSENT"
  /\ x.copy.state \in States
  /\ x.copy.version =< r.version
  /\ x.copy.version = r.version =>
       /\ Live(r)
       /\ IF x.stage = "decide" THEN x.copy = r ELSE Derived(r, x.copy)

CopiesFollowRows ==
  \A q \in Requests : Holding(q) =>
    /\ reqs[q].update \in Updates
    /\ Follows(reqs[q], rows[reqs[q].update])

InsertsKnown == \A q \in Requests : reqs[q].stage = "insert" => reqs[q].update \in Updates

Origins == \A u \in Updates : OriginOK(rows[u])

\* While the fleet flag is open every request in progress has seen it open, and a
\* promotion about to be persisted has.
OpenSeen ==
  \A q \in Requests :
    /\ reqs[q].stage # "idle" /\ ~fleetFrozen => openSeen[q]
    /\ reqs[q].stage = "persist" /\ reqs[q].reply = "promoted" => openSeen[q]

Visited(r, s) == \E j \in DOMAIN r.history : r.history[j] = s

\* The ring a row is in, or is frozen in, is in its history.
RingsVisited ==
  \A u \in Updates :
    /\ rows[u].state \in {"RING_0", "RING_1", "RING_2", "RING_3"} =>
         Visited(rows[u], rows[u].state)
    /\ rows[u].state = "FROZEN" => Visited(rows[u], rows[u].frozenFrom)

Inv == /\ TypeOK
       /\ AtMostOneActive
       /\ Origins
       /\ CopiesFollowRows
       /\ InsertsKnown
       /\ OpenSeen

-----------------------------------------------------------------------------
(* The ring state machine *)

LEMMA NextRing ==
  ASSUME NEW s \in States
  PROVE  /\ s \notin NotPromotable => /\ NextRingState[s] \in ALLOWED_TRANSITIONS[s]
                                      /\ NextRingState[s] \in States
         /\ NextRingState[s] \notin {"FROZEN", "ROLLED_BACK", "STAGING", "ABSENT"}
         /\ NextRingState["FROZEN"] = NoRing
         /\ NextRingState[s] \in DOMAIN RingBefore => s = RingBefore[NextRingState[s]]
BY DEF States, NotPromotable, NextRingState, ALLOWED_TRANSITIONS, RingBefore, NoRing

LEMMA Allowed ==
  ASSUME NEW s \in States, NEW to \in ALLOWED_TRANSITIONS[s]
  PROVE  /\ to \in States
         /\ to # s
         /\ to = "FROZEN" => s \in Freezable
         /\ s = "FROZEN" => to # "ROLLED_BACK"
BY DEF States, ALLOWED_TRANSITIONS, Freezable

\* What transition() leaves of a well-typed object.
LEMMA TransitionType ==
  ASSUME NEW r \in Row, r.state \in States, NEW to, NEW n \in Nat
  PROVE  /\ Transition(r, to, n) \in Row
         /\ Transition(r, to, n).state \in States
         /\ Transition(r, to, n).version = r.version
<1>1. CASE Permitted(r, to)
  <2>1. /\ to \in States
        /\ to = "FROZEN" => r.state \in Freezable
    BY <1>1, Allowed DEF Permitted
  <2>2. Append(r.history, to) \in Seq(States)
    BY <2>1 DEF Row
  <2> QED BY <1>1, <2>1, <2>2 DEF Transition, Row
<1>2. CASE ~Permitted(r, to)
  BY <1>2 DEF Transition
<1> QED BY <1>1, <1>2

\* A permitted transition that is neither a resume nor a ring advance is a legal step.
LEMMA TransitionDerives ==
  ASSUME NEW r \in Row, r.state \in States, OriginOK(r), NEW to, NEW n \in Nat,
         Permitted(r, to), to \in {"ROLLED_BACK", "FROZEN", "STAGING"}
  PROVE  Derived(r, Transition(r, to, n))
<1> DEFINE c == Transition(r, to, n)
<1>1. /\ c.state = to
      /\ c.history = Append(r.history, to)
      /\ c.version = r.version
      /\ c.frozenFrom = IF to = "FROZEN" THEN r.state ELSE r.frozenFrom
  BY DEF Transition, Row
<1>2. r.state # "FROZEN"
  BY DEF Permitted, ALLOWED_TRANSITIONS, States
<1>3. r.frozenFrom = NoRing
  BY <1>2 DEF OriginOK
<1>4. /\ c.state \in ALLOWED_TRANSITIONS[r.state]
      /\ c.state # NextRingState[r.state]
      /\ c.state \notin DOMAIN RingBefore
  BY <1>1, NextRing DEF Permitted, RingBefore
<1> QED BY <1>1, <1>2, <1>3, <1>4 DEF Derived

LEMMA LiftFreezeDerives ==
  ASSUME NEW r \in Row, r.state = "FROZEN", OriginOK(r), NEW n \in Nat
  PROVE  /\ LiftFreeze(r, n) \in Row
         /\ LiftFreeze(r, n).state \in States
         /\ Derived(r, LiftFreeze(r, n))
<1> DEFINE r0 == [r EXCEPT !.frozenFrom = NoRing]
           c  == LiftFreeze(r, n)
<1>1. r.frozenFrom \in Freezable
  BY DEF OriginOK
<1>2. r0 \in Row /\ r0.state = "FROZEN" /\ r0.history = r.history /\ r0.version = r.version
      /\ r0.frozenFrom = NoRing
  BY DEF Row
<1>3. Permitted(r0, r.frozenFrom)
  BY <1>1, <1>2 DEF Permitted, ALLOWED_TRANSITIONS, States, Freezable
<1>4. c = Transition(r0, r.frozenFrom, n)
  BY DEF LiftFreeze
<1>5. c \in Row /\ c.state \in States
  BY <1>2, <1>4, TransitionType DEF States
<1>6. /\ c.state = r.frozenFrom
      /\ c.history = Append(r.history, c.state)
      /\ c.version = r.version
      /\ c.frozenFrom = NoRing
  BY <1>1, <1>2, <1>3, <1>4 DEF Transition, Row, Freezable
<1>7. c.state \in ALLOWED_TRANSITIONS[r.state]
  BY <1>2, <1>3, <1>6 DEF Permitted
<1>8. c.state # NextRingState[r.state]
  BY <1>1, <1>6, NextRing DEF NoRing, Freezable, States
<1>9. c.state # "FROZEN"
  BY <1>1, <1>6 DEF Freezable
<1> QED BY <1>5, <1>6, <1>7, <1>8, <1>9 DEF Derived

\* What promoteRing() leaves of any well-typed copy, stale or not.
LEMMA PromoteType ==
  ASSUME NEW r \in Row, r.state \in States, NEW m \in Metrics, NEW x \in BOOLEAN, NEW n \in Nat
  PROVE  /\ Promote(r, m, x, n) \in Row
         /\ Promote(r, m, x, n).state \in States
         /\ Promote(r, m, x, n).version = r.version
<1> DEFINE o == PromoteOutcome(r, m, x, n)
<1>1. CASE o = "frozen"
  BY <1>1, TransitionType DEF Promote
<1>2. CASE o = "rollback"
  BY <1>2, TransitionType DEF Promote
<1>3. CASE o = "promoted"
  BY <1>3, TransitionType DEF Promote
<1>4. CASE o \notin {"frozen", "rollback", "promoted"}
  <2>1. Promote(r, m, x, n) = r
    BY <1>4 DEF Promote
  <2> QED BY <2>1
<1> QED BY <1>1, <1>2, <1>3, <1>4

\* A ring advance has waited for the window of the ring it leaves.
LEMMA PromotedFacts ==
  ASSUME NEW r \in Row, r.state \in States, NEW m \in Metrics, NEW x \in BOOLEAN, NEW n \in Nat,
         PromoteOutcome(r, m, x, n) = "promoted"
  PROVE  /\ r.state \notin NotPromotable
         /\ ~(n - r.enteredAt < RequiredWindow(r.state))
BY DEF PromoteOutcome

\* What promoteRing() leaves of an up-to-date copy is at most one legal step away.
LEMMA PromoteDerives ==
  ASSUME NEW r \in Row, r.state \in States, OriginOK(r),
         NEW m \in Metrics, NEW x \in BOOLEAN, NEW n \in Nat
  PROVE  Derived(r, Promote(r, m, x, n))
<1> DEFINE o == PromoteOutcome(r, m, x, n)
           c == Promote(r, m, x, n)
<1>1. ASSUME NEW to \in {"FROZEN", "ROLLED_BACK"}, c = Transition(r, to, n)
      PROVE  Derived(r, c)
  <2>1. CASE Permitted(r, to)
    BY <1>1, <2>1, TransitionDerives
  <2>2. CASE ~Permitted(r, to)
    BY <1>1, <2>2 DEF Transition, Derived
  <2> QED BY <2>1, <2>2
<1>2. CASE o = "frozen"
  BY <1>1, <1>2 DEF Promote
<1>3. CASE o = "rollback"
  BY <1>1, <1>3 DEF Promote
<1>4. CASE o = "promoted"
  <2> DEFINE to == NextRingState[r.state]
  <2>1. /\ r.state \notin NotPromotable
        /\ ~(n - r.enteredAt < RequiredWindow(r.state))
    BY <1>4, PromotedFacts
  <2>2. /\ to \in ALLOWED_TRANSITIONS[r.state]
        /\ to \in States
        /\ to # "FROZEN"
        /\ to \in DOMAIN RingBefore => r.state = RingBefore[to]
    BY <2>1, NextRing
  <2>3. c = Transition(r, to, n)
    BY <1>4 DEF Promote
  <2>4. /\ c.state = to
        /\ c.history = Append(r.history, to)
        /\ c.version = r.version
        /\ c.enteredAt = n
        /\ c.frozenFrom = r.frozenFrom
    BY <2>2, <2>3 DEF Transition, Permitted, Row
  <2>5. r.state # "FROZEN" /\ r.frozenFrom = NoRing
    BY <2>1 DEF NotPromotable, OriginOK
  <2>6. n - r.enteredAt >= RequiredWindow(r.state)
    BY <2>1, WindowAssumption DEF RequiredWindow, Row
  <2>7. c.state = NextRingState[r.state] => c.enteredAt - r.enteredAt >= RequiredWindow(r.state)
    BY <2>4, <2>6
  <2>8. c.state \in DOMAIN RingBefore => r.state \in {"FROZEN", RingBefore[c.state]}
    BY <2>2, <2>4
  <2>9. c.frozenFrom = IF c.state = "FROZEN" THEN r.state ELSE NoRing
    BY <2>2, <2>4, <2>5
  <2>10. c.state \in ALLOWED_TRANSITIONS[r.state] /\ c.history = Append(r.history, c.state)
    BY <2>2, <2>4
  <2> QED BY <2>4, <2>5, <2>7, <2>8, <2>9, <2>10 DEF Derived
<1>5. CASE o \notin {"frozen", "rollback", "promoted"}
  <2>1. c = r
    BY <1>5 DEF Promote
  <2> QED BY <2>1 DEF Derived
<1> QED BY <1>2, <1>3, <1>4, <1>5

-----------------------------------------------------------------------------
(* Every copy a request starts with, or changes, stays one step from its row *)

\* A request that loads the active row and changes it.
LEMMA LoadAndChangeInv ==
  ASSUME Inv, NEW q \in Requests, NEW u \in Updates, NEW c \in Row,
         Active(u), c.state \in States, Derived(rows[u], c), LoadAndChange(q, u, c)
  PROVE  Inv'
<1>1. /\ reqs[q].stage = "idle"
      /\ reqs' = [reqs EXCEPT ![q] = [stage |-> "persist", update |-> u, copy |-> c,
                                      reply |-> "none"]]
      /\ openSeen' = [openSeen EXCEPT ![q] = ~fleetFrozen]
      /\ UNCHANGED <<rows, fleetFrozen, now>>
  BY DEF LoadAndChange, Begin
<1>2. TypeOK'
  BY <1>1 DEF Inv, TypeOK, Request, Stages, Replies
<1>3. AtMostOneActive' /\ Origins'
  BY <1>1 DEF Inv, AtMostOneActive, Origins, Active
<1>4. CopiesFollowRows'
  <2>1. /\ reqs'[q].update = u /\ reqs'[q].copy = c /\ reqs'[q].stage = "persist"
        /\ \A p \in Requests \ {q} : reqs'[p] = reqs[p]
    BY <1>1 DEF Inv, TypeOK
  <2>2. c.version = rows[u].version /\ rows[u].version \in Nat
    BY DEF Derived, Inv, TypeOK, Row
  <2>3. Follows(reqs'[q], rows[u])
    BY <2>1, <2>2 DEF Follows, Live, Active
  <2> QED BY <1>1, <2>1, <2>3 DEF Inv, CopiesFollowRows, Holding
<1>5. InsertsKnown' /\ OpenSeen'
  BY <1>1 DEF Inv, InsertsKnown, OpenSeen, TypeOK
<1> QED BY <1>2, <1>3, <1>4, <1>5 DEF Inv

LEMMA IdleType == Idle \in Request /\ Idle.stage = "idle"
<1>1. NoRow \in Row
  BY DEF NoRow, Row
<1> QED BY <1>1 DEF Idle, Request, Stages, Replies

\* A request that ends without touching its row.
LEMMA RequestEndsInv ==
  ASSUME Inv, NEW q \in Requests, NEW r \in Request, r.stage = "idle",
         reqs' = [reqs EXCEPT ![q] = r],
         openSeen' = [openSeen EXCEPT ![q] = FALSE],
         UNCHANGED <<rows, fleetFrozen, now>>
  PROVE  Inv'
<1>1. TypeOK'
  BY DEF Inv, TypeOK
<1>2. AtMostOneActive' /\ Origins'
  BY DEF Inv, AtMostOneActive, Origins, Active
<1>3. reqs'[q].stage = "idle" /\ \A p \in Requests \ {q} : reqs'[p] = reqs[p]
  BY DEF Inv, TypeOK
<1>4. CopiesFollowRows'
  BY <1>3 DEF Inv, CopiesFollowRows, Holding, Active
<1>5. InsertsKnown'
  BY <1>3 DEF Inv, InsertsKnown
<1>6. OpenSeen'
  BY <1>3 DEF Inv, OpenSeen, TypeOK
<1> QED BY <1>1, <1>2, <1>4, <1>5, <1>6 DEF Inv

LEMMA FinishInv ==
  ASSUME Inv, NEW q \in Requests, Finish(q), UNCHANGED <<rows, fleetFrozen, now>>
  PROVE  Inv'
BY IdleType, RequestEndsInv DEF Finish

\* An insert adds a row no request holds a copy of.
LEMMA UploadInsertInv ==
  ASSUME Inv, NEW q \in Requests, UploadInsert(q)
  PROVE  Inv'
<1> DEFINE u == reqs[q].update
<1>1. CASE NoneActive /\ rows[u].state = "ABSENT"
  <2> DEFINE r == [NoRow EXCEPT !.state = "PENDING", !.enteredAt = now, !.version = 1]
  <2>1. u \in Updates
    BY DEF UploadInsert, Inv, InsertsKnown
  <2>2. r \in Row /\ r.state = "PENDING" /\ r.frozenFrom = NoRing
    <3>1. NoRow \in Row /\ NoRow.frozenFrom = NoRing
      BY DEF NoRow, Row
    <3>2. now \in Nat
      BY DEF Inv, TypeOK
    <3> QED BY <3>1, <3>2 DEF Row, States
  <2>3. /\ rows'[u] = r
        /\ \A v \in Updates \ {u} : rows'[v] = rows[v]
        /\ rows' \in [Updates -> Row]
    BY <1>1, <2>1, <2>2 DEF UploadInsert, Inv, TypeOK
  <2>4. /\ reqs'[q] = Idle
        /\ \A p \in Requests \ {q} : reqs'[p] = reqs[p]
        /\ openSeen' = [openSeen EXCEPT ![q] = FALSE]
        /\ UNCHANGED <<fleetFrozen, now>>
    BY DEF UploadInsert, Finish, Inv, TypeOK
  <2>5. TypeOK'
    BY <2>3, <2>4, IdleType DEF UploadInsert, Finish, Inv, TypeOK
  <2>6. AtMostOneActive'
    BY <1>1, <2>3 DEF AtMostOneActive, NoneActive, Active
  <2>7. Origins'
    BY <2>2, <2>3 DEF Inv, Origins, OriginOK
  <2>8. CopiesFollowRows'
    <3>1. ASSUME NEW p \in Requests, Holding(p)'
          PROVE  /\ p # q
                 /\ reqs'[p] = reqs[p]
                 /\ Holding(p)
      BY <2>4, <3>1 DEF Holding, Idle
    <3>2. ASSUME NEW p \in Requests, Holding(p)
          PROVE  reqs[p].update # u
      BY <1>1, <3>2 DEF Inv, CopiesFollowRows, Follows
    <3> QED BY <2>3, <3>1, <3>2 DEF Inv, CopiesFollowRows, Active
  <2>9. InsertsKnown' /\ OpenSeen'
    BY <2>4 DEF Inv, InsertsKnown, OpenSeen, TypeOK, Idle
  <2> QED BY <2>5, <2>6, <2>7, <2>8, <2>9 DEF Inv
<1>2. CASE ~(NoneActive /\ rows[u].state = "ABSENT")
  BY <1>2, FinishInv DEF UploadInsert
<1> QED BY <1>1, <1>2

LEMMA PromoteLoadInv ==
  ASSUME Inv, NEW q \in Requests, NEW u \in Updates, PromoteLoad(q, u)
  PROVE  Inv'
<1>1. /\ reqs[q].stage = "idle"
      /\ reqs' = [reqs EXCEPT ![q] = [stage |-> "decide", update |-> u, copy |-> rows[u],
                                      reply |-> "none"]]
      /\ openSeen' = [openSeen EXCEPT ![q] = ~fleetFrozen]
      /\ UNCHANGED <<rows, fleetFrozen, now>>
      /\ Active(u)
  BY DEF PromoteLoad, Begin, Loadable
<1>2. TypeOK'
  BY <1>1 DEF Inv, TypeOK, Request, Stages, Replies
<1>3. AtMostOneActive' /\ Origins'
  BY <1>1 DEF Inv, AtMostOneActive, Origins, Active
<1>4. /\ reqs'[q].update = u /\ reqs'[q].copy = rows[u] /\ reqs'[q].stage = "decide"
      /\ \A p \in Requests \ {q} : reqs'[p] = reqs[p]
  BY <1>1 DEF Inv, TypeOK
<1>5. rows[u].version \in Nat /\ rows[u].state \in States
  BY <1>1 DEF Inv, TypeOK, Row, Active
<1>6. CopiesFollowRows'
  BY <1>1, <1>4, <1>5 DEF Inv, CopiesFollowRows, Follows, Live, Holding, Active
<1>7. InsertsKnown' /\ OpenSeen'
  BY <1>1, <1>4 DEF Inv, InsertsKnown, OpenSeen, TypeOK
<1> QED BY <1>2, <1>3, <1>6, <1>7 DEF Inv

\* The decision replaces the copy of q by what promoteRing() makes of it.
LEMMA PromoteDecideInv ==
  ASSUME Inv, NEW q \in Requests, PromoteDecide(q)
  PROVE  Inv'
<1> DEFINE c == reqs[q].copy
           u == reqs[q].update
<1>1. PICK m \in Metrics, x \in BOOLEAN, severe \in BOOLEAN :
        LET outcome == PromoteOutcome(c, m, x, now)
            changed == Promote(c, m, x, now)
            gated   == \/ isRolloutFrozenFromDb
                       \/ severe /\ NextRingState[c.state] \in DRIFT_GATED_PROMOTIONS
            reply   == IF outcome \in Replies THEN outcome ELSE "none"
        IN IF ~gated /\ (outcome = "promoted" \/ changed.history # <<>>)
           THEN /\ reqs' = [reqs EXCEPT ![q].stage = "persist", ![q].copy = changed,
                                        ![q].reply = reply]
                /\ UNCHANGED openSeen
           ELSE /\ reqs' = [reqs EXCEPT ![q] = [Idle EXCEPT !.reply =
                               IF ~gated /\ outcome = "refused" THEN "refused" ELSE "none"]]
                /\ openSeen' = [openSeen EXCEPT ![q] = FALSE]
  BY DEF PromoteDecide
<1> DEFINE outcome == PromoteOutcome(c, m, x, now)
           changed == Promote(c, m, x, now)
           gated   == \/ isRolloutFrozenFromDb
                      \/ severe /\ NextRingState[c.state] \in DRIFT_GATED_PROMOTIONS
           reply   == IF outcome \in Replies THEN outcome ELSE "none"
<1>2. /\ reqs[q].stage = "decide"
      /\ UNCHANGED <<rows, fleetFrozen, now>>
  BY DEF PromoteDecide
<1>3. /\ u \in Updates /\ c \in Row /\ c.state \in States /\ now \in Nat
      /\ c.version =< rows[u].version
      /\ rows[u].state # "ABSENT"
      /\ c.version = rows[u].version => Active(u) /\ c = rows[u] /\ OriginOK(c)
  BY <1>2 DEF Inv, CopiesFollowRows, Follows, Live, Active, Holding, TypeOK, Request, Origins
<1>4. CASE ~gated /\ (outcome = "promoted" \/ changed.history # <<>>)
  <2>1. /\ reqs' = [reqs EXCEPT ![q].stage = "persist", ![q].copy = changed,
                                ![q].reply = reply]
        /\ UNCHANGED openSeen
    BY <1>1, <1>4
  <2>2. changed \in Row /\ changed.state \in States /\ changed.version = c.version
    BY <1>3, PromoteType
  <2>3. c.version = rows[u].version => Derived(rows[u], changed)
    BY <1>3, PromoteDerives
  <2>4. reply \in Replies
    BY DEF Replies
  <2> HIDE DEF changed, reply, outcome, gated
  <2>5. /\ reqs'[q].update = u /\ reqs'[q].copy = changed /\ reqs'[q].stage = "persist"
        /\ \A p \in Requests \ {q} : reqs'[p] = reqs[p]
    BY <2>1 DEF Inv, TypeOK, Request
  <2>6. TypeOK'
    BY <1>2, <2>1, <2>2, <2>4 DEF Inv, TypeOK, Request, Stages
  <2>7. AtMostOneActive' /\ Origins'
    BY <1>2 DEF Inv, AtMostOneActive, Origins, Active
  <2>8. CopiesFollowRows'
    <3>1. Follows(reqs'[q], rows[u])
      BY <1>3, <2>2, <2>3, <2>5 DEF Follows, Live, Active
    <3> QED BY <1>2, <1>3, <2>5, <3>1 DEF Inv, CopiesFollowRows, Holding
  <2>9. ~fleetFrozen
    BY <1>4 DEF gated, isRolloutFrozenFromDb
  <2>10. InsertsKnown' /\ OpenSeen'
    BY <1>2, <2>1, <2>5, <2>9 DEF Inv, InsertsKnown, OpenSeen, TypeOK
  <2> QED BY <2>6, <2>7, <2>8, <2>10 DEF Inv
<1>5. CASE ~(~gated /\ (outcome = "promoted" \/ changed.history # <<>>))
  <2> DEFINE said == IF ~gated /\ outcome = "refused" THEN "refused" ELSE "none"
             r    == [Idle EXCEPT !.reply = said]
  <2>1. reqs' = [reqs EXCEPT ![q] = r] /\ openSeen' = [openSeen EXCEPT ![q] = FALSE]
    BY <1>1, <1>5
  <2>2. said \in Replies
    BY DEF Replies
  <2> HIDE DEF said
  <2>3. r \in Request /\ r.stage = "idle"
    <3>1. Idle \in Request /\ Idle.stage = "idle"
      BY IdleType
    <3> QED BY <2>2, <3>1 DEF Request
  <2> QED BY <1>2, <2>1, <2>3, RequestEndsInv
<1> QED BY <1>4, <1>5

\* A commit: the version test makes the copy Derived from the row it replaces, and
\* leaves every other copy of that row behind.
LEMMA CommitFacts ==
  ASSUME Inv, NEW q \in Requests, PersistWins(q)
  PROVE  LET u == reqs[q].update
             c == reqs[q].copy
         IN /\ u \in Updates
            /\ c \in Row
            /\ c.state \in States
            /\ Active(u)
            /\ rows[u] \in Row
            /\ OriginOK(rows[u])
            /\ Derived(rows[u], c)
            /\ rows'[u] = [c EXCEPT !.version = @ + 1]
            /\ \A v \in Updates \ {u} : rows'[v] = rows[v]
            /\ rows' \in [Updates -> Row]
<1> DEFINE u == reqs[q].update
           c == reqs[q].copy
<1>1. Holding(q) /\ reqs[q].stage = "persist" /\ rows[u].version = c.version
  BY DEF PersistWins, Holding
<1>2. /\ u \in Updates /\ c \in Row /\ c.state \in States
      /\ Active(u) /\ Derived(rows[u], c)
  BY <1>1 DEF Inv, CopiesFollowRows, Follows, Live, Active, TypeOK, Request
<1>3. rows[u] \in Row /\ OriginOK(rows[u])
  BY <1>2 DEF Inv, TypeOK, Origins
<1>4. [c EXCEPT !.version = @ + 1] \in Row
  BY <1>2 DEF Row
<1>5. rows' = [rows EXCEPT ![u] = [c EXCEPT !.version = @ + 1]]
  BY DEF PersistWins
<1> QED BY <1>2, <1>3, <1>4, <1>5 DEF Inv, TypeOK

LEMMA PersistWinsInv ==
  ASSUME Inv, NEW q \in Requests, PersistWins(q)
  PROVE  Inv'
<1> DEFINE u == reqs[q].update
           c == reqs[q].copy
           w == [c EXCEPT !.version = @ + 1]
<1>1. /\ u \in Updates /\ c \in Row /\ c.state \in States /\ Active(u)
      /\ rows[u] \in Row /\ OriginOK(rows[u]) /\ Derived(rows[u], c)
      /\ rows'[u] = w
      /\ \A v \in Updates \ {u} : rows'[v] = rows[v]
      /\ rows' \in [Updates -> Row]
  BY CommitFacts
<1>2. /\ w.state = c.state /\ w.frozenFrom = c.frozenFrom
      /\ w.version = rows[u].version + 1
      /\ rows[u].version \in Nat
  BY <1>1 DEF Row, Derived
<1>3. /\ reqs'[q] = Idle
      /\ \A p \in Requests \ {q} : reqs'[p] = reqs[p]
      /\ reqs' \in [Requests -> Request]
      /\ openSeen' = [openSeen EXCEPT ![q] = FALSE]
      /\ UNCHANGED <<fleetFrozen, now>>
  BY IdleType DEF PersistWins, Finish, Inv, TypeOK
<1> HIDE DEF c, w
<1>4. TypeOK'
  BY <1>1, <1>3 DEF Inv, TypeOK
<1>5. AtMostOneActive'
  BY <1>1 DEF Inv, AtMostOneActive, Active
<1>6. Origins'
  <2>1. OriginOK(w)
    <3>1. CASE c = rows[u]
      BY <1>1, <1>2, <3>1 DEF OriginOK
    <3>2. CASE c # rows[u]
      <4>1. /\ c.state \in ALLOWED_TRANSITIONS[rows[u].state]
            /\ c.frozenFrom = IF c.state = "FROZEN" THEN rows[u].state ELSE NoRing
        BY <1>1, <3>2 DEF Derived
      <4>2. rows[u].state \in States
        BY <1>1 DEF Active, Row
      <4>3. c.state = "FROZEN" => rows[u].state \in Freezable
        BY <4>1, <4>2, Allowed
      <4> QED BY <1>2, <4>1, <4>3 DEF OriginOK
    <3> QED BY <3>1, <3>2
  <2> QED BY <1>1, <2>1 DEF Inv, Origins
<1>7. CopiesFollowRows'
  <2>1. SUFFICES ASSUME NEW p \in Requests, Holding(p)'
                 PROVE  /\ reqs'[p].update \in Updates
                        /\ Follows(reqs'[p], rows'[reqs'[p].update])
    BY DEF CopiesFollowRows
  <2>2. p # q /\ reqs'[p] = reqs[p] /\ Holding(p)
    BY <1>3, <2>1, IdleType DEF Holding
  <2>3. /\ reqs[p].update \in Updates
        /\ Follows(reqs[p], rows[reqs[p].update])
        /\ reqs[p].copy.version \in Nat
    BY <2>2 DEF Inv, CopiesFollowRows, TypeOK, Request, Row
  <2>4. CASE reqs[p].update = u
    <3>1. rows'[u].state # "ABSENT" /\ reqs[p].copy.version < rows'[u].version
      BY <1>1, <1>2, <2>3, <2>4 DEF States, Follows
    <3>2. Follows(reqs[p], rows'[u])
      BY <2>3, <3>1, <1>1 DEF Follows, Row
    <3> QED BY <2>2, <2>3, <2>4, <3>2
  <2>5. CASE reqs[p].update # u
    BY <1>1, <2>2, <2>3, <2>5
  <2> QED BY <2>4, <2>5
<1>8. InsertsKnown' /\ OpenSeen'
  BY <1>3, IdleType DEF Inv, InsertsKnown, OpenSeen, TypeOK
<1> QED BY <1>4, <1>5, <1>6, <1>7, <1>8 DEF Inv

LEMMA FleetFlagWriteInv ==
  ASSUME Inv, FleetFlagWrite
  PROVE  Inv'
<1>1. TypeOK'
  BY DEF FleetFlagWrite, Inv, TypeOK
<1>2. AtMostOneActive' /\ Origins' /\ CopiesFollowRows' /\ InsertsKnown'
  BY DEF FleetFlagWrite, Inv, AtMostOneActive, Origins, CopiesFollowRows, InsertsKnown,
         Holding, Active
<1>3. OpenSeen'
  BY DEF FleetFlagWrite, Inv, OpenSeen, TypeOK
<1> QED BY <1>1, <1>2, <1>3 DEF Inv

LEMMA TickInv ==
  ASSUME Inv, Tick
  PROVE  Inv'
<1>1. TypeOK'
  BY DEF Tick, Inv, TypeOK
<1>2. AtMostOneActive' /\ Origins' /\ CopiesFollowRows' /\ InsertsKnown' /\ OpenSeen'
  BY DEF Tick, Inv, AtMostOneActive, Origins, CopiesFollowRows, InsertsKnown, OpenSeen,
         Holding, Active
<1> QED BY <1>1, <1>2 DEF Inv

-----------------------------------------------------------------------------
(* The invariant *)

LEMMA InitInv == Init => Inv
<1> SUFFICES ASSUME Init PROVE Inv
  OBVIOUS
<1>1. NoRow \in Row /\ NoRow.state = "ABSENT" /\ NoRow.frozenFrom = NoRing
  BY DEF NoRow, Row
<1>2. TypeOK
  BY <1>1, IdleType DEF Init, TypeOK
<1>3. AtMostOneActive /\ Origins
  BY <1>1 DEF Init, AtMostOneActive, Active, Origins, OriginOK
<1>4. CopiesFollowRows /\ InsertsKnown /\ OpenSeen
  BY IdleType DEF Init, CopiesFollowRows, Holding, InsertsKnown, OpenSeen
<1> QED BY <1>2, <1>3, <1>4 DEF Inv

LEMMA NextInv == Inv /\ [Next]_vars => Inv'
<1> SUFFICES ASSUME Inv, [Next]_vars PROVE Inv'
  OBVIOUS
<1>1. ASSUME NEW q \in Requests, NEW u \in Updates, UploadCheck(q, u)
      PROVE  Inv'
  <2>1. /\ reqs[q].stage = "idle"
        /\ reqs' = [reqs EXCEPT ![q] = [stage |-> "insert", update |-> u, copy |-> NoRow,
                                        reply |-> "none"]]
        /\ openSeen' = [openSeen EXCEPT ![q] = ~fleetFrozen]
        /\ UNCHANGED <<rows, fleetFrozen, now>>
    BY <1>1 DEF UploadCheck, Begin
  <2>2. NoRow \in Row
    BY DEF NoRow, Row
  <2>3. TypeOK'
    BY <2>1, <2>2 DEF Inv, TypeOK, Request, Stages, Replies
  <2>4. /\ reqs'[q].stage = "insert" /\ reqs'[q].update = u
        /\ \A p \in Requests \ {q} : reqs'[p] = reqs[p]
    BY <2>1 DEF Inv, TypeOK
  <2>5. AtMostOneActive' /\ Origins' /\ CopiesFollowRows' /\ InsertsKnown'
    BY <2>1, <2>4 DEF Inv, AtMostOneActive, Origins, CopiesFollowRows, InsertsKnown,
                      Holding, Active
  <2>6. OpenSeen'
    BY <2>1, <2>4 DEF Inv, OpenSeen, TypeOK
  <2> QED BY <2>3, <2>5, <2>6 DEF Inv
<1>2. ASSUME NEW u \in Updates, Active(u)
      PROVE  rows[u] \in Row /\ rows[u].state \in States /\ OriginOK(rows[u]) /\ now \in Nat
  BY <1>2 DEF Inv, TypeOK, Origins, Active, Row
<1>3. ASSUME NEW q \in Requests, NEW u \in Updates, NEW to \in {"ROLLED_BACK", "FROZEN", "STAGING"},
             Active(u), Permitted(rows[u], to),
             LoadAndChange(q, u, Transition(rows[u], to, now))
      PROVE  Inv'
  BY <1>2, <1>3, TransitionType, TransitionDerives, LoadAndChangeInv
<1>4. ASSUME NEW q \in Requests, NEW u \in Updates, Rollback(q, u)
      PROVE  Inv'
  BY <1>3, <1>4 DEF Rollback, Loadable
<1>5. ASSUME NEW q \in Requests, NEW u \in Updates, Freeze(q, u)
      PROVE  Inv'
  BY <1>3, <1>5 DEF Freeze, Loadable
<1>6. ASSUME NEW q \in Requests, NEW u \in Updates, Stage(q, u)
      PROVE  Inv'
  BY <1>3, <1>6 DEF Stage, Loadable
<1>7. ASSUME NEW q \in Requests, NEW u \in Updates, Unfreeze(q, u)
      PROVE  Inv'
  BY <1>2, <1>7, LiftFreezeDerives, LoadAndChangeInv DEF Unfreeze, Loadable
<1>8. ASSUME NEW q \in Requests, NEW u \in Updates, PromoteLoad(q, u)
      PROVE  Inv'
  BY <1>8, PromoteLoadInv
<1>9. ASSUME NEW q \in Requests, UploadInsert(q) \/ PromoteDecide(q) \/ PersistWins(q)
      PROVE  Inv'
  BY <1>9, UploadInsertInv, PromoteDecideInv, PersistWinsInv
<1>10. ASSUME NEW q \in Requests, PersistLoses(q) \/ Abort(q)
       PROVE  Inv'
  BY <1>10, FinishInv DEF PersistLoses, Abort
<1>11. ASSUME FleetFlagWrite \/ Tick
       PROVE  Inv'
  BY <1>11, FleetFlagWriteInv, TickInv
<1>12. CASE UNCHANGED vars
  BY <1>12 DEF vars, Inv, TypeOK, AtMostOneActive, Origins, CopiesFollowRows, InsertsKnown,
               OpenSeen, Holding, Active
<1> QED BY <1>1, <1>4, <1>5, <1>6, <1>7, <1>8, <1>9, <1>10, <1>11, <1>12 DEF Next

\* The inductive invariant holds throughout.
THEOREM Invariance == Spec => []Inv
BY InitInv, NextInv, PTL DEF Spec

\* Every reachable state is well typed.
THEOREM TypeCorrect == Spec => []TypeOK
BY Invariance, PTL DEF Inv

\* However many uploads race, at most one rollout is in flight.
THEOREM OneRolloutInFlight == Spec => []AtMostOneActive
BY Invariance, PTL DEF Inv

-----------------------------------------------------------------------------
(* What one step does to the table *)

Created(u) == /\ rows[u].state = "ABSENT"
              /\ NoneActive
              /\ rows'[u].state = "PENDING"
              /\ rows'[u].frozenFrom = NoRing
              /\ rows'[u].history = <<>>

Committed(u) == /\ Active(u)
                /\ rows[u] \in Row
                /\ OriginOK(rows[u])
                /\ \E c \in Row : /\ c.state \in States
                                  /\ Derived(rows[u], c)
                                  /\ rows'[u] = [c EXCEPT !.version = @ + 1]

\* Every step leaves the table alone, or creates one row, or commits one legal step of one.
LEMMA TableStep ==
  ASSUME Inv, [Next]_vars
  PROVE  \/ rows' = rows
         \/ \E u \in Updates : /\ Created(u) \/ Committed(u)
                               /\ \A v \in Updates \ {u} : rows'[v] = rows[v]
                               /\ rows' \in [Updates -> Row]
<1>1. ASSUME NEW q \in Requests, UploadInsert(q), rows' # rows
      PROVE  LET u == reqs[q].update
             IN u \in Updates /\ Created(u) /\ (\A v \in Updates \ {u} : rows'[v] = rows[v])
  <2> DEFINE u == reqs[q].update
  <2>1. u \in Updates
    BY <1>1 DEF UploadInsert, Inv, InsertsKnown
  <2>2. /\ NoneActive /\ rows[u].state = "ABSENT"
        /\ rows' = [rows EXCEPT ![u] = [NoRow EXCEPT !.state = "PENDING", !.enteredAt = now,
                                                     !.version = 1]]
    BY <1>1 DEF UploadInsert
  <2> QED BY <2>1, <2>2 DEF Created, NoRow, Inv, TypeOK
<1>2. ASSUME NEW q \in Requests, PersistWins(q)
      PROVE  LET u == reqs[q].update
             IN u \in Updates /\ Committed(u) /\ (\A v \in Updates \ {u} : rows'[v] = rows[v])
  BY <1>2, CommitFacts DEF Committed
<1>3. rows' \in [Updates -> Row]
  BY NextInv DEF Inv, TypeOK
<1>4. \/ rows' = rows
      \/ \E q \in Requests : UploadInsert(q) \/ PersistWins(q)
  BY DEF Next, vars, UploadCheck, Rollback, Freeze, Unfreeze, Stage, LoadAndChange, PromoteLoad,
         PromoteDecide, PersistLoses, Abort, FleetFlagWrite, Tick
<1> QED BY <1>1, <1>2, <1>3, <1>4

\* No commit erases a newer one: the history of a row only grows, one entry at a time,
\* in step with its state.
THEOREM HistorySafe == Spec => HistoryNeverRewritten
<1>1. ASSUME Inv, [Next]_vars, NEW u \in Updates, rows[u].state # "ABSENT"
      PROVE  \/ rows'[u].history = rows[u].history /\ rows'[u].state = rows[u].state
             \/ rows'[u].history = Append(rows[u].history, rows'[u].state)
  <2>1. CASE rows'[u] = rows[u]
    BY <2>1
  <2>2. CASE Committed(u)
    BY <2>2 DEF Committed, Derived, Row
  <2> QED BY <1>1, <2>1, <2>2, TableStep DEF Created
<1>2. Inv /\ [Next]_vars =>
        [\A u \in Updates :
           rows[u].state # "ABSENT" =>
             \/ /\ rows[u]'.history = rows[u].history
                /\ rows[u]'.state = rows[u].state
             \/ rows[u]'.history = Append(rows[u].history, rows[u]'.state)]_vars
  BY <1>1
<1> QED BY Invariance, <1>2, PTL DEF Spec, HistoryNeverRewritten

\* No ring is left before its observation window has passed, for any windows.
THEOREM WindowsKept == Spec => WindowBetweenRings
<1>1. ASSUME Inv, [Next]_vars, NEW u \in Updates, rows[u].state \in States,
             rows'[u].state = NextRingState[rows[u].state]
      PROVE  rows'[u].enteredAt - rows[u].enteredAt >= RequiredWindow(rows[u].state)
  <2>1. NextRingState[rows[u].state] # rows[u].state
    BY <1>1 DEF NextRingState, States, NoRing
  <2>2. CASE Committed(u)
    <3>1. PICK c \in Row : Derived(rows[u], c) /\ rows'[u] = [c EXCEPT !.version = @ + 1]
      BY <2>2 DEF Committed
    <3>2. c.state = rows'[u].state /\ c.enteredAt = rows'[u].enteredAt
      BY <3>1 DEF Row
    <3>3. c # rows[u]
      BY <1>1, <2>1, <3>2
    <3> QED BY <1>1, <3>1, <3>2, <3>3 DEF Derived
  <2>3. ~Created(u)
    BY <1>1 DEF Created, States
  <2> QED BY <1>1, <2>1, <2>2, <2>3, TableStep
<1>2. Inv /\ [Next]_vars =>
        [\A u \in Updates :
           /\ rows[u].state \in States
           /\ rows[u]'.state = NextRingState[rows[u].state]
           => rows[u]'.enteredAt - rows[u].enteredAt >= RequiredWindow(rows[u].state)]_vars
  BY <1>1
<1> QED BY Invariance, <1>2, PTL DEF Spec, WindowBetweenRings

\* A promotion that begins after a fleet freeze was written does not commit.
THEOREM FreezeRespected == Spec => FreezeBlocksPromotion
<1>1. Inv /\ [Next]_vars =>
        [\A q \in Requests :
           /\ reqs[q].stage = "persist"
           /\ reqs[q].reply = "promoted"
           /\ rows' # rows
           /\ reqs[q]' # reqs[q]
           => openSeen[q]]_vars
  BY DEF Inv, OpenSeen
<1> QED BY Invariance, <1>1, PTL DEF Spec, FreezeBlocksPromotion

-----------------------------------------------------------------------------
(* No ring is skipped *)

LEMMA RingsStep ==
  ASSUME Inv, [Next]_vars, RingsVisited, NoRingSkipped
  PROVE  RingsVisited' /\ NoRingSkipped'
<1> DEFINE Rings == {"RING_0", "RING_1", "RING_2", "RING_3"}
           VisitedOK(r) == /\ r.state \in Rings => Visited(r, r.state)
                           /\ r.state = "FROZEN" => Visited(r, r.frozenFrom)
           OrderOK(h) == \A i \in DOMAIN h : h[i] \in DOMAIN RingBefore =>
                           \E j \in 1..i - 1 : h[j] = RingBefore[h[i]]
<1> SUFFICES ASSUME NEW u \in Updates
             PROVE  VisitedOK(rows'[u]) /\ OrderOK(rows'[u].history)
  BY DEF RingsVisited, NoRingSkipped, Visited
<1>1. VisitedOK(rows[u]) /\ OrderOK(rows[u].history)
  BY DEF RingsVisited, NoRingSkipped
<1>2. CASE rows'[u] = rows[u]
  BY <1>1, <1>2
<1>3. CASE Created(u)
  BY <1>3 DEF Created, Visited
<1>4. CASE Committed(u)
  <2> DEFINE h == rows[u].history
  <2>1. PICK c \in Row : /\ c.state \in States
                         /\ Derived(rows[u], c)
                         /\ rows'[u] = [c EXCEPT !.version = @ + 1]
    BY <1>4 DEF Committed
  <2>2. /\ rows'[u].state = c.state /\ rows'[u].frozenFrom = c.frozenFrom
        /\ rows'[u].history = c.history
    BY <2>1 DEF Row
  <2>3. CASE c = rows[u]
    BY <1>1, <2>2, <2>3 DEF Visited
  <2>4. CASE c # rows[u]
    <3> DEFINE to == c.state
    <3>1. /\ to \in ALLOWED_TRANSITIONS[rows[u].state]
          /\ c.history = Append(h, to)
          /\ c.frozenFrom = IF to = "FROZEN" THEN rows[u].state ELSE NoRing
          /\ rows[u].state = "FROZEN" => to = rows[u].frozenFrom
          /\ to \in DOMAIN RingBefore => rows[u].state \in {"FROZEN", RingBefore[to]}
      BY <2>1, <2>4 DEF Derived
    <3>2. h \in Seq(States) /\ rows[u].state \in States
      BY <1>4 DEF Committed, Row, Active
    <3>3. /\ Len(c.history) = Len(h) + 1
          /\ \A i \in 1..Len(h) : c.history[i] = h[i]
          /\ c.history[Len(h) + 1] = to
          /\ DOMAIN h = 1..Len(h) /\ DOMAIN c.history = 1..Len(h) + 1
          /\ Len(h) \in Nat
      BY <2>1, <3>1, <3>2
    <3>4. ASSUME NEW s, Visited(rows[u], s)
          PROVE  Visited(c, s)
      BY <3>3, <3>4 DEF Visited
    <3>5. VisitedOK(c)
      <4>1. Visited(c, to)
        BY <3>3 DEF Visited
      <4>2. to = "FROZEN" => rows[u].state \in Freezable
        BY <3>1, <3>2, Allowed
      <4>3. to = "FROZEN" => Visited(c, c.frozenFrom)
        BY <1>1, <3>1, <3>4, <4>2 DEF Freezable
      <4> QED BY <4>1, <4>3
    <3>6. OrderOK(c.history)
      <4>1. ASSUME to \in DOMAIN RingBefore
            PROVE  \E j \in 1..Len(h) : h[j] = RingBefore[to]
        <5>1. CASE rows[u].state = "FROZEN"
          <6>1. PICK k \in 1..Len(h) : h[k] = to
            BY <1>1, <3>1, <3>3, <5>1 DEF Visited
          <6>2. \E j \in 1..k - 1 : h[j] = RingBefore[to]
            BY <1>1, <3>3, <4>1, <6>1
          <6> QED BY <3>3, <6>1, <6>2
        <5>2. CASE rows[u].state = RingBefore[to]
          <6>1. RingBefore[to] \in Rings
            BY <4>1 DEF RingBefore
          <6>2. Visited(rows[u], rows[u].state)
            BY <1>1, <5>2, <6>1
          <6> QED BY <3>3, <5>2, <6>2 DEF Visited
        <5> QED BY <3>1, <4>1, <5>1, <5>2
      <4>2. ASSUME NEW i \in DOMAIN c.history, c.history[i] \in DOMAIN RingBefore
            PROVE  \E j \in 1..i - 1 : c.history[j] = RingBefore[c.history[i]]
        <5>1. CASE i = Len(h) + 1
          BY <3>3, <4>1, <4>2, <5>1
        <5>2. CASE i \in 1..Len(h)
          <6>1. PICK j \in 1..i - 1 : h[j] = RingBefore[h[i]]
            BY <1>1, <3>3, <4>2, <5>2
          <6> QED BY <3>3, <5>2, <6>1
        <5> QED BY <3>3, <5>1, <5>2
      <4> QED BY <4>2
    <3> QED BY <2>2, <3>5, <3>6 DEF Visited
  <2> QED BY <2>3, <2>4
<1> QED BY <1>2, <1>3, <1>4, TableStep

\* An update reaches a ring, or completes, only after every earlier ring.
THEOREM NoRingIsSkipped == Spec => []NoRingSkipped
<1>1. Init => RingsVisited /\ NoRingSkipped
  BY DEF Init, NoRow, RingsVisited, NoRingSkipped
<1>2. Inv /\ Inv' /\ [Next]_vars /\ RingsVisited /\ NoRingSkipped
        => RingsVisited' /\ NoRingSkipped'
  BY RingsStep
<1> QED BY Invariance, <1>1, <1>2, PTL DEF Spec

-----------------------------------------------------------------------------
(* Without the external caller nothing leaves PENDING *)

\* Every rollout there is sits in PENDING, and no request is about to change one.
StuckInPending ==
  /\ \A u \in Updates : rows[u].state \in {"ABSENT", "PENDING"} /\ rows[u].history = <<>>
  /\ \A q \in Requests :
       /\ reqs[q].stage # "persist"
       /\ reqs[q].stage = "decide" =>
            reqs[q].copy.state = "PENDING" /\ reqs[q].copy.history = <<>>

\* The handlers of src/ alone never move a rollout out of PENDING: POST /ota/promote
\* refuses that state and no handler calls transition('STAGING'); as a PENDING rollout
\* is active, the first upload also blocks every later one.
THEOREM RoutesNeverLeavePending ==
  ASSUME ~StagingCaller
  PROVE  Spec => []StuckInPending
<1>1. Init => StuckInPending
  BY DEF Init, NoRow, Idle, StuckInPending
<1>2. ASSUME Inv, [Next]_vars, StuckInPending
      PROVE  StuckInPending'
  <2>1. ASSUME NEW u \in Updates, Active(u)
        PROVE  rows[u].state = "PENDING" /\ rows[u].history = <<>>
    BY <1>2, <2>1 DEF StuckInPending, Active
  <2>2. ASSUME NEW q \in Requests, NEW u \in Updates,
               Rollback(q, u) \/ Freeze(q, u) \/ Unfreeze(q, u) \/ Stage(q, u)
        PROVE  FALSE
    BY <2>1, <2>2 DEF Rollback, Freeze, Unfreeze, Stage, Loadable, Permitted,
                      ALLOWED_TRANSITIONS, States
  <2>3. ASSUME NEW q \in Requests, NEW u \in Updates, UploadCheck(q, u) \/ PromoteLoad(q, u)
        PROVE  StuckInPending'
    BY <1>2, <2>1, <2>3 DEF UploadCheck, PromoteLoad, Begin, Loadable, StuckInPending, Inv, TypeOK
  <2>4. ASSUME NEW q \in Requests, UploadInsert(q)
        PROVE  StuckInPending'
    BY <1>2, <2>4 DEF UploadInsert, Finish, Idle, NoRow, StuckInPending, Inv, TypeOK
  <2>5. ASSUME NEW q \in Requests, PromoteDecide(q)
        PROVE  StuckInPending'
    <3>1. reqs[q].copy.state = "PENDING" /\ reqs[q].copy.history = <<>>
      BY <1>2, <2>5 DEF PromoteDecide, StuckInPending
    <3>2. ASSUME NEW m \in Metrics, NEW x \in BOOLEAN
          PROVE  /\ PromoteOutcome(reqs[q].copy, m, x, now) = "refused"
                 /\ Promote(reqs[q].copy, m, x, now) = reqs[q].copy
      <4>1. PromoteOutcome(reqs[q].copy, m, x, now) = "refused"
        BY <3>1 DEF PromoteOutcome, NotPromotable
      <4> QED BY <4>1 DEF Promote
    <3>3. /\ reqs'[q].stage = "idle"
          /\ \A p \in Requests \ {q} : reqs'[p] = reqs[p]
          /\ rows' = rows
      BY <1>2, <2>5, <3>1, <3>2 DEF PromoteDecide, Idle, Inv, TypeOK
    <3> QED BY <1>2, <3>3 DEF StuckInPending
  <2>6. ASSUME NEW q \in Requests, PersistWins(q) \/ PersistLoses(q) \/ Abort(q)
        PROVE  StuckInPending'
    BY <1>2, <2>6 DEF PersistWins, PersistLoses, Abort, Finish, Idle, StuckInPending, Inv, TypeOK
  <2>7. CASE FleetFlagWrite \/ Tick \/ UNCHANGED vars
    BY <1>2, <2>7 DEF FleetFlagWrite, Tick, vars, StuckInPending
  <2> QED BY <1>2, <2>2, <2>3, <2>4, <2>5, <2>6, <2>7 DEF Next
<1> QED BY Invariance, <1>1, <1>2, PTL DEF Spec

-----------------------------------------------------------------------------
(* The table implements RolloutLifecycle *)

LEMMA SameTables ==
  /\ Lifecycle!NoRing = NoRing
  /\ Lifecycle!States = States
  /\ Lifecycle!Terminal = Terminal
  /\ Lifecycle!ALLOWED_TRANSITIONS = ALLOWED_TRANSITIONS
BY DEF Lifecycle!NoRing, NoRing, Lifecycle!States, States, Lifecycle!Terminal, Terminal,
       Lifecycle!ALLOWED_TRANSITIONS, ALLOWED_TRANSITIONS

\* Every behaviour of the store is one of the abstract lifecycle.
THEOREM Refinement == Spec => ImplementsLifecycle
<1> DEFINE phase    == [u \in Updates |-> rows[u].state]
           frozenIn == [u \in Updates |-> rows[u].frozenFrom]
<1>1. Init => Lifecycle!Init
  BY SameTables DEF Init, Lifecycle!Init, NoRow
<1>2. Inv /\ [Next]_vars => [Lifecycle!Next]_(Lifecycle!lifecycleVars)
  <2> SUFFICES ASSUME Inv, [Next]_vars
               PROVE  [Lifecycle!Next]_(Lifecycle!lifecycleVars)
    OBVIOUS
  <2>1. CASE rows' = rows
    BY <2>1 DEF Lifecycle!lifecycleVars
  <2>2. ASSUME NEW u \in Updates, Created(u), \A v \in Updates \ {u} : rows'[v] = rows[v],
               rows' \in [Updates -> Row]
        PROVE  Lifecycle!Register(u)
    <3>1. phase[u] = "ABSENT" /\ \A v \in Updates : ~Lifecycle!IsLive(v)
      BY <2>2, SameTables DEF Created, NoneActive, Active, Lifecycle!IsLive
    <3>2. phase' = [phase EXCEPT ![u] = "PENDING"]
      BY <2>2 DEF Created
    <3>3. frozenIn' = frozenIn
      <4>1. rows[u].frozenFrom = NoRing
        BY <2>2 DEF Created, Inv, Origins, OriginOK
      <4> QED BY <2>2, <4>1 DEF Created
    <3> QED BY <3>1, <3>2, <3>3 DEF Lifecycle!Register
  <2>3. ASSUME NEW u \in Updates, NEW to \in States, rows'[u].state = to, Committed(u),
               \A v \in Updates \ {u} : rows'[v] = rows[v], rows' \in [Updates -> Row]
        PROVE  \/ UNCHANGED Lifecycle!lifecycleVars
               \/ Lifecycle!Step(u, to)
    <3>1. PICK c \in Row : /\ c.state \in States
                           /\ Derived(rows[u], c)
                           /\ rows'[u] = [c EXCEPT !.version = @ + 1]
      BY <2>3 DEF Committed
    <3>2. c.state = rows'[u].state /\ c.frozenFrom = rows'[u].frozenFrom
      BY <3>1 DEF Row
    <3>3. CASE c = rows[u]
      <4>1. phase' = phase /\ frozenIn' = frozenIn
        BY <2>3, <3>2, <3>3
      <4> QED BY <4>1 DEF Lifecycle!lifecycleVars
    <3>4. CASE c # rows[u]
      <4>1. /\ to \in ALLOWED_TRANSITIONS[rows[u].state]
            /\ rows[u].state = "FROZEN" => to = rows[u].frozenFrom
            /\ rows'[u].frozenFrom = IF to = "FROZEN" THEN rows[u].state ELSE NoRing
        BY <2>3, <3>1, <3>2, <3>4 DEF Derived
      <4>2. Lifecycle!IsLive(u)
        BY <2>3, SameTables DEF Committed, Active, Lifecycle!IsLive
      <4>3. phase' = [phase EXCEPT ![u] = to]
        BY <2>3
      <4>4. frozenIn' = [frozenIn EXCEPT ![u] = IF to = "FROZEN" THEN rows[u].state ELSE NoRing]
        BY <2>3, <4>1
      <4>5. phase[u] = rows[u].state /\ frozenIn[u] = rows[u].frozenFrom
        OBVIOUS
      <4> QED BY <4>1, <4>2, <4>3, <4>4, <4>5, SameTables DEF Lifecycle!Step
    <3> QED BY <3>3, <3>4
  <2>4. ASSUME NEW u \in Updates, Committed(u)
        PROVE  rows'[u].state \in States
    <3>1. PICK c \in Row : c.state \in States /\ rows'[u] = [c EXCEPT !.version = @ + 1]
      BY <2>4 DEF Committed
    <3> QED BY <3>1 DEF Row
  <2>5. CASE rows' # rows
    <3>1. PICK u \in Updates : /\ Created(u) \/ Committed(u)
                               /\ \A v \in Updates \ {u} : rows'[v] = rows[v]
                               /\ rows' \in [Updates -> Row]
      BY <2>5, TableStep
    <3>2. CASE Created(u)
      <4>1. Lifecycle!Register(u)
        BY <2>2, <3>1, <3>2
      <4> QED BY <4>1 DEF Lifecycle!Next
    <3>3. CASE Committed(u)
      <4>1. PICK to \in States : rows'[u].state = to
        BY <2>4, <3>3
      <4>2. \/ UNCHANGED Lifecycle!lifecycleVars
            \/ Lifecycle!Step(u, to)
        BY <2>3, <3>1, <3>3, <4>1
      <4> QED BY <4>1, <4>2, SameTables DEF Lifecycle!Next
    <3> QED BY <3>1, <3>2, <3>3
  <2> QED BY <2>1, <2>5
<1> QED BY Invariance, <1>1, <1>2, PTL DEF Spec, ImplementsLifecycle, Lifecycle!Spec
=============================================================================
