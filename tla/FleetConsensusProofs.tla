----------------------- MODULE FleetConsensusProofs -----------------------
(***************************************************************************)
(* Theorems about FleetConsensus, for any instances, screens and bounds.   *)
(*                                                                         *)
(* The inductive invariant ties every epoch in sight to the counter of the *)
(* database: tickets are distinct values it has reached, whatever a screen *)
(* echoes is no later than it, and a ticket nobody was given is echoed     *)
(* nowhere.                                                                *)
(***************************************************************************)
EXTENDS FleetConsensus, TLAPS

-----------------------------------------------------------------------------
(* The inductive invariant *)

\* The database has answered the increment of i, or is about to.
Issued(i) == proc[i].status \in {"counting", "up"}

TicketsIssued ==
  \A i \in Instances :
    /\ Issued(i) => proc[i].ticket \in 1 .. db.epoch
    /\ proc[i].status = "up" => proc[i].epoch = proc[i].ticket

TicketsUnique ==
  \A i, j \in Instances :
    Issued(i) /\ Issued(j) /\ proc[i].ticket = proc[j].ticket => i = j

\* 1 is the epoch an instance serves while the database has none.
Known(epoch) == epoch =< db.epoch \/ epoch = 1

EpochsKnown ==
  \A i \in Instances :
    /\ Known(proc[i].epoch)
    /\ Alive(i) /\ proc[i].knew => proc[i].epoch =< db.epoch

EchoesKnown ==
  \A s \in Screens :
    /\ Known(screen[s])
    /\ Known(db.rows[s])
    /\ \A i \in Instances : Known(heartbeats[i][s])

\* Nothing the fleet remembers of screen s is the given epoch.
NotEchoed(s, epoch) ==
  /\ screen[s] # epoch
  /\ db.rows[s] # epoch
  /\ \A i \in Instances : heartbeats[i][s] # epoch

UnheardNotEchoed ==
  \A i \in Instances :
    Issued(i) /\ proc[i].knew /\ ~proc[i].heard =>
      \A s \in Screens : NotEchoed(s, proc[i].ticket)

EpochInv == /\ TypeOK
            /\ TicketsIssued
            /\ TicketsUnique
            /\ EpochsKnown
            /\ EchoesKnown
            /\ UnheardNotEchoed
            /\ HealthyMeansAnswered

\* No '0' is in flight while a strong freeze is undisturbed, and once its write is done
\* the flag is set.
FreezeInv == /\ TypeOK
             /\ StrongFreezeDurable
             /\ held \/ undisturbed # {} => inFlight["0"] = 0
             /\ \A i \in undisturbed : strong[i] = "confirming" => db.frozen = "1"

-----------------------------------------------------------------------------
(* getStatus() *)

\* getStatus() sends only flag values.
LEMMA FlagSentType ==
  ASSUME NEW i, NEW status
  PROVE  /\ FlagSent(i, status) \in SUBSET {"0", "1"}
         /\ status # "HEALTHY" => "0" \notin FlagSent(i, status)
BY DEF FlagSent

\* HEALTHY takes a record on the current epoch: a fleet without one is lost, or stale.
LEMMA HealthyNeedsEcho ==
  ASSUME NEW i \in Instances, "HEALTHY" \in Statuses(i)
  PROVE  \E s \in Screens : heartbeats[i][s] = proc[i].epoch
<1>1. PICK stale \in SUBSET Recorded(i), split \in BOOLEAN, behind \in BOOLEAN :
        "HEALTHY" = Status(i, stale, split, behind)
  BY DEF Statuses
<1>2. CASE Recorded(i) \ stale = {}
  <2>1. Recorded(i) # {}
    BY <1>1 DEF Status
  <2>2. Recorded(i) \cap stale # {}
    BY <1>2, <2>1
  <2>. QED BY <1>1, <1>2, <2>1, <2>2 DEF Status
<1>3. CASE Recorded(i) \ stale # {}
  <2>1. {s \in Recorded(i) \ stale : heartbeats[i][s] = proc[i].epoch} # {}
    BY <1>1, <1>3 DEF Status
  <2>. QED BY <2>1 DEF Recorded
<1>. QED BY <1>2, <1>3

-----------------------------------------------------------------------------
(* Type correctness *)

\* Every variable keeps its type: in particular a process that runs has a positive epoch,
\* whatever the database held when it started.
LEMMA TypeInit == Init => TypeOK
<1>. SUFFICES ASSUME Init PROVE TypeOK
  OBVIOUS
<1>1. db \in Database
  BY DEF Init, Database, NoRecords
<1>2. proc \in [Instances -> Process] /\ \A i \in Instances : ~Alive(i)
  BY DEF Init, Process, ProcStatus, Down, Alive
<1>3. heartbeats \in [Instances -> [Screens -> Nat]]
  BY DEF Init, NoRecords
<1>. QED BY <1>1, <1>2, <1>3 DEF Init, TypeOK, NoRecords

\* Replacing one process by a well-typed one keeps the processes well typed.
LEMMA SetProcess ==
  ASSUME TypeOK, NEW i \in Instances, NEW p \in Process, proc' = [proc EXCEPT ![i] = p],
         p.status # "down" => p.epoch >= 1
  PROVE  /\ proc' \in [Instances -> Process]
         /\ \A j \in Instances : Alive(j)' => proc'[j].epoch >= 1
<1>1. proc \in [Instances -> Process] /\ \A j \in Instances : Alive(j) => proc[j].epoch >= 1
  BY DEF TypeOK
<1>2. proc' \in [Instances -> Process]
  BY <1>1
<1>3. \A j \in Instances : Alive(j)' => proc'[j].epoch >= 1
  BY <1>1 DEF Alive
<1>. QED BY <1>2, <1>3

LEMMA GetStatusType ==
  ASSUME TypeOK, NEW i \in Instances, NEW status, GetStatus(i, status)
  PROVE  /\ proc' \in [Instances -> Process]
         /\ \A j \in Instances : Alive(j)' => proc'[j].epoch >= 1
         /\ inFlight' \in [{"0", "1"} -> Nat]
         /\ undisturbed' \in SUBSET Instances
         /\ held' \in BOOLEAN
<1>1. FrozenAfter(i, status) \in BOOLEAN
  BY DEF FrozenAfter, TypeOK, Process
<1>. DEFINE p == [proc[i] EXCEPT !.frozen = FrozenAfter(i, status),
                              !.healthy = @ \/ status = "HEALTHY"]
<1>2. p \in Process /\ p.status = proc[i].status /\ p.epoch = proc[i].epoch
  BY <1>1 DEF TypeOK, Process
<1>3. proc' = [proc EXCEPT ![i] = p]
  BY DEF GetStatus, TypeOK
<1>6. p.status # "down" => p.epoch >= 1
  BY <1>2 DEF TypeOK, Alive
<1>7. proc' \in [Instances -> Process] /\ \A j \in Instances : Alive(j)' => proc'[j].epoch >= 1
  BY <1>2, <1>3, <1>6, SetProcess
<1>4. inFlight' \in [{"0", "1"} -> Nat]
  BY DEF GetStatus, Send, TypeOK
<1>5. undisturbed' \in SUBSET Instances /\ held' \in BOOLEAN
  BY DEF GetStatus, Disturb, TypeOK
<1>. QED BY <1>4, <1>5, <1>7

LEMMA TypeStep == TypeOK /\ TicketsIssued /\ [Next]_vars => TypeOK'
<1>. SUFFICES ASSUME TypeOK, TicketsIssued, [Next]_vars PROVE TypeOK'
  OBVIOUS
<1>0. CASE UNCHANGED vars
  BY <1>0 DEF vars, TypeOK, Alive
<1>1. ASSUME NEW i \in Instances, Start(i) PROVE TypeOK'
  <2>1. proc' \in [Instances -> Process]
    BY <1>1 DEF Start, TypeOK, Database, Process, ProcStatus, Down
  <2>2. \A j \in Instances : Alive(j)' => proc'[j].epoch >= 1
    BY <1>1 DEF Start, TypeOK, Database, Process, Down, Alive
  <2>3. heartbeats' \in [Instances -> [Screens -> Nat]]
    BY <1>1 DEF Start, TypeOK, Database, NoRecords
  <2>. QED BY <1>1, <2>1, <2>2, <2>3 DEF Start, TypeOK
<1>2. ASSUME NEW i \in Instances, IncrementSent(i) PROVE TypeOK'
  <2>. DEFINE p == [proc[i] EXCEPT !.status = "counting", !.ticket = db.epoch + 1]
  <2>1. db.epoch + 1 \in Nat /\ db' \in Database
    BY <1>2 DEF IncrementSent, TypeOK, Database
  <2>2. p \in Process /\ p.epoch = proc[i].epoch
    BY <2>1 DEF TypeOK, Process, ProcStatus
  <2>3. proc' = [proc EXCEPT ![i] = p]
    BY <1>2 DEF IncrementSent, TypeOK
  <2>4. proc[i].epoch >= 1
    BY <1>2 DEF IncrementSent, TypeOK, Alive
  <2>5. proc' \in [Instances -> Process] /\ \A j \in Instances : Alive(j)' => proc'[j].epoch >= 1
    BY <2>2, <2>3, <2>4, SetProcess
  <2>. QED BY <1>2, <2>1, <2>5 DEF IncrementSent, TypeOK
<1>3. ASSUME NEW i \in Instances, IncrementDone(i) PROVE TypeOK'
  <2>1. proc[i].ticket >= 1
    BY <1>3 DEF IncrementDone, TicketsIssued, Issued, TypeOK, Database
  <2>. DEFINE p == [proc[i] EXCEPT !.status = "up", !.epoch = proc[i].ticket, !.healthy = FALSE]
  <2>2. p \in Process /\ p.epoch = proc[i].ticket
    BY DEF TypeOK, Process, ProcStatus
  <2>3. proc' = [proc EXCEPT ![i] = p]
    BY <1>3 DEF IncrementDone, TypeOK
  <2>4. proc' \in [Instances -> Process] /\ \A j \in Instances : Alive(j)' => proc'[j].epoch >= 1
    BY <2>1, <2>2, <2>3, SetProcess
  <2>. QED BY <1>3, <2>4 DEF IncrementDone, TypeOK
<1>4. ASSUME NEW i \in Instances, Crash(i) PROVE TypeOK'
  BY <1>4 DEF Crash, TypeOK, Process, ProcStatus, Down, NoRecords, Alive
<1>5. ASSUME NEW s \in Screens, NEW i \in Instances, Poll(s, i) PROVE TypeOK'
  <2>1. db' \in Database /\ heartbeats' \in [Instances -> [Screens -> Nat]]
    BY <1>5 DEF Poll, TypeOK, Database
  <2>2. screen' \in [Screens -> Nat]
    BY <1>5 DEF Poll, TypeOK, Process
  <2>. DEFINE p(j) == [proc[j] EXCEPT !.heard = @ \/ proc[j].ticket = proc[i].epoch]
  <2>3. \A j \in Instances : p(j) \in Process /\ p(j).status = proc[j].status
                                              /\ p(j).epoch = proc[j].epoch
    BY DEF TypeOK, Process
  <2>5. proc' = proc \/ proc' = [j \in Instances |-> p(j)]
    BY <1>5 DEF Poll
  <2>. HIDE DEF p
  <2>4. proc' \in [Instances -> Process] /\ \A j \in Instances : Alive(j)' => proc'[j].epoch >= 1
    BY <2>3, <2>5 DEF TypeOK, Alive
  <2>. QED BY <1>5, <2>1, <2>2, <2>4 DEF Poll, TypeOK
<1>6. ASSUME NEW i \in Instances, PromoteBegin(i) PROVE TypeOK'
  <2>1. PICK status : GetStatus(i, status)
    BY <1>6 DEF PromoteBegin
  <2>2. promotion' \in [Instances -> {"none", "reading"}]
    BY <1>6 DEF PromoteBegin, TypeOK
  <2>. QED BY <1>6, <2>1, <2>2, GetStatusType DEF PromoteBegin, TypeOK
<1>7. ASSUME NEW i \in Instances, PromotePasses(i) PROVE TypeOK'
  BY <1>7 DEF PromotePasses, TypeOK, Alive
<1>8. ASSUME NEW i \in Instances, PromoteBlocked(i) PROVE TypeOK'
  <2>1. CASE UNCHANGED <<proc, inFlight, undisturbed, held>>
    BY <1>8, <2>1 DEF PromoteBlocked, TypeOK, Alive
  <2>2. ASSUME NEW status, GetStatus(i, status) PROVE TypeOK'
    BY <1>8, <2>2, GetStatusType DEF PromoteBlocked, TypeOK
  <2>. QED BY <1>8, <2>1, <2>2 DEF PromoteBlocked
<1>9. ASSUME NEW i \in Operated, StrongBegin(i) PROVE TypeOK'
  BY <1>9, FleetAssumption DEF StrongBegin, TypeOK, Alive
<1>10. ASSUME NEW i \in Operated, StrongWritten(i) PROVE TypeOK'
  BY <1>10, FleetAssumption DEF StrongWritten, TypeOK, Database, Alive
<1>11. ASSUME NEW i \in Operated, StrongConfirmed(i) PROVE TypeOK'
  <2>1. i \in Instances
    BY FleetAssumption
  <2>. DEFINE p == [proc[i] EXCEPT !.frozen = TRUE]
  <2>2. p \in Process /\ p.status = proc[i].status /\ p.epoch = proc[i].epoch
    BY <2>1 DEF TypeOK, Process
  <2>3. proc' = [proc EXCEPT ![i] = p]
    BY <1>11, <2>1 DEF StrongConfirmed, TypeOK
  <2>4. p.status # "down" => p.epoch >= 1
    BY <2>1, <2>2 DEF TypeOK, Alive
  <2>. HIDE DEF p
  <2>5. proc' \in [Instances -> Process] /\ \A j \in Instances : Alive(j)' => proc'[j].epoch >= 1
    BY <2>1, <2>2, <2>3, <2>4, SetProcess
  <2>. QED BY <1>11, <2>5 DEF StrongConfirmed, TypeOK
<1>12. ASSUME NEW i \in Operated, StrongFailed(i) PROVE TypeOK'
  <2>1. i \in Instances
    BY FleetAssumption
  <2>. DEFINE frozen == proc[i].frozen \/ FailClosed
              p == [proc[i] EXCEPT !.frozen = frozen]
  <2>2. frozen \in BOOLEAN
    BY FleetAssumption, <2>1
  <2>. HIDE DEF frozen
  <2>3. p \in Process /\ p.status = proc[i].status /\ p.epoch = proc[i].epoch
    BY <2>1, <2>2 DEF TypeOK, Process
  <2>4. proc' = [proc EXCEPT ![i] = p]
    BY <1>12, <2>1 DEF StrongFailed, TypeOK, frozen
  <2>5. p.status # "down" => p.epoch >= 1
    BY <2>1, <2>3 DEF TypeOK, Alive
  <2>. HIDE DEF p
  <2>6. proc' \in [Instances -> Process] /\ \A j \in Instances : Alive(j)' => proc'[j].epoch >= 1
    BY <2>1, <2>3, <2>4, <2>5, SetProcess
  <2>. QED BY <1>12, <2>6 DEF StrongFailed, TypeOK
<1>13. ASSUME NEW i \in Operated, Unfreeze(i) PROVE TypeOK'
  <2>1. i \in Instances
    BY FleetAssumption
  <2>. DEFINE p == [proc[i] EXCEPT !.frozen = FALSE]
  <2>2. p \in Process /\ p.status = proc[i].status /\ p.epoch = proc[i].epoch
    BY <2>1 DEF TypeOK, Process
  <2>3. proc' = [proc EXCEPT ![i] = p]
    BY <1>13, <2>1 DEF Unfreeze, TypeOK
  <2>4. p.status # "down" => p.epoch >= 1
    BY <2>1, <2>2 DEF TypeOK, Alive
  <2>5. proc' \in [Instances -> Process] /\ \A j \in Instances : Alive(j)' => proc'[j].epoch >= 1
    BY <2>1, <2>2, <2>3, <2>4, SetProcess
  <2>6. inFlight' \in [{"0", "1"} -> Nat]
    BY <1>13 DEF Unfreeze, Send, TypeOK
  <2>. QED BY <1>13, <2>5, <2>6 DEF Unfreeze, Disturb, TypeOK
<1>14. ASSUME NEW v \in {"0", "1"}, FlagDelivered(v) \/ FlagLost(v) PROVE TypeOK'
  BY <1>14 DEF FlagDelivered, FlagLost, TypeOK, Database, Alive
<1>. QED BY <1>0, <1>1, <1>2, <1>3, <1>4, <1>5, <1>6, <1>7, <1>8, <1>9, <1>10, <1>11,
            <1>12, <1>13, <1>14 DEF Next

-----------------------------------------------------------------------------
(* Epochs *)

\* A step that moves no epoch, ticket or echo keeps the invariant; it may judge the fleet
\* HEALTHY if some screen echoes the epoch of the judge.
LEMMA QuietStep ==
  ASSUME EpochInv, TypeOK',
         \A i \in Instances :
           /\ proc'[i].status = proc[i].status
           /\ proc'[i].epoch = proc[i].epoch
           /\ proc'[i].ticket = proc[i].ticket
           /\ proc'[i].knew = proc[i].knew
           /\ proc'[i].heard = proc[i].heard
           /\ proc'[i].healthy =>
                proc[i].healthy \/ \E s \in Screens : heartbeats[i][s] = proc[i].epoch,
         db'.epoch = db.epoch, db'.rows = db.rows, screen' = screen, heartbeats' = heartbeats
  PROVE  EpochInv'
<1>1. TicketsIssued' /\ TicketsUnique'
  BY DEF EpochInv, TicketsIssued, TicketsUnique, Issued
<1>2. EpochsKnown' /\ EchoesKnown'
  BY DEF EpochInv, EpochsKnown, EchoesKnown, Known, Alive
<1>3. UnheardNotEchoed'
  BY DEF EpochInv, UnheardNotEchoed, NotEchoed, Issued
<1>4. HealthyMeansAnswered'
  BY DEF EpochInv, HealthyMeansAnswered, TicketsIssued, UnheardNotEchoed, NotEchoed, Issued
<1>. QED BY <1>1, <1>2, <1>3, <1>4 DEF EpochInv

\* What getStatus() does to the process that calls it.
LEMMA GetStatusQuiet ==
  ASSUME TypeOK, NEW i \in Instances, NEW status \in Statuses(i), GetStatus(i, status)
  PROVE  \A j \in Instances :
           /\ proc'[j].status = proc[j].status
           /\ proc'[j].epoch = proc[j].epoch
           /\ proc'[j].ticket = proc[j].ticket
           /\ proc'[j].knew = proc[j].knew
           /\ proc'[j].heard = proc[j].heard
           /\ proc'[j].healthy =>
                proc[j].healthy \/ \E s \in Screens : heartbeats[j][s] = proc[j].epoch
<1>1. status = "HEALTHY" => \E s \in Screens : heartbeats[i][s] = proc[i].epoch
  BY HealthyNeedsEcho
<1>. DEFINE p == [proc[i] EXCEPT !.frozen = FrozenAfter(i, status),
                              !.healthy = @ \/ status = "HEALTHY"]
<1>2. /\ p.status = proc[i].status /\ p.epoch = proc[i].epoch /\ p.ticket = proc[i].ticket
      /\ p.knew = proc[i].knew /\ p.heard = proc[i].heard
      /\ p.healthy => proc[i].healthy \/ status = "HEALTHY"
  BY DEF TypeOK, Process
<1>3. proc' = [proc EXCEPT ![i] = p]
  BY DEF GetStatus, TypeOK
<1>. HIDE DEF p
<1>. QED BY <1>1, <1>2, <1>3 DEF TypeOK

LEMMA EpochInit == Init => EpochInv
<1>. SUFFICES ASSUME Init PROVE EpochInv
  OBVIOUS
<1>1. \A i \in Instances : proc[i] = Down
  BY DEF Init
<1>2. /\ \A s \in Screens : screen[s] = 0 /\ db.rows[s] = 0
      /\ \A i \in Instances, s \in Screens : heartbeats[i][s] = 0
      /\ db.epoch \in Nat
  BY DEF Init, NoRecords
<1>. QED BY <1>1, <1>2, TypeInit DEF EpochInv, TicketsIssued, TicketsUnique, EpochsKnown,
            EchoesKnown, Known, UnheardNotEchoed, HealthyMeansAnswered, Issued, Alive, Down

LEMMA StartEpochs ==
  ASSUME EpochInv, TypeOK', NEW i \in Instances, Start(i)
  PROVE  EpochInv'
<1>. DEFINE p == [Down EXCEPT !.status = "serving",
                              !.epoch  = IF db.epoch = 0 THEN 1 ELSE db.epoch,
                              !.knew   = db.epoch # 0,
                              !.frozen = db.frozen = "1"]
<1>1. proc' = [proc EXCEPT ![i] = p] /\ proc \in [Instances -> Process]
  BY DEF Start, EpochInv, TypeOK
<1>2. p.status = "serving" /\ Known(p.epoch) /\ (p.knew => p.epoch =< db.epoch)
  <2>1. db.epoch \in Nat
    BY DEF EpochInv, TypeOK, Database
  <2>2. p.status = "serving" /\ p.epoch = (IF db.epoch = 0 THEN 1 ELSE db.epoch)
    BY DEF Down
  <2>3. p.knew => db.epoch # 0
    BY DEF Down
  <2>. QED BY <2>1, <2>2, <2>3 DEF Known
<1>. HIDE DEF p
<1>3. \A j \in Instances : j # i => proc'[j] = proc[j]
  BY <1>1
<1>4. proc'[i] = p
  BY <1>1
<1>5. PICK records \in {db.rows, NoRecords} : heartbeats' = [heartbeats EXCEPT ![i] = records]
  BY DEF Start
<1>6. \A j \in Instances, s \in Screens :
        heartbeats'[j][s] = heartbeats[j][s] \/ heartbeats'[j][s] = db.rows[s]
                                            \/ heartbeats'[j][s] = 0
  BY <1>5 DEF NoRecords, EpochInv, TypeOK
<1>7. db' = db /\ screen' = screen /\ db.epoch \in Nat
  BY DEF Start, EpochInv, TypeOK, Database
<1>8. TicketsIssued' /\ TicketsUnique'
  BY <1>2, <1>3, <1>4, <1>7 DEF EpochInv, TicketsIssued, TicketsUnique, Issued
<1>9. EpochsKnown' /\ EchoesKnown'
  BY <1>2, <1>3, <1>4, <1>6, <1>7 DEF EpochInv, EpochsKnown, EchoesKnown, Known, Alive
<1>10. UnheardNotEchoed'
  <2>1. \A j \in Instances : Issued(j)' => j # i /\ proc'[j] = proc[j] /\ proc[j].ticket >= 1
    BY <1>2, <1>3, <1>4, <1>7 DEF Issued, EpochInv, TicketsIssued
  <2>. QED BY <2>1, <1>6, <1>7 DEF EpochInv, UnheardNotEchoed, NotEchoed, Issued
<1>11. HealthyMeansAnswered'
  BY <1>2, <1>3, <1>4 DEF EpochInv, HealthyMeansAnswered
<1>. QED BY <1>8, <1>9, <1>10, <1>11 DEF EpochInv

LEMMA IncrementSentEpochs ==
  ASSUME EpochInv, TypeOK', NEW i \in Instances, IncrementSent(i)
  PROVE  EpochInv'
<1>. DEFINE p == [proc[i] EXCEPT !.status = "counting", !.ticket = db.epoch + 1]
<1>1. proc' = [proc EXCEPT ![i] = p] /\ proc \in [Instances -> Process]
  BY DEF IncrementSent, EpochInv, TypeOK
<1>2. /\ p.status = "counting" /\ p.ticket = db.epoch + 1
      /\ p.epoch = proc[i].epoch /\ p.knew = proc[i].knew
  BY <1>1 DEF Process
<1>. HIDE DEF p
<1>3. \A j \in Instances : j # i => proc'[j] = proc[j]
  BY <1>1
<1>4. proc'[i] = p
  BY <1>1
<1>5. /\ db.epoch \in Nat /\ db'.epoch = db.epoch + 1 /\ db'.rows = db.rows
      /\ screen' = screen /\ heartbeats' = heartbeats
  BY DEF IncrementSent, EpochInv, TypeOK, Database
<1>6. Alive(i) /\ Alive(i)' /\ proc[i].epoch >= 1
  BY <1>2, <1>4 DEF IncrementSent, Alive, EpochInv, TypeOK
<1>7. \A e \in Nat : Known(e) => Known(e)'
  BY <1>5 DEF Known
<1>8. TicketsIssued' /\ TicketsUnique'
  BY <1>2, <1>3, <1>4, <1>5 DEF EpochInv, TicketsIssued, TicketsUnique, Issued
<1>9. EpochsKnown'
  <2>1. \A j \in Instances : proc[j].epoch \in Nat
    BY <1>1 DEF Process
  <2>. QED BY <2>1, <1>2, <1>3, <1>4, <1>5, <1>6, <1>7 DEF EpochInv, EpochsKnown, Known, Alive
<1>10. EchoesKnown'
  BY <1>5, <1>7 DEF EpochInv, EchoesKnown, Known, TypeOK, Database
<1>11. UnheardNotEchoed'
  <2>1. PICK e \in Nat : e = db.epoch + 1
    BY <1>5
  <2>2. ASSUME proc[i].knew, NEW s \in Screens PROVE NotEchoed(s, e)'
    <3>1. db.epoch >= 1
      BY <2>2, <1>5, <1>6 DEF EpochInv, EpochsKnown, TypeOK, Process
    <3>2. \A v \in Nat : Known(v) => v # e
      BY <2>1, <3>1, <1>5 DEF Known
    <3>3. screen[s] \in Nat /\ db.rows[s] \in Nat /\ \A j \in Instances : heartbeats[j][s] \in Nat
      BY DEF EpochInv, TypeOK, Database
    <3>4. Known(screen[s]) /\ Known(db.rows[s]) /\ \A j \in Instances : Known(heartbeats[j][s])
      BY DEF EpochInv, EchoesKnown
    <3>. QED BY <3>2, <3>3, <3>4, <1>5 DEF NotEchoed
  <2>3. ASSUME NEW j \in Instances, j # i, Issued(j)', proc'[j].knew, ~proc'[j].heard,
               NEW s \in Screens
        PROVE  NotEchoed(s, proc[j].ticket)'
    <3>1. Issued(j) /\ proc[j].knew /\ ~proc[j].heard /\ proc'[j].ticket = proc[j].ticket
      BY <2>3, <1>3 DEF Issued
    <3>2. NotEchoed(s, proc[j].ticket)
      BY <3>1 DEF EpochInv, UnheardNotEchoed
    <3>. QED BY <3>1, <3>2, <1>5 DEF NotEchoed
  <2>4. ASSUME NEW j \in Instances, Issued(j)', proc'[j].knew, ~proc'[j].heard,
               NEW s \in Screens
        PROVE  (j # i /\ NotEchoed(s, proc[j].ticket)') \/ (j = i /\ NotEchoed(s, e)')
    BY <2>2, <2>3, <2>4, <1>2, <1>4
  <2>5. \A j \in Instances : j # i => proc'[j].ticket = proc[j].ticket
    BY <1>3
  <2>6. proc'[i].ticket = e
    BY <2>1, <1>2, <1>4
  <2>. QED BY <2>4, <2>5, <2>6 DEF UnheardNotEchoed, NotEchoed
<1>12. HealthyMeansAnswered'
  BY <1>2, <1>3, <1>4 DEF EpochInv, HealthyMeansAnswered
<1>. QED BY <1>8, <1>9, <1>10, <1>11, <1>12 DEF EpochInv

LEMMA IncrementDoneEpochs ==
  ASSUME EpochInv, TypeOK', NEW i \in Instances, IncrementDone(i)
  PROVE  EpochInv'
<1>. DEFINE p == [proc[i] EXCEPT !.status = "up", !.epoch = proc[i].ticket, !.healthy = FALSE]
<1>1. proc' = [proc EXCEPT ![i] = p] /\ proc \in [Instances -> Process]
  BY DEF IncrementDone, EpochInv, TypeOK
<1>2. /\ p.status = "up" /\ p.ticket = proc[i].ticket /\ p.epoch = proc[i].ticket
      /\ p.knew = proc[i].knew /\ p.heard = proc[i].heard /\ ~p.healthy
  BY <1>1 DEF Process
<1>. HIDE DEF p
<1>3. \A j \in Instances : j # i => proc'[j] = proc[j]
  BY <1>1
<1>4. proc'[i] = p
  BY <1>1
<1>5. db' = db /\ screen' = screen /\ heartbeats' = heartbeats /\ db.epoch \in Nat
  BY DEF IncrementDone, EpochInv, TypeOK, Database
<1>6. Issued(i) /\ \A j \in Instances : /\ Issued(j)' <=> Issued(j)
                                       /\ proc'[j].ticket = proc[j].ticket
                                       /\ proc'[j].knew = proc[j].knew
                                       /\ proc'[j].heard = proc[j].heard
  BY <1>2, <1>3, <1>4 DEF IncrementDone, Issued
<1>7. TicketsIssued' /\ TicketsUnique'
  BY <1>2, <1>3, <1>4, <1>5, <1>6 DEF EpochInv, TicketsIssued, TicketsUnique
<1>8. EpochsKnown' /\ EchoesKnown'
  <2>1. proc[i].ticket =< db.epoch
    BY <1>5, <1>6 DEF EpochInv, TicketsIssued
  <2>. QED BY <2>1, <1>2, <1>3, <1>4, <1>5 DEF EpochInv, EpochsKnown, EchoesKnown, Known, Alive
<1>9. UnheardNotEchoed'
  BY <1>5, <1>6 DEF EpochInv, UnheardNotEchoed, NotEchoed
<1>10. HealthyMeansAnswered'
  BY <1>2, <1>3, <1>4 DEF EpochInv, HealthyMeansAnswered
<1>. QED BY <1>7, <1>8, <1>9, <1>10 DEF EpochInv

LEMMA CrashEpochs ==
  ASSUME EpochInv, TypeOK', NEW i \in Instances, Crash(i)
  PROVE  EpochInv'
<1>1. /\ proc' = [proc EXCEPT ![i] = Down] /\ proc \in [Instances -> Process]
      /\ heartbeats' = [heartbeats EXCEPT ![i] = NoRecords]
  BY DEF Crash, EpochInv, TypeOK
<1>2. \A j \in Instances : j # i => proc'[j] = proc[j]
  BY <1>1
<1>3. proc'[i] = Down
  BY <1>1
<1>4. db' = db /\ screen' = screen /\ db.epoch \in Nat
  BY DEF Crash, EpochInv, TypeOK, Database
<1>5. \A j \in Instances, s \in Screens :
        heartbeats'[j][s] = heartbeats[j][s] \/ heartbeats'[j][s] = 0
  BY <1>1 DEF NoRecords, EpochInv, TypeOK
<1>6. TicketsIssued' /\ TicketsUnique' /\ HealthyMeansAnswered'
  BY <1>2, <1>3, <1>4 DEF EpochInv, TicketsIssued, TicketsUnique, HealthyMeansAnswered,
     Issued, Down
<1>7. EpochsKnown' /\ EchoesKnown'
  BY <1>2, <1>3, <1>4, <1>5 DEF EpochInv, EpochsKnown, EchoesKnown, Known, Alive, Down
<1>8. UnheardNotEchoed'
  <2>1. \A j \in Instances : Issued(j)' => j # i /\ proc'[j] = proc[j] /\ proc[j].ticket >= 1
    BY <1>2, <1>3, <1>4 DEF Issued, Down, EpochInv, TicketsIssued
  <2>. QED BY <2>1, <1>4, <1>5 DEF EpochInv, UnheardNotEchoed, NotEchoed, Issued
<1>. QED BY <1>6, <1>7, <1>8 DEF EpochInv

LEMMA PollEpochs ==
  ASSUME EpochInv, TypeOK', NEW s \in Screens, NEW i \in Instances, Poll(s, i)
  PROVE  EpochInv'
<1>. DEFINE p(j) == [proc[j] EXCEPT !.heard = @ \/ proc[j].ticket = proc[i].epoch]
<1>1. \A j \in Instances :
        /\ p(j).status = proc[j].status /\ p(j).epoch = proc[j].epoch
        /\ p(j).ticket = proc[j].ticket /\ p(j).knew = proc[j].knew
        /\ p(j).healthy = proc[j].healthy
        /\ proc[j].heard => p(j).heard
        /\ proc[j].ticket = proc[i].epoch => p(j).heard
  <2>1. SUFFICES ASSUME NEW j \in Instances
                 PROVE  /\ p(j).status = proc[j].status /\ p(j).epoch = proc[j].epoch
                        /\ p(j).ticket = proc[j].ticket /\ p(j).knew = proc[j].knew
                        /\ p(j).healthy = proc[j].healthy
                        /\ proc[j].heard => p(j).heard
                        /\ proc[j].ticket = proc[i].epoch => p(j).heard
    OBVIOUS
  <2>2. proc[j] \in Process
    BY DEF EpochInv, TypeOK
  <2>3. p(j).heard = (proc[j].heard \/ proc[j].ticket = proc[i].epoch)
    BY <2>2 DEF Process
  <2>4. /\ p(j).status = proc[j].status /\ p(j).epoch = proc[j].epoch
        /\ p(j).ticket = proc[j].ticket /\ p(j).knew = proc[j].knew
        /\ p(j).healthy = proc[j].healthy
    BY <2>2 DEF Process
  <2>. HIDE DEF p
  <2>. QED BY <2>3, <2>4
<1>2. \/ proc' = proc /\ screen' = screen
      \/ proc' = [j \in Instances |-> p(j)] /\ screen' = [screen EXCEPT ![s] = proc[i].epoch]
  BY DEF Poll
<1>. HIDE DEF p
<1>3. \A j \in Instances :
        /\ proc'[j].status = proc[j].status /\ proc'[j].epoch = proc[j].epoch
        /\ proc'[j].ticket = proc[j].ticket /\ proc'[j].knew = proc[j].knew
        /\ proc'[j].healthy = proc[j].healthy
        /\ proc[j].heard => proc'[j].heard
  BY <1>1, <1>2
<1>4. \A t \in Screens :
        \/ screen'[t] = screen[t]
        \/ /\ screen'[t] = proc[i].epoch
           /\ \A j \in Instances : proc[j].ticket = proc[i].epoch => proc'[j].heard
  BY <1>1, <1>2 DEF EpochInv, TypeOK
<1>5. /\ \A j \in Instances, t \in Screens :
           heartbeats'[j][t] = heartbeats[j][t] \/ heartbeats'[j][t] = screen[t]
      /\ \A t \in Screens : db'.rows[t] = db.rows[t] \/ db'.rows[t] = screen[t]
      /\ db'.epoch = db.epoch
  BY DEF Poll, EpochInv, TypeOK, Database
<1>6. TicketsIssued' /\ TicketsUnique' /\ HealthyMeansAnswered'
  BY <1>3, <1>5 DEF EpochInv, TicketsIssued, TicketsUnique, HealthyMeansAnswered, Issued
<1>7. EpochsKnown' /\ EchoesKnown'
  BY <1>3, <1>4, <1>5 DEF EpochInv, EpochsKnown, EchoesKnown, Known, Alive
<1>8. UnheardNotEchoed'
  <2>1. SUFFICES ASSUME NEW j \in Instances, Issued(j)', proc'[j].knew, ~proc'[j].heard,
                        NEW t \in Screens
                 PROVE  NotEchoed(t, proc[j].ticket)'
    BY <1>3 DEF UnheardNotEchoed, NotEchoed
  <2>2. NotEchoed(t, proc[j].ticket)
    BY <2>1, <1>3 DEF EpochInv, UnheardNotEchoed, Issued
  <2>3. screen'[t] = screen[t] \/ proc[i].epoch # proc[j].ticket
    BY <2>1, <1>4
  <2>. QED BY <2>2, <2>3, <1>3, <1>4, <1>5 DEF NotEchoed
<1>. QED BY <1>6, <1>7, <1>8 DEF EpochInv

LEMMA EpochStep == EpochInv /\ [Next]_vars => EpochInv'
<1>. SUFFICES ASSUME EpochInv, [Next]_vars PROVE EpochInv'
  OBVIOUS
<1>1. TypeOK'
  BY TypeStep DEF EpochInv
<1>2. CASE UNCHANGED vars
  BY <1>1, <1>2, QuietStep DEF vars
<1>3. ASSUME NEW i \in Instances,
             Start(i) \/ IncrementSent(i) \/ IncrementDone(i) \/ Crash(i)
      PROVE  EpochInv'
  BY <1>1, <1>3, StartEpochs, IncrementSentEpochs, IncrementDoneEpochs, CrashEpochs
<1>4. ASSUME NEW i \in Instances, PromoteBegin(i) PROVE EpochInv'
  <2>1. PICK status \in Statuses(i) : GetStatus(i, status)
    BY <1>4 DEF PromoteBegin
  <2>2. db' = db /\ screen' = screen /\ heartbeats' = heartbeats /\ TypeOK
    BY <1>4 DEF PromoteBegin, EpochInv
  <2>. QED BY <1>1, <2>1, <2>2, GetStatusQuiet, QuietStep
<1>5. ASSUME NEW i \in Instances, PromotePasses(i) PROVE EpochInv'
  BY <1>1, <1>5, QuietStep DEF PromotePasses
<1>6. ASSUME NEW i \in Instances, PromoteBlocked(i) PROVE EpochInv'
  <2>1. db' = db /\ screen' = screen /\ heartbeats' = heartbeats /\ TypeOK
    BY <1>6 DEF PromoteBlocked, EpochInv
  <2>2. CASE proc' = proc
    BY <1>1, <2>1, <2>2, QuietStep
  <2>3. ASSUME NEW status \in Statuses(i), GetStatus(i, status) PROVE EpochInv'
    BY <1>1, <2>1, <2>3, GetStatusQuiet, QuietStep
  <2>. QED BY <1>6, <2>2, <2>3 DEF PromoteBlocked
<1>7. ASSUME NEW s \in Screens, NEW i \in Instances, Poll(s, i) PROVE EpochInv'
  BY <1>1, <1>7, PollEpochs
<1>8. ASSUME NEW i \in Operated, StrongBegin(i) \/ StrongWritten(i) PROVE EpochInv'
  <2>1. db'.epoch = db.epoch /\ db'.rows = db.rows
    BY <1>8 DEF StrongBegin, StrongWritten, EpochInv, TypeOK, Database
  <2>. QED BY <1>1, <1>8, <2>1, QuietStep DEF StrongBegin, StrongWritten
<1>9. ASSUME NEW i \in Operated, StrongConfirmed(i) \/ StrongFailed(i) \/ Unfreeze(i)
      PROVE  EpochInv'
  <2>1. i \in Instances /\ TypeOK /\ proc \in [Instances -> Process]
    BY FleetAssumption DEF EpochInv, TypeOK
  <2>2. PICK frozen : proc' = [proc EXCEPT ![i].frozen = frozen]
    BY <1>9, <2>1 DEF StrongConfirmed, StrongFailed, Unfreeze
  <2>3. \A j \in Instances :
           /\ proc'[j].status = proc[j].status /\ proc'[j].epoch = proc[j].epoch
           /\ proc'[j].ticket = proc[j].ticket /\ proc'[j].knew = proc[j].knew
           /\ proc'[j].heard = proc[j].heard /\ proc'[j].healthy = proc[j].healthy
    BY <2>1, <2>2 DEF Process
  <2>4. db' = db /\ screen' = screen /\ heartbeats' = heartbeats
    BY <1>9 DEF StrongConfirmed, StrongFailed, Unfreeze
  <2>. QED BY <1>1, <2>3, <2>4, QuietStep
<1>10. ASSUME NEW v \in {"0", "1"}, FlagDelivered(v) \/ FlagLost(v) PROVE EpochInv'
  <2>1. db'.epoch = db.epoch /\ db'.rows = db.rows
    BY <1>10 DEF FlagDelivered, FlagLost, EpochInv, TypeOK, Database
  <2>. QED BY <1>1, <1>10, <2>1, QuietStep DEF FlagDelivered, FlagLost
<1>. QED BY <1>2, <1>3, <1>4, <1>5, <1>6, <1>7, <1>8, <1>9, <1>10 DEF Next

\* The epochs of every behaviour of FleetConsensus keep the invariant.
THEOREM EpochInvariance == Spec => []EpochInv
BY EpochInit, EpochStep, PTL DEF Spec

\* Every variable keeps its type, and a running process always has a positive epoch
\* (initFromDb(), incrementEpoch()).
THEOREM TypeCorrect == Spec => []TypeOK
<1>1. EpochInv => TypeOK
  BY DEF EpochInv
<1>. QED BY <1>1, EpochInvariance, PTL

\* Two started processes never hold the same epoch, however many instances start, crash
\* and restart (incrementEpoch(), incrementInt()).
THEOREM EpochsAreUnique == Spec => []EpochsUnique
<1>1. EpochInv => EpochsUnique
  BY DEF EpochInv, TicketsIssued, TicketsUnique, EpochsUnique, Issued
<1>. QED BY <1>1, EpochInvariance, PTL

\* No running process serves an epoch the database has not reached, unless it found none
\* there when it started.
THEOREM EpochsAreIssued == Spec => []EpochsComeFromDb
<1>1. EpochInv => EpochsComeFromDb
  BY DEF EpochInv, EpochsKnown, EpochsComeFromDb
<1>. QED BY <1>1, EpochInvariance, PTL

\* A restart is never hidden: HEALTHY needs a screen that was given the epoch of the new
\* start (getStatus(), AUTHORITY_LOSS).
THEOREM RestartsAreSeen == Spec => []HealthyMeansAnswered
<1>1. EpochInv => HealthyMeansAnswered
  BY DEF EpochInv
<1>. QED BY <1>1, EpochInvariance, PTL

-----------------------------------------------------------------------------
(* The strong freeze *)

\* getStatus() sends a '0' only when it also forgets the strong freezes.
LEMMA GetStatusFreeze ==
  ASSUME FreezeInv, NEW i \in Instances, NEW status, GetStatus(i, status),
         db' = db, strong' = strong, TypeOK'
  PROVE  FreezeInv'
<1>1. CASE "0" \in FlagSent(i, status)
  BY <1>1 DEF FreezeInv, GetStatus, Disturb, StrongFreezeDurable
<1>2. CASE "0" \notin FlagSent(i, status)
  <2>1. inFlight'["0"] = inFlight["0"] /\ held' = held /\ undisturbed' = undisturbed
    BY <1>2 DEF GetStatus, Disturb, Send
  <2>. QED BY <2>1 DEF FreezeInv, StrongFreezeDurable
<1>. QED BY <1>1, <1>2

LEMMA FreezeStep == EpochInv /\ FreezeInv /\ [Next]_vars => FreezeInv'
<1>. SUFFICES ASSUME EpochInv, FreezeInv, [Next]_vars PROVE FreezeInv'
  OBVIOUS
<1>1. TypeOK'
  BY TypeStep DEF EpochInv
<1>. USE DEF FreezeInv, StrongFreezeDurable
<1>2. CASE UNCHANGED vars
  BY <1>1, <1>2 DEF vars
<1>3. ASSUME NEW i \in Instances,
             Start(i) \/ IncrementSent(i) \/ IncrementDone(i) \/ PromotePasses(i)
      PROVE  FreezeInv'
  BY <1>1, <1>3 DEF Start, IncrementSent, IncrementDone, PromotePasses, TypeOK, Database
<1>4. ASSUME NEW i \in Instances, Crash(i) PROVE FreezeInv'
  BY <1>1, <1>4 DEF Crash, TypeOK
<1>5. ASSUME NEW s \in Screens, NEW i \in Instances, Poll(s, i) PROVE FreezeInv'
  <2>1. db'.frozen = db.frozen
    BY <1>5 DEF Poll, TypeOK, Database
  <2>. QED BY <1>1, <1>5, <2>1 DEF Poll
<1>6. ASSUME NEW i \in Instances, PromoteBegin(i) PROVE FreezeInv'
  <2>1. PICK status : GetStatus(i, status)
    BY <1>6 DEF PromoteBegin
  <2>2. db' = db /\ strong' = strong
    BY <1>6 DEF PromoteBegin
  <2>. QED BY <1>1, <2>1, <2>2, GetStatusFreeze
<1>7. ASSUME NEW i \in Instances, PromoteBlocked(i) PROVE FreezeInv'
  <2>1. db' = db /\ strong' = strong
    BY <1>7 DEF PromoteBlocked
  <2>2. CASE UNCHANGED <<proc, inFlight, undisturbed, held>>
    BY <1>1, <2>1, <2>2
  <2>3. ASSUME NEW status, GetStatus(i, status) PROVE FreezeInv'
    BY <1>1, <2>1, <2>3, GetStatusFreeze
  <2>. QED BY <1>7, <2>2, <2>3 DEF PromoteBlocked
<1>8. ASSUME NEW i \in Operated, StrongBegin(i) PROVE FreezeInv'
  BY <1>1, <1>8, FleetAssumption DEF StrongBegin, TypeOK
<1>9. ASSUME NEW i \in Operated, StrongWritten(i) PROVE FreezeInv'
  BY <1>1, <1>9, FleetAssumption DEF StrongWritten, TypeOK, Database
<1>10. ASSUME NEW i \in Operated, StrongConfirmed(i) PROVE FreezeInv'
  <2>1. i \in undisturbed => db.frozen = "1" /\ inFlight["0"] = 0
    BY <1>10 DEF StrongConfirmed
  <2>. QED BY <1>1, <1>10, <2>1, FleetAssumption DEF StrongConfirmed, TypeOK
<1>11. ASSUME NEW i \in Operated, StrongFailed(i) PROVE FreezeInv'
  BY <1>1, <1>11, FleetAssumption DEF StrongFailed, TypeOK
<1>12. ASSUME NEW i \in Operated, Unfreeze(i) PROVE FreezeInv'
  BY <1>1, <1>12 DEF Unfreeze, Disturb
<1>13. ASSUME NEW v \in {"0", "1"}, FlagDelivered(v) PROVE FreezeInv'
  <2>1. db'.frozen = v
    BY <1>13 DEF FlagDelivered, TypeOK, Database
  <2>2. CASE v = "0"
    BY <1>1, <1>13, <2>2 DEF FlagDelivered
  <2>3. CASE v = "1"
    BY <1>1, <1>13, <2>1, <2>3 DEF FlagDelivered, TypeOK
  <2>. QED BY <2>2, <2>3
<1>14. ASSUME NEW v \in {"0", "1"}, FlagLost(v) PROVE FreezeInv'
  BY <1>1, <1>14 DEF FlagLost, TypeOK
<1>. QED BY <1>2, <1>3, <1>4, <1>5, <1>6, <1>7, <1>8, <1>9, <1>10, <1>11, <1>12, <1>13,
            <1>14 DEF Next

\* A strong freeze that no '0' disturbs is in the database for good: neither crashes nor
\* late writes undo it (freezeStrong()).
THEOREM StrongFreezesLast == Spec => []StrongFreezeDurable
<1>1. Init => FreezeInv
  BY TypeInit DEF Init, FreezeInv, StrongFreezeDurable
<1>2. FreezeInv => StrongFreezeDurable
  BY DEF FreezeInv
<1>. QED BY <1>1, <1>2, FreezeStep, EpochInvariance, PTL DEF Spec

\* A step that ends a held freeze sends a '0'.
LEMMA HeldStep ==
  ASSUME TypeOK, [Next]_vars, held
  PROVE  held' \/ inFlight'["0"] > inFlight["0"]
<1>1. inFlight["0"] \in Nat
  BY DEF TypeOK
<1>2. CASE UNCHANGED vars
  BY <1>2 DEF vars
<1>3. ASSUME NEW i \in Instances, NEW status, GetStatus(i, status)
      PROVE  held' \/ inFlight'["0"] > inFlight["0"]
  <2>1. CASE "0" \in FlagSent(i, status)
    <3>1. inFlight'["0"] = inFlight["0"] + 1
      BY <1>3, <2>1 DEF GetStatus, Send
    <3>. QED BY <1>1, <3>1
  <2>2. CASE "0" \notin FlagSent(i, status)
    BY <1>3, <2>2 DEF GetStatus, Disturb
  <2>. QED BY <2>1, <2>2
<1>4. ASSUME NEW i \in Instances,
             Start(i) \/ IncrementSent(i) \/ IncrementDone(i) \/ Crash(i) \/ PromotePasses(i)
      PROVE  held'
  BY <1>4 DEF Start, IncrementSent, IncrementDone, Crash, PromotePasses
<1>5. ASSUME NEW i \in Instances, PromoteBegin(i) \/ PromoteBlocked(i)
      PROVE  held' \/ inFlight'["0"] > inFlight["0"]
  BY <1>3, <1>5 DEF PromoteBegin, PromoteBlocked
<1>6. ASSUME NEW i \in Operated, StrongBegin(i) \/ StrongWritten(i) \/ StrongConfirmed(i)
                                   \/ StrongFailed(i)
      PROVE  held'
  BY <1>6 DEF StrongBegin, StrongWritten, StrongConfirmed, StrongFailed
<1>7. ASSUME NEW i \in Operated, Unfreeze(i)
      PROVE  inFlight'["0"] > inFlight["0"]
  <2>1. inFlight'["0"] = inFlight["0"] + 1
    BY <1>7 DEF Unfreeze, Send
  <2>. QED BY <1>1, <2>1
<1>8. ASSUME NEW s \in Screens, NEW i \in Instances, Poll(s, i) PROVE held'
  BY <1>8 DEF Poll
<1>9. ASSUME NEW v \in {"0", "1"}, FlagDelivered(v) \/ FlagLost(v) PROVE held'
  BY <1>9 DEF FlagDelivered, FlagLost
<1>. QED BY <1>2, <1>4, <1>5, <1>6, <1>7, <1>8, <1>9 DEF Next

\* What fleet-consensus.js:460 and law F4 say of every freeze is true of a strong freeze from
\* its confirmation until a '0' is sent: no promotion passes on any instance, also on those
\* that restarted or never heard of the freeze.  A HEALTHY evaluation sends such a '0', which
\* is how the unrestricted claim fails.
THEOREM HeldFreezesBlock == Spec => HeldFreezeBlocks
<1>1. EpochInv /\ StrongFreezeDurable /\ [Next]_vars =>
        [held => /\ ~\E i \in Instances : PromotePasses(i)
                 /\ held' \/ inFlight'["0"] > inFlight["0"]]_vars
  <2> SUFFICES ASSUME EpochInv, StrongFreezeDurable, [Next]_vars, held
               PROVE  /\ ~\E i \in Instances : PromotePasses(i)
                      /\ held' \/ inFlight'["0"] > inFlight["0"]
    OBVIOUS
  <2>1. isRolloutFrozenFromDb
    BY DEF StrongFreezeDurable, isRolloutFrozenFromDb
  <2>. QED BY <2>1, HeldStep DEF PromotePasses, EpochInv
<1>. QED BY <1>1, EpochInvariance, StrongFreezesLast, PTL DEF Spec, HeldFreezeBlocks
=============================================================================
