------------------------ MODULE RemoteCommandsProofs ------------------------
(***************************************************************************)
(* Proofs about RemoteCommands, for any number of operators, commands,     *)
(* attempts and faults.  A history line may be lost after it was written   *)
(* (it runs into an unended line) or be written and seem not to be, so     *)
(* executions cannot be compared with what loadHistory() returns alone.    *)
(* IInv compares them with both the line that would be left (saved) and    *)
(* the one that would be lost (tail), and says where the player must be    *)
(* for the file to end in a newline: before it executes anything.          *)
(***************************************************************************)
EXTENDS RemoteCommands, FiniteSetTheorems, TLAPS

-----------------------------------------------------------------------------
(* The inductive invariant *)

\* What the lost histories allow.
Extra == MAX_ATTEMPTS * forgotten

Handling == phase \in {"acknowledged", "starting", "executing"}

\* Nothing has more than MAX_ATTEMPTS attempts, the one under way included.
AttemptsBounded ==
  /\ \A c \in Commands : saved[c].attempts =< MAX_ATTEMPTS
  /\ tail.line.attempts =< MAX_ATTEMPTS
  /\ phase = "loaded" => known.attempts =< MAX_ATTEMPTS
  /\ Handling => known.attempts < MAX_ATTEMPTS

\* Executions are covered by the lines of the file.
SavedCounts == \A c \in Commands : executed[c] =< saved[c].attempts + Extra

\* They are also covered by the unended line, if loadHistory() finds that one.
TailCounts == tail.kind = "whole" =>
  /\ tail.command \in Commands
  /\ executed[tail.command] =< tail.line.attempts + Extra

\* And by what the player knows; the execution under way is one more.
KnownCounts ==
  /\ phase \in {"loaded", "acknowledged", "starting"} =>
       executed[command] =< known.attempts + Extra
  /\ phase = "executing" => executed[command] =< known.attempts + 1 + Extra

\* Before it executes a command, its line is in the file.
StartRecorded ==
  /\ Handling => tail.kind = "ended"
  /\ phase \in {"starting", "executing"} => saved[command].attempts = known.attempts + 1

\* A command the player goes on with, or an unended line is about, has no conclusion yet.
OpenAtHand == forgotten = 0 =>
  /\ tail.kind = "whole" => saved[tail.command].status \notin Concluded
  /\ Handling => saved[command].status \notin Concluded
  /\ phase = "loaded" => known = Loaded(command)

RequestsRecorded == \A request \in requests :
  forgotten = 0 /\ request.status = "COMPLETED" => saved[request.command].status = "COMPLETED"

Counts == AttemptsBounded /\ SavedCounts /\ TailCounts /\ KnownCounts /\ StartRecorded

Conclusions == OpenAtHand /\ RequestsRecorded /\ ReportedIsRecorded

\* What the player handles and reports has a row.
Issued == /\ phase \notin {"down", "idle"} => row[command] # "none"
          /\ \A request \in requests : row[request.command] # "none"

IInv == TypeOK /\ Issued /\ Counts /\ Conclusions

-----------------------------------------------------------------------------
(* Operators *)

LEMMA LineFacts ==
  ASSUME NEW n \in Nat
  PROVE  /\ Open(n) \in Line /\ Open(n).attempts = n /\ Open(n).status = "open"
         /\ NoLine \in Line /\ NoLine.attempts = 0 /\ NoLine.status = "open"
         /\ "open" \notin Concluded
  BY DEF Open, NoLine, Line, Concluded

LEMMA TailFacts ==
  /\ Ended \in Tail /\ Ended.kind = "ended" /\ Ended.line = NoLine
  /\ Torn \in Tail /\ Torn.kind = "torn" /\ Torn.line = NoLine
  /\ \A c \in Commands, line \in Line :
       /\ Whole(c, line) \in Tail
       /\ Whole(c, line).kind = "whole"
       /\ Whole(c, line).command = c
       /\ Whole(c, line).line = line
<1>1. NoLine \in Line
  BY LineFacts
<1> QED
  BY <1>1 DEF Ended, Torn, Whole, Tail

\* The lines of the command at hand.
LEMMA LinesAtHand ==
  ASSUME known \in Line
  PROVE  /\ Late \in Line /\ Late.attempts = known.attempts
         /\ Poisoned \in Line /\ Poisoned.attempts = known.attempts
         /\ Attempt \in Line /\ Attempt.attempts = known.attempts + 1
         /\ \A status \in Outcomes : /\ Final(status) \in Line
                                     /\ Final(status).attempts = known.attempts + 1
         /\ Final("COMPLETED").status = "COMPLETED"
<1>1. known.attempts \in Nat
  BY DEF Line
<1>2. Late \in Line /\ Late.attempts = known.attempts
  BY <1>1 DEF Late, Line, Concluded
<1>3. Poisoned \in Line /\ Poisoned.attempts = known.attempts
  BY <1>1 DEF Poisoned, Line, Concluded
<1>4. Attempt \in Line /\ Attempt.attempts = known.attempts + 1
  BY <1>1, LineFacts DEF Attempt
<1>5. Final("COMPLETED") \in Line /\ Final("COMPLETED").attempts = known.attempts + 1
  BY <1>1 DEF Final, Attempt, Open, Line, Concluded
<1>6. Final("COMPLETED").status = "COMPLETED"
  BY <1>1 DEF Final, Attempt, Open
<1>7. Final("FAILED") = Attempt
  BY DEF Final
<1> QED
  BY <1>2, <1>3, <1>4, <1>5, <1>6, <1>7 DEF Outcomes

LEMMA ExtraFacts ==
  ASSUME TypeOK
  PROVE  /\ Extra \in Nat
         /\ forgotten' = forgotten => Extra' = Extra
         /\ forgotten' = forgotten + 1 => Extra' = Extra + MAX_ATTEMPTS
<1>1. forgotten \in Nat /\ MAX_ATTEMPTS \in Nat
  BY CommandsAssumption DEF TypeOK
<1> QED
  BY <1>1 DEF Extra

\* What appendHistory() does to the file.
LEMMA AppendFacts ==
  ASSUME TypeOK, NEW c \in Commands, NEW line \in Line, Append(c, line)
  PROVE  /\ saved' \in [Commands -> Line]
         /\ tail' = Ended
         /\ \A d \in Commands : d # c => saved'[d] = saved[d]
         /\ tail.kind = "ended" => saved'[c] = line
         /\ tail.kind # "ended" => saved' = saved
  BY DEF Append, TypeOK

LEMMA ReportFacts ==
  ASSUME TypeOK, command \in Commands, NEW status \in Reports, Report(status)
  PROVE  /\ requests' \in SUBSET Request
         /\ \A request \in requests' :
              request \in requests \/ (request.command = command /\ request.status = status)
<1> DEFINE sent == [command |-> command, status |-> status, checked |-> FALSE]
<1>1. sent \in Request /\ sent.command = command /\ sent.status = status
  BY DEF Request
<1>2. requests' = requests \/ requests' = requests \cup {sent}
  BY DEF Report
<1> HIDE DEF sent
<1> QED
  BY <1>1, <1>2 DEF TypeOK

LEMMA StatusFacts == Outcomes \cup {"open"} = Reports
  BY DEF Outcomes, Reports, RowStatuses

LEMMA LoadedType == ASSUME TypeOK, NEW c \in Commands PROVE Loaded(c) \in Line
  BY DEF Loaded, TypeOK, Tail

LEMMA InitIInv == Init => IInv
<1> SUFFICES ASSUME Init PROVE IInv
  OBVIOUS
<1>1. 0 \in Nat
  OBVIOUS
<1>2. TypeOK
  BY <1>1, LineFacts, TailFacts DEF Init, TypeOK, Phases
<1>3. saved = [c \in Commands |-> NoLine] /\ executed = [c \in Commands |-> 0]
      /\ tail.kind = "ended" /\ tail.line = NoLine /\ phase = "idle" /\ forgotten = 0
  BY TailFacts DEF Init
<1>4. Extra = 0 /\ MAX_ATTEMPTS \in Nat
  BY <1>3, CommandsAssumption DEF Extra
<1>5. Counts
  BY <1>1, <1>3, <1>4, LineFacts
  DEF Counts, AttemptsBounded, SavedCounts, TailCounts, KnownCounts, StartRecorded, Handling
<1>6. Conclusions
  BY <1>3 DEF Init, Conclusions, OpenAtHand, RequestsRecorded, ReportedIsRecorded, Handling
<1>7. Issued
  BY DEF Init, Issued
<1> QED
  BY <1>2, <1>5, <1>6, <1>7 DEF IInv

-----------------------------------------------------------------------------
(* Types *)

LEMMA TypeStep == ASSUME TypeOK, Issued, Next PROVE TypeOK'
<1> USE CommandsAssumption
<1>1. CASE \E o \in Operators : Ask(o)
  BY <1>1 DEF TypeOK, Ask, file, player, history
<1>2. ASSUME Insert PROVE /\ row' \in [Commands -> RowStatuses \cup {"none"}]
                         /\ \A c, d \in Commands : c < d /\ row'[c] = "none" => row'[d] = "none"
  <2>1. PICK c \in Commands : /\ row[c] = "none"
                              /\ \A d \in Commands : d < c => row[d] # "none"
                              /\ row' = [row EXCEPT ![c] = "PENDING"]
    BY <1>2 DEF Insert
  <2>2. Commands \subseteq Int
    BY DEF Commands
  <2> QED
    BY <2>1, <2>2 DEF TypeOK, RowStatuses
<1>3. CASE \E o \in Operators : Issue(o)
  BY <1>2, <1>3 DEF TypeOK, Issue, Insert, file, player, history
<1>4. CASE IssueCancel
  BY <1>2, <1>4 DEF TypeOK, IssueCancel, Insert, file, player, history
<1>5. CASE \E c \in Commands : Expire(c)
  BY <1>5 DEF TypeOK, Expire, file, player, history
<1>6. ASSUME NEW request \in requests, Check(request) PROVE TypeOK'
  <2> DEFINE read == [request EXCEPT !.checked = TRUE]
  <2>1. read \in Request
    BY DEF TypeOK, Request
  <2>2. requests' = requests \ {request} \/ requests' = (requests \ {request}) \cup {read}
    BY <1>6 DEF Check
  <2> HIDE DEF read
  <2> QED
    BY <1>6, <2>1, <2>2 DEF TypeOK, Check, server, file, player, history
<1>7. ASSUME NEW request \in requests, Update(request) PROVE TypeOK'
  <2>1. /\ request.command \in Commands /\ row[request.command] # "none"
        /\ request.status \in RowStatuses /\ request.status # "none"
    BY DEF TypeOK, Issued, Request, Reports, RowStatuses
  <2>2. row' = [row EXCEPT ![request.command] = request.status]
    BY <1>7 DEF Update
  <2>3. \A c, d \in Commands : c < d /\ row'[c] = "none" => row'[d] = "none"
    BY <2>1, <2>2 DEF TypeOK
  <2>4. row' \in [Commands -> RowStatuses \cup {"none"}]
    BY <2>1, <2>2 DEF TypeOK
  <2> QED
    BY <1>7, <2>3, <2>4 DEF TypeOK, Update, file, player, history
<1>8. ASSUME NEW request \in requests, UpdateFails(request) PROVE TypeOK'
  BY <1>8 DEF TypeOK, UpdateFails, server, file, player, history
<1>9. ASSUME NEW c \in Commands, Load(c) \/ LoadNothing(c) PROVE TypeOK'
  <2>1. known' \in Line /\ forgotten' \in Nat /\ faults' \in Nat
    BY <1>9, LoadedType, LineFacts DEF Load, LoadNothing, TypeOK, Fault
  <2>2. Fetch(c)
    BY <1>9 DEF Load, LoadNothing
  <2> QED
    BY <2>1, <2>2 DEF TypeOK, Fetch, server, file, Phases
<1>10. ASSUME NEW line \in Line, Append(command, line), command \in Commands
       PROVE  saved' \in [Commands -> Line] /\ tail' \in Tail
  BY <1>10, AppendFacts, TailFacts
<1>11. ASSUME NEW next \in {"idle", "down"}, Leave(next)
       PROVE  /\ phase' \in Phases /\ command' = 0 /\ known' \in Line
              /\ phase' \in {"idle", "down"}
  BY <1>11, LineFacts DEF Leave, Phases
<1>12. phase \in {"loaded", "acknowledged", "starting", "executing"} => command \in Commands
  BY DEF TypeOK
<1>13. known \in Line
  BY DEF TypeOK
<1>14. CASE Skip
  <2>1. requests' \in SUBSET Request
    BY <1>12, <1>14, ReportFacts, StatusFacts DEF Skip, Done, TypeOK, Outcomes
  <2> QED
    BY <1>11, <1>14, <2>1 DEF TypeOK, Skip, server, file, history
<1>15. CASE MarkExpired
  BY <1>10, <1>11, <1>12, <1>13, <1>15, LinesAtHand DEF TypeOK, MarkExpired, server, history
<1>16. CASE MarkPoison
  <2>1. requests' \in SUBSET Request
    BY <1>12, <1>16, ReportFacts, StatusFacts DEF MarkPoison, Outcomes
  <2> QED
    BY <1>10, <1>11, <1>12, <1>13, <1>16, <2>1, LinesAtHand DEF TypeOK, MarkPoison, server, history
<1>17. CASE Acknowledge \/ Start
  <2>1. requests' \in SUBSET Request
    BY <1>12, <1>17, ReportFacts, StatusFacts DEF Acknowledge, Start
  <2> QED
    BY <1>10, <1>12, <1>13, <1>17, <2>1, LinesAtHand
    DEF TypeOK, Acknowledge, Start, server, history, Phases
<1>18. CASE Execute
  BY <1>12, <1>18 DEF TypeOK, Execute, server, file, Phases
<1>19. ASSUME NEW status \in Outcomes, Finish(status) PROVE TypeOK'
  <2>1. requests' \in SUBSET Request
    BY <1>12, <1>19, ReportFacts, StatusFacts DEF Finish
  <2> QED
    BY <1>10, <1>11, <1>12, <1>13, <1>19, <2>1, LinesAtHand DEF TypeOK, Finish, server, history
<1>20. CASE AppendFails
  <2>1. PICK line \in Lines : tail' \in {tail, Torn, Uncut(line)}
    BY <1>20 DEF AppendFails
  <2>2. command \in Commands /\ line \in Line
    BY <1>12, <1>13, LinesAtHand DEF Lines
  <2>3. tail' \in Tail
    BY <2>1, <2>2, TailFacts DEF Uncut, TypeOK
  <2> QED
    BY <1>11, <1>20, <2>3 DEF TypeOK, AppendFails, Fault, server, history
<1>21. CASE Crash
  BY <1>11, <1>21 DEF TypeOK, Crash, Fault, server, file, history
<1>22. CASE PowerCut
  <2>1. \A c \in Commands : Older(c) \subseteq Line
    BY LineFacts DEF Older, TypeOK, Line
  <2>2. saved' \in [Commands -> Line] /\ tail' \in Tail
    BY <1>22, <2>1, TailFacts DEF PowerCut
  <2> QED
    BY <1>11, <1>22, <2>2 DEF TypeOK, PowerCut, Fault, server, history
<1>23. CASE Restart
  BY <1>23 DEF TypeOK, Restart, server, file, history, Phases
<1> QED
  BY <1>1, <1>3, <1>4, <1>5, <1>6, <1>7, <1>8, <1>9, <1>14, <1>15, <1>16, <1>17, <1>18, <1>19,
     <1>20, <1>21, <1>22, <1>23
  DEF Next, Handle, Routes, Failures

\* No row is ever removed.
LEMMA IssuedStep == ASSUME TypeOK, Issued, Next PROVE Issued'
<1>1. \A c \in Commands : row[c] # "none" => row'[c] # "none"
  <2>1. ASSUME NEW request \in requests, Update(request)
        PROVE  \A c \in Commands : row[c] # "none" => row'[c] # "none"
    <3>1. request.status # "none"
      BY DEF TypeOK, Request, Reports, RowStatuses
    <3> QED
      BY <2>1, <3>1 DEF Update, TypeOK
  <2>2. Insert => \A c \in Commands : row[c] # "none" => row'[c] # "none"
    BY DEF Insert, TypeOK
  <2>3. UNCHANGED row => \A c \in Commands : row[c] # "none" => row'[c] # "none"
    OBVIOUS
  <2>4. Handle \/ Failures \/ Restart => UNCHANGED row
    BY DEF Handle, Failures, Restart, Load, LoadNothing, Fetch, Skip, MarkExpired, MarkPoison,
           Acknowledge, Start, Execute, Finish, AppendFails, Crash, PowerCut, server
  <2>5. Routes => UNCHANGED row \/ Insert \/ \E request \in requests : Update(request)
    BY DEF Routes, Ask, Issue, IssueCancel, Expire, Check, UpdateFails, server
  <2> QED
    BY <2>1, <2>2, <2>3, <2>4, <2>5 DEF Next
<1>2. phase' \notin {"down", "idle"} => command' \in Commands /\ row[command'] # "none"
  <2>1. ASSUME NEW c \in Commands, Fetch(c) PROVE command' \in Commands /\ row[command'] # "none"
    BY <2>1 DEF Fetch, Oldest, Offered
  <2>2. Routes => UNCHANGED <<phase, command>>
    BY DEF Routes, Ask, Issue, IssueCancel, Insert, Expire, Check, Update, UpdateFails, player
  <2>3. Acknowledge \/ Start \/ Execute => UNCHANGED command /\ phase \notin {"down", "idle"}
    BY DEF Acknowledge, Start, Execute
  <2>4. (\E next \in {"idle", "down"} : Leave(next)) => phase' \in {"down", "idle"}
    BY DEF Leave
  <2>5. ASSUME NEW status \in Outcomes, Finish(status) PROVE phase' \in {"down", "idle"}
    BY <2>4, <2>5 DEF Finish
  <2>6. Skip \/ MarkExpired \/ MarkPoison \/ AppendFails \/ Crash \/ PowerCut \/ Restart
        => phase' \in {"down", "idle"}
    BY <2>4 DEF Skip, MarkExpired, MarkPoison, AppendFails, Crash, PowerCut, Restart
  <2>7. phase \notin {"down", "idle"} => command \in Commands /\ row[command] # "none"
    BY DEF TypeOK, Issued
  <2> QED
    BY <2>1, <2>2, <2>3, <2>5, <2>6, <2>7
    DEF Next, Handle, Failures, Load, LoadNothing
<1>3. ASSUME NEW request \in requests'
      PROVE  request.command \in Commands /\ row[request.command] # "none"
  <2>1. \A old \in requests : old.command \in Commands /\ row[old.command] # "none"
    BY DEF TypeOK, Issued, Request
  <2>2. ASSUME NEW old \in requests, Check(old) PROVE \E was \in requests : request.command = was.command
    <3> DEFINE read == [old EXCEPT !.checked = TRUE]
    <3>1. read.command = old.command
      BY DEF TypeOK, Request
    <3>2. request \in requests \/ request = read
      BY <1>3, <2>2 DEF Check
    <3> HIDE DEF read
    <3> QED
      BY <3>1, <3>2
  <2>3. ASSUME NEW old \in requests, Update(old) \/ UpdateFails(old) PROVE request \in requests
    BY <1>3, <2>3 DEF Update, UpdateFails
  <2>4. ASSUME Handle PROVE request \in requests \/ (request.command = command /\ phase \notin {"down", "idle"})
    <3>1. ASSUME NEW status \in Reports, Report(status), command \in Commands
          PROVE request \in requests \/ request.command = command
      BY <1>3, <3>1, ReportFacts
    <3>2. Acknowledge \/ Start \/ MarkPoison \/ Skip \/ (\E status \in Outcomes : Finish(status))
          => phase \notin {"down", "idle"}
      BY DEF Acknowledge, Start, MarkPoison, Skip, Done, Finish
    <3>3. phase \notin {"down", "idle"} => command \in Commands
      BY DEF TypeOK
    <3>4. Acknowledge \/ Start \/ MarkPoison \/ Skip \/ (\E status \in Outcomes : Finish(status))
          => UNCHANGED requests \/ \E status \in Reports : Report(status)
      BY StatusFacts DEF Acknowledge, Start, MarkPoison, Skip, Finish, Outcomes
    <3>5. (\E c \in Commands : Load(c)) \/ MarkExpired \/ Execute => UNCHANGED requests
      BY DEF Load, Fetch, MarkExpired, Execute
    <3> QED
      BY <1>3, <2>4, <3>1, <3>2, <3>3, <3>4, <3>5 DEF Handle
  <2>5. Failures \/ Restart => UNCHANGED requests
    BY DEF Failures, Restart, LoadNothing, Fetch, AppendFails, Crash, PowerCut
  <2>6. Routes => UNCHANGED requests \/ \E old \in requests : Check(old) \/ Update(old) \/ UpdateFails(old)
    BY DEF Routes, Ask, Issue, IssueCancel, Insert, Expire
  <2>7. phase \notin {"down", "idle"} => command \in Commands /\ row[command] # "none"
    BY DEF TypeOK, Issued
  <2> QED
    BY <1>3, <2>1, <2>2, <2>3, <2>4, <2>5, <2>6, <2>7 DEF Next
<1> QED
  BY <1>1, <1>2, <1>3 DEF Issued

-----------------------------------------------------------------------------
(* Executions are counted *)

\* The lines appendHistory() is called with cover the executions of the command at hand.
LEMMA LineCounts ==
  ASSUME TypeOK, Counts
  PROVE  /\ phase = "loaded" => executed[command] =< known.attempts + Extra
                               /\ known.attempts =< MAX_ATTEMPTS
         /\ phase \in {"loaded", "acknowledged", "starting", "executing"} =>
              executed[command] =< known.attempts + 1 + Extra
         /\ Handling => known.attempts + 1 =< MAX_ATTEMPTS
<1>1. phase \in {"loaded", "acknowledged", "starting", "executing"} => executed[command] \in Nat
  BY DEF TypeOK
<1>2. known.attempts \in Nat /\ Extra \in Nat /\ MAX_ATTEMPTS \in Nat
  BY ExtraFacts, CommandsAssumption DEF TypeOK, Line
<1> QED
  BY <1>1, <1>2 DEF Counts, KnownCounts, AttemptsBounded, Handling

LEMMA AppendCounts ==
  ASSUME TypeOK, Counts, command \in Commands, NEW line \in Line, Append(command, line),
         line.attempts =< MAX_ATTEMPTS, executed[command] =< line.attempts + Extra,
         UNCHANGED history
  PROVE  /\ SavedCounts' /\ TailCounts'
         /\ \A c \in Commands : saved'[c].attempts =< MAX_ATTEMPTS
         /\ tail'.kind = "ended" /\ tail'.line.attempts =< MAX_ATTEMPTS
<1>1. Extra' = Extra /\ executed' = executed
  BY ExtraFacts DEF history
<1>2. \A c \in Commands : saved'[c] = saved[c] \/ (c = command /\ saved'[c] = line)
  BY AppendFacts
<1>3. tail'.kind = "ended" /\ tail'.line.attempts = 0
  BY AppendFacts, TailFacts, LineFacts
<1> QED
  BY <1>1, <1>2, <1>3, CommandsAssumption DEF Counts, SavedCounts, TailCounts, AttemptsBounded

\* Without a command at hand only the file has to be looked at.
LEMMA IdleCounts ==
  ASSUME NEW next \in {"idle", "down"}, Leave(next)
  PROVE  KnownCounts' /\ StartRecorded' /\ ~Handling' /\ phase' # "loaded"
  BY DEF Leave, KnownCounts, StartRecorded, Handling

LEMMA CountsStep == ASSUME TypeOK, TypeOK', Counts, Next PROVE Counts'
<1> USE CommandsAssumption
<1>1. ASSUME UNCHANGED <<file, player, history>> PROVE Counts'
  BY <1>1, ExtraFacts
  DEF file, player, history, Counts, AttemptsBounded, SavedCounts, TailCounts, KnownCounts,
      StartRecorded, Handling
<1>2. ASSUME UNCHANGED <<file, history>>, phase' \in {"idle", "down"} PROVE Counts'
  BY <1>2, ExtraFacts
  DEF file, history, Counts, AttemptsBounded, SavedCounts, TailCounts, KnownCounts,
      StartRecorded, Handling
<1>3. Extra \in Nat
  BY ExtraFacts
<1>4. ASSUME NEW c \in Commands, Load(c) PROVE Counts'
  <2>1. Extra' = Extra /\ UNCHANGED <<file, executed>> /\ command' = c /\ phase' = "loaded"
    BY <1>4, ExtraFacts DEF Load, Fetch
  <2>2. known' = Loaded(c)
    BY <1>4 DEF Load
  <2>3. Loaded(c).attempts =< MAX_ATTEMPTS /\ executed[c] =< Loaded(c).attempts + Extra
    BY DEF Loaded, Counts, AttemptsBounded, SavedCounts, TailCounts
  <2> QED
    BY <2>1, <2>2, <2>3
    DEF file, Counts, AttemptsBounded, SavedCounts, TailCounts, KnownCounts, StartRecorded, Handling
<1>5. ASSUME NEW c \in Commands, LoadNothing(c) PROVE Counts'
  <2>1. UNCHANGED <<saved, tail, executed>> /\ command' = c /\ phase' = "loaded"
    BY <1>5 DEF LoadNothing, Fetch, file
  <2>2. known' = NoLine /\ known'.attempts = 0 /\ Extra' = Extra + MAX_ATTEMPTS
    BY <1>5, ExtraFacts, LineFacts DEF LoadNothing
  <2>3. \A d \in Commands : executed[d] \in Nat /\ saved[d].attempts \in Nat
    BY DEF TypeOK, Line
  <2>4. tail.line.attempts \in Nat
    BY DEF TypeOK, Tail, Line
  <2>5. AttemptsBounded'
    BY <2>1, <2>2 DEF Counts, AttemptsBounded, Handling
  <2>6. \A d \in Commands : executed[d] =< Extra + MAX_ATTEMPTS
    BY <1>3, <2>3 DEF Counts, SavedCounts, AttemptsBounded
  <2>7. SavedCounts'
    BY <1>3, <2>1, <2>2, <2>3, <2>6 DEF SavedCounts
  <2>8. TailCounts'
    BY <1>3, <2>1, <2>2, <2>3, <2>4, <2>6 DEF Counts, TailCounts
  <2>9. KnownCounts' /\ StartRecorded'
    BY <2>1, <2>2, <2>6 DEF KnownCounts, StartRecorded, Handling
  <2> QED
    BY <2>5, <2>7, <2>8, <2>9 DEF Counts
<1>6. CASE Skip \/ Crash \/ Restart
  BY <1>2, <1>6 DEF Skip, Crash, Restart, Leave
<1>7. known \in Line /\ known.attempts \in Nat
  BY DEF TypeOK, Line
<1>8. phase \in {"loaded", "acknowledged", "starting", "executing"} => command \in Commands
  BY DEF TypeOK
<1>9. CASE MarkExpired
  <2>1. executed[command] =< Late.attempts + Extra /\ Late.attempts =< MAX_ATTEMPTS
    BY <1>7, <1>9, LineCounts, LinesAtHand DEF MarkExpired
  <2> QED
    BY <1>7, <1>8, <1>9, <2>1, AppendCounts, IdleCounts, LinesAtHand
    DEF MarkExpired, Counts, AttemptsBounded
<1>10. CASE MarkPoison
  <2>1. executed[command] =< Poisoned.attempts + Extra /\ Poisoned.attempts =< MAX_ATTEMPTS
    BY <1>7, <1>10, LineCounts, LinesAtHand DEF MarkPoison
  <2> QED
    BY <1>7, <1>8, <1>10, <2>1, AppendCounts, IdleCounts, LinesAtHand
    DEF MarkPoison, Counts, AttemptsBounded
<1>11. CASE Acknowledge \/ Start
  <2>1. known.attempts < MAX_ATTEMPTS
    BY <1>11 DEF Acknowledge, Start, Counts, AttemptsBounded, Handling
  <2>2. executed[command] =< Attempt.attempts + Extra /\ Attempt.attempts =< MAX_ATTEMPTS
    BY <1>7, <1>11, <2>1, LineCounts, LinesAtHand DEF Acknowledge, Start
  <2>3. /\ Append(command, Attempt) /\ UNCHANGED <<command, known, history>>
        /\ command \in Commands /\ Attempt \in Line
    BY <1>7, <1>8, <1>11, LinesAtHand DEF Acknowledge, Start
  <2>4. /\ SavedCounts' /\ TailCounts' /\ tail'.kind = "ended"
        /\ \A c \in Commands : saved'[c].attempts =< MAX_ATTEMPTS
        /\ tail'.line.attempts =< MAX_ATTEMPTS
    BY <2>2, <2>3, AppendCounts
  <2>5. AttemptsBounded'
    BY <1>11, <2>1, <2>3, <2>4 DEF AttemptsBounded, Acknowledge, Start
  <2>6. KnownCounts'
    <3>1. executed[command] =< known.attempts + Extra
      BY <1>11 DEF Acknowledge, Start, Counts, KnownCounts
    <3>2. phase' \in {"acknowledged", "starting"} /\ Extra' = Extra /\ executed' = executed
      BY <1>11, <2>3, ExtraFacts DEF Acknowledge, Start, history
    <3> QED
      BY <2>3, <3>1, <3>2 DEF KnownCounts
  <2>7. StartRecorded'
    <3>1. CASE Acknowledge
      BY <2>4, <3>1 DEF Acknowledge, StartRecorded
    <3>2. CASE Start
      <4>1. tail.kind = "ended"
        BY <3>2 DEF Start, Counts, StartRecorded, Handling
      <4>2. saved'[command] = Attempt
        BY <2>3, <4>1, AppendFacts
      <4> QED
        BY <1>7, <2>3, <2>4, <4>2, LinesAtHand DEF StartRecorded
    <3> QED
      BY <1>11, <3>1, <3>2
  <2> QED
    BY <2>4, <2>5, <2>6, <2>7 DEF Counts
<1>12. CASE Execute
  <2>1. /\ UNCHANGED <<saved, tail, command, known, forgotten>> /\ phase' = "executing"
        /\ phase = "starting" /\ Extra' = Extra /\ command \in Commands
    BY <1>8, <1>12, ExtraFacts DEF Execute, file
  <2>2. /\ \A c \in Commands : c # command => executed'[c] = executed[c]
        /\ executed'[command] = executed[command] + 1
    BY <1>12, <2>1 DEF Execute, TypeOK
  <2>3. executed[command] \in Nat
    BY <2>1 DEF TypeOK
  <2>4. /\ executed[command] =< known.attempts + Extra
        /\ saved[command].attempts = known.attempts + 1 /\ tail.kind = "ended"
    BY <2>1 DEF Counts, KnownCounts, StartRecorded, Handling
  <2>5. executed'[command] =< known.attempts + 1 + Extra
    BY <1>3, <1>7, <2>2, <2>3, <2>4
  <2>6. SavedCounts'
    BY <2>1, <2>2, <2>4, <2>5 DEF Counts, SavedCounts
  <2>7. AttemptsBounded' /\ TailCounts' /\ KnownCounts' /\ StartRecorded'
    BY <2>1, <2>4, <2>5
    DEF Counts, AttemptsBounded, TailCounts, KnownCounts, StartRecorded, Handling
  <2> QED
    BY <2>6, <2>7 DEF Counts
<1>13. ASSUME NEW status \in Outcomes, Finish(status) PROVE Counts'
  <2>1. /\ executed[command] =< Final(status).attempts + Extra
        /\ Final(status).attempts =< MAX_ATTEMPTS
    BY <1>7, <1>13, LineCounts, LinesAtHand DEF Finish, Handling
  <2> QED
    BY <1>7, <1>8, <1>13, <2>1, AppendCounts, IdleCounts, LinesAtHand
    DEF Finish, Counts, AttemptsBounded
<1>14. CASE AppendFails
  <2>1. PICK line \in Lines : tail' \in {tail, Torn, Uncut(line)}
    BY <1>14 DEF AppendFails
  <2>2. /\ line \in Line /\ line.attempts =< MAX_ATTEMPTS /\ command \in Commands
        /\ executed[command] =< line.attempts + Extra
    BY <1>7, <1>8, LineCounts, LinesAtHand DEF Lines, Handling
  <2>3. /\ UNCHANGED saved /\ executed' = executed /\ Extra' = Extra
    BY <1>14, ExtraFacts DEF AppendFails, history
  <2>4. tail' = tail \/ tail' = Torn \/ tail' = Whole(command, line)
    BY <2>1 DEF Uncut
  <2>5. TailCounts' /\ tail'.line.attempts =< MAX_ATTEMPTS
    BY <2>2, <2>3, <2>4, TailFacts, LineFacts DEF Counts, TailCounts, AttemptsBounded
  <2> QED
    BY <1>14, <2>3, <2>5, IdleCounts DEF AppendFails, Counts, SavedCounts, AttemptsBounded
<1>15. CASE PowerCut
  <2>1. /\ executed' = executed /\ Extra' = Extra + MAX_ATTEMPTS
        /\ tail' \in {Ended, Torn} /\ \A c \in Commands : saved'[c] \in Older(c)
    BY <1>15, ExtraFacts DEF PowerCut
  <2>2. \A c \in Commands : saved[c].attempts \in Nat /\ executed[c] \in Nat
    BY DEF TypeOK, Line
  <2>3. \A c \in Commands : saved'[c].attempts \in Nat /\ saved'[c].attempts =< saved[c].attempts
    BY <2>1, <2>2, LineFacts DEF Older
  <2>4. \A c \in Commands : executed[c] =< Extra + MAX_ATTEMPTS
    BY <1>3, <2>2 DEF Counts, SavedCounts, AttemptsBounded
  <2>5. SavedCounts'
    BY <1>3, <2>1, <2>2, <2>3, <2>4 DEF SavedCounts
  <2>6. TailCounts' /\ tail'.line.attempts =< MAX_ATTEMPTS
    BY <2>1, TailFacts, LineFacts DEF TailCounts
  <2>7. \A c \in Commands : saved'[c].attempts =< MAX_ATTEMPTS
    BY <2>2, <2>3 DEF Counts, AttemptsBounded
  <2> QED
    BY <1>15, <2>5, <2>6, <2>7, IdleCounts DEF PowerCut, Counts, AttemptsBounded
<1>16. CASE Routes
  BY <1>1, <1>16
  DEF Routes, Ask, Issue, IssueCancel, Insert, Expire, Check, Update, UpdateFails
<1> QED
  BY <1>4, <1>5, <1>6, <1>9, <1>10, <1>11, <1>12, <1>13, <1>14, <1>15, <1>16
  DEF Next, Handle, Failures

-----------------------------------------------------------------------------
(* Conclusions stay *)

Kept == \A c \in Commands : saved[c].status \in Concluded =>
  saved'[c] = saved[c] /\ executed'[c] = executed[c]

\* A command for which appendHistory() is called next has no conclusion.
LEMMA OpenFacts ==
  ASSUME TypeOK, OpenAtHand, forgotten = 0, Handling \/ (phase = "loaded" /\ ~Done)
  PROVE  command \in Commands /\ saved[command].status \notin Concluded
<1>1. command \in Commands
  BY DEF TypeOK, Handling
<1>2. CASE Handling
  BY <1>1, <1>2 DEF OpenAtHand
<1>3. CASE phase = "loaded" /\ ~Done
  <2>1. known = Loaded(command) /\ known.status \notin Concluded
    BY <1>3 DEF OpenAtHand, Done
  <2> QED
    BY <1>1, <2>1 DEF Loaded, OpenAtHand
<1> QED
  BY <1>2, <1>3

LEMMA AppendKept ==
  ASSUME TypeOK, command \in Commands, saved[command].status \notin Concluded,
         NEW line \in Line, Append(command, line), executed' = executed
  PROVE  /\ Kept /\ tail'.kind = "ended"
         /\ saved'[command] = line \/ saved'[command] = saved[command]
<1>1. tail'.kind = "ended"
  BY AppendFacts, TailFacts
<1>2. \A c \in Commands : saved'[c] = saved[c] \/ (c = command /\ saved'[c] = line)
  BY AppendFacts
<1> QED
  BY <1>1, <1>2 DEF Kept

\* The conclusion itself: no step that forgets nothing changes a concluded line.
LEMMA KeptStep ==
  ASSUME TypeOK, TypeOK', Counts, OpenAtHand, Next, forgotten = 0, forgotten' = 0
  PROVE  Kept /\ OpenAtHand'
<1>1. ASSUME UNCHANGED <<file, player, history>> PROVE Kept /\ OpenAtHand'
  BY <1>1 DEF file, player, history, Kept, OpenAtHand, Handling, Loaded
<1>2. ASSUME UNCHANGED <<file, history>>, phase' \in {"idle", "down"} PROVE Kept /\ OpenAtHand'
  BY <1>2 DEF file, history, Kept, OpenAtHand, Handling
<1>3. ASSUME NEW c \in Commands, Load(c) PROVE Kept /\ OpenAtHand'
  BY <1>3 DEF Load, Fetch, file, Kept, OpenAtHand, Handling, Loaded
<1>4. ASSUME NEW c \in Commands, LoadNothing(c) PROVE FALSE
  BY <1>4 DEF LoadNothing, TypeOK
<1>5. CASE PowerCut
  BY <1>5 DEF PowerCut, TypeOK
<1>6. CASE Skip \/ Crash \/ Restart
  BY <1>2, <1>6 DEF Skip, Crash, Restart, Leave
<1>7. known \in Line
  BY DEF TypeOK
<1>8. ASSUME NEW line \in Line, Append(command, line), UNCHANGED history,
             Handling \/ (phase = "loaded" /\ ~Done), phase' \in {"idle", "down"}
      PROVE  Kept /\ OpenAtHand'
  BY <1>8, OpenFacts, AppendKept DEF history, OpenAtHand, Handling
<1>9. CASE MarkExpired
  BY <1>7, <1>8, <1>9, LinesAtHand DEF MarkExpired, Leave
<1>10. CASE MarkPoison
  BY <1>7, <1>8, <1>10, LinesAtHand DEF MarkPoison, Leave
<1>11. ASSUME NEW status \in Outcomes, Finish(status) PROVE Kept /\ OpenAtHand'
  BY <1>7, <1>8, <1>11, LinesAtHand DEF Finish, Leave, Handling
<1>12. CASE Acknowledge \/ Start
  <2>1. Handling \/ (phase = "loaded" /\ ~Done)
    BY <1>12 DEF Acknowledge, Start, Handling
  <2>2. /\ Append(command, Attempt) /\ UNCHANGED <<command, executed>>
        /\ phase' \in {"acknowledged", "starting"}
    BY <1>12 DEF Acknowledge, Start, history
  <2>3. Attempt \in Line /\ Attempt.status \notin Concluded
    <3>1. known.attempts + 1 \in Nat
      BY <1>7 DEF Line
    <3> QED
      BY <3>1, LineFacts DEF Attempt
  <2> QED
    BY <2>1, <2>2, <2>3, OpenFacts, AppendKept DEF OpenAtHand, Handling
<1>13. CASE Execute
  <2>1. Handling /\ UNCHANGED <<saved, tail, command>> /\ phase' = "executing"
    BY <1>13 DEF Execute, Handling, file
  <2>2. \A c \in Commands : c # command => executed'[c] = executed[c]
    BY <1>13 DEF Execute, TypeOK
  <2> QED
    BY <2>1, <2>2, OpenFacts DEF Kept, OpenAtHand, Handling
<1>14. CASE AppendFails
  <2>1. PICK line \in Lines : tail' \in {tail, Torn, Uncut(line)}
    BY <1>14 DEF AppendFails
  <2>2. Handling \/ (phase = "loaded" /\ ~Done)
    BY DEF Lines, Handling
  <2>3. line \in Line
    BY <1>7, LinesAtHand DEF Lines
  <2>4. tail' = tail \/ tail'.kind = "torn" \/ (tail'.kind = "whole" /\ tail'.command = command)
    BY <2>1, <2>2, <2>3, OpenFacts, TailFacts DEF Uncut
  <2>5. UNCHANGED <<saved, executed>> /\ phase' \in {"idle", "down"}
    BY <1>14 DEF AppendFails, Leave, history
  <2> QED
    BY <2>2, <2>4, <2>5, OpenFacts DEF Kept, OpenAtHand, Handling
<1>15. CASE Routes
  BY <1>1, <1>15
  DEF Routes, Ask, Issue, IssueCancel, Insert, Expire, Check, Update, UpdateFails
<1> QED
  BY <1>3, <1>4, <1>5, <1>6, <1>9, <1>10, <1>11, <1>12, <1>13, <1>14, <1>15
  DEF Next, Handle, Failures

-----------------------------------------------------------------------------
(* Reports are about what is recorded *)

LEMMA ReportsStep ==
  ASSUME TypeOK, TypeOK', Counts, OpenAtHand, RequestsRecorded, ReportedIsRecorded, Next, Kept,
         forgotten = 0, forgotten' = 0
  PROVE  RequestsRecorded' /\ ReportedIsRecorded'
<1>1. "COMPLETED" \in Concluded
  BY DEF Concluded
<1>2. \A request \in requests : request.command \in Commands
  BY DEF TypeOK, Request
<1>3. \A c \in Commands : saved[c].status = "COMPLETED" => saved'[c].status = "COMPLETED"
  BY <1>1 DEF Kept
<1>4. ASSUME \A request \in requests' : request \in requests
      PROVE  RequestsRecorded'
  BY <1>2, <1>3, <1>4 DEF RequestsRecorded
<1>5. UNCHANGED row => ReportedIsRecorded'
  BY <1>3 DEF ReportedIsRecorded
<1>6. ASSUME NEW status \in {"open", "FAILED"}, Report(status), command \in Commands
      PROVE  RequestsRecorded'
  <2>1. \A request \in requests' : request \in requests \/ request.status # "COMPLETED"
    BY <1>6, ReportFacts, StatusFacts DEF Outcomes
  <2> QED
    BY <1>2, <1>3, <2>1 DEF RequestsRecorded
<1>7. phase \in {"loaded", "acknowledged", "executing"} => command \in Commands
  BY DEF TypeOK
<1>8. known \in Line
  BY DEF TypeOK
<1>9. CASE Handle
  <2>1. UNCHANGED row
    BY <1>9 DEF Handle, Load, Fetch, Skip, MarkExpired, MarkPoison, Acknowledge, Start, Execute,
                Finish, server
  <2>2. CASE Skip \/ MarkPoison \/ Acknowledge \/ Start
    <3>1. command \in Commands
      BY <1>7, <2>2 DEF Skip, Done, MarkPoison, Acknowledge, Start
    <3>2. UNCHANGED requests \/ Report("FAILED") \/ Report("open")
      BY <2>2 DEF Skip, MarkPoison, Acknowledge, Start
    <3> QED
      BY <1>4, <1>5, <1>6, <2>1, <3>1, <3>2
  <2>3. ASSUME Finish("COMPLETED") PROVE RequestsRecorded'
    <3>1. command \in Commands /\ tail.kind = "ended"
      BY <1>7, <2>3 DEF Finish, Counts, StartRecorded, Handling
    <3>2. Append(command, Final("COMPLETED")) /\ Final("COMPLETED") \in Line
      BY <1>8, <2>3, LinesAtHand DEF Finish, Outcomes
    <3>3. saved'[command].status = "COMPLETED"
      BY <1>8, <3>1, <3>2, AppendFacts, LinesAtHand
    <3>4. \A request \in requests' : request \in requests \/ request.command = command
      BY <2>3, <3>1, ReportFacts, StatusFacts DEF Finish, Outcomes
    <3> QED
      BY <1>2, <1>3, <3>3, <3>4 DEF RequestsRecorded
  <2>4. ASSUME Finish("FAILED") PROVE RequestsRecorded'
    BY <1>6, <1>7, <2>4 DEF Finish
  <2>5. CASE (\E c \in Commands : Load(c)) \/ MarkExpired \/ Execute
    BY <1>4, <1>5, <2>1, <2>5 DEF Load, Fetch, MarkExpired, Execute
  <2> QED
    BY <1>5, <1>9, <2>1, <2>2, <2>3, <2>4, <2>5 DEF Handle, Outcomes
<1>10. CASE Failures \/ Restart
  BY <1>4, <1>5, <1>10
  DEF Failures, Restart, LoadNothing, Fetch, AppendFails, Crash, PowerCut, server
<1>11. UNCHANGED <<saved, forgotten>> /\ UNCHANGED requests /\ Insert => ReportedIsRecorded'
  BY DEF ReportedIsRecorded, Insert, TypeOK
<1>12. CASE \E o \in Operators : Ask(o)
  BY <1>4, <1>5, <1>12 DEF Ask
<1>13. CASE IssueCancel \/ \E o \in Operators : Issue(o)
  BY <1>4, <1>11, <1>13 DEF IssueCancel, Issue, Insert, file, history
<1>14. CASE \E c \in Commands : Expire(c)
  BY <1>4, <1>5, <1>14 DEF Expire
<1>15. ASSUME NEW request \in requests, Check(request)
       PROVE  RequestsRecorded' /\ ReportedIsRecorded'
  <2> DEFINE read == [request EXCEPT !.checked = TRUE]
  <2>1. read.command = request.command /\ read.status = request.status
    BY DEF TypeOK, Request
  <2>2. \A other \in requests' : other \in requests \/ other = read
    BY <1>15 DEF Check
  <2>3. UNCHANGED <<row, saved>>
    BY <1>15 DEF Check, server, file
  <2> HIDE DEF read
  <2> QED
    BY <1>5, <2>1, <2>2, <2>3 DEF RequestsRecorded
<1>16. ASSUME NEW request \in requests, Update(request)
       PROVE  RequestsRecorded' /\ ReportedIsRecorded'
  <2>1. \A c \in Commands : row'[c] = row[c] \/ (c = request.command /\ row'[c] = request.status)
    BY <1>16 DEF Update, TypeOK
  <2>2. request.status = "COMPLETED" => saved[request.command].status = "COMPLETED"
    BY DEF RequestsRecorded
  <2>3. ReportedIsRecorded'
    BY <1>2, <1>3, <2>1, <2>2 DEF ReportedIsRecorded
  <2> QED
    BY <1>4, <1>16, <2>3 DEF Update
<1>17. ASSUME NEW request \in requests, UpdateFails(request)
       PROVE  RequestsRecorded' /\ ReportedIsRecorded'
  BY <1>4, <1>5, <1>17 DEF UpdateFails, server
<1> QED
  BY <1>9, <1>10, <1>12, <1>13, <1>14, <1>15, <1>16, <1>17 DEF Next, Routes

-----------------------------------------------------------------------------
(* The invariant and the theorems *)

LEMMA InvStep == ASSUME IInv, Next PROVE IInv'
<1>1. TypeOK' /\ Issued'
  BY TypeStep, IssuedStep DEF IInv
<1>2. Counts'
  BY <1>1, CountsStep DEF IInv
<1>3. CASE forgotten' = 0
  <2>1. forgotten = 0
    <3>1. forgotten \in Nat /\ (UNCHANGED forgotten \/ forgotten' = forgotten + 1)
      BY DEF IInv, TypeOK, Next, Handle, Routes, Failures, Load, Skip, MarkExpired, MarkPoison,
             Acknowledge, Start, Execute, Finish, LoadNothing, AppendFails, Crash, PowerCut,
             Restart, Ask, Issue, IssueCancel, Insert, Expire, Check, Update, UpdateFails, history
    <3> QED
      BY <1>3, <3>1
  <2>2. Kept /\ OpenAtHand'
    BY <1>1, <1>3, <2>1, KeptStep DEF IInv, Conclusions
  <2>3. RequestsRecorded' /\ ReportedIsRecorded'
    BY <1>1, <1>3, <2>1, <2>2, ReportsStep DEF IInv, Conclusions
  <2> QED
    BY <1>1, <1>2, <2>2, <2>3 DEF IInv, Conclusions
<1>4. CASE forgotten' # 0
  BY <1>1, <1>2, <1>4 DEF IInv, Conclusions, OpenAtHand, RequestsRecorded, ReportedIsRecorded
<1> QED
  BY <1>3, <1>4

LEMMA InvStutter == ASSUME IInv, UNCHANGED vars PROVE IInv'
  BY DEF vars, server, file, player, history, IInv, TypeOK, Issued, Counts, Conclusions,
         AttemptsBounded, SavedCounts, TailCounts, KnownCounts, StartRecorded, OpenAtHand,
         RequestsRecorded, ReportedIsRecorded, Handling, Extra, Loaded

THEOREM InvHolds == Spec => []IInv
<1>1. IInv /\ [Next]_vars => IInv'
  BY InvStep, InvStutter
<1> QED
  BY <1>1, InitIInv, PTL DEF Spec

\* Every reachable state is well typed, and rows are issued in the order of created_at.
THEOREM TypeCorrect == Spec => []TypeOK
<1>1. IInv => TypeOK
  BY DEF IInv
<1> QED
  BY <1>1, InvHolds, PTL

\* Whatever dies, fails or is cut short, and for any MAX_ATTEMPTS, a command is executed at
\* most MAX_ATTEMPTS times, and as many again for each history that was lost.
THEOREM AttemptsLimited == Spec => []BoundedAttempts
<1>1. IInv => BoundedAttempts
  <2> SUFFICES ASSUME IInv, NEW c \in Commands
               PROVE  executed[c] =< MAX_ATTEMPTS * (1 + forgotten)
    BY DEF BoundedAttempts
  <2>1. executed[c] =< saved[c].attempts + Extra /\ saved[c].attempts =< MAX_ATTEMPTS
    BY DEF IInv, Counts, SavedCounts, AttemptsBounded
  <2>2. saved[c].attempts \in Nat /\ executed[c] \in Nat /\ forgotten \in Nat
    BY DEF IInv, TypeOK, Line
  <2>3. MAX_ATTEMPTS \in Nat
    BY CommandsAssumption
  <2>4. MAX_ATTEMPTS * (1 + forgotten) = MAX_ATTEMPTS + Extra /\ Extra \in Nat
    BY <2>2, <2>3 DEF Extra
  <2> QED
    BY <2>1, <2>2, <2>3, <2>4
<1> QED
  BY <1>1, InvHolds, PTL

\* A command that the table has as COMPLETED is COMPLETED in the history of the device, for
\* any delay and order of the status requests, unless history was lost.
THEOREM ReportsAreRecorded == Spec => []ReportedIsRecorded
<1>1. IInv => ReportedIsRecorded
  BY DEF IInv, Conclusions
<1> QED
  BY <1>1, InvHolds, PTL

\* What the history has as concluded it keeps, and the command is not executed again, unless
\* history was lost.
THEOREM ConclusionsStay == Spec => ConcludedStays
<1> DEFINE A == \A c \in Commands :
                  forgotten' = 0 /\ saved[c].status \in Concluded =>
                    saved'[c] = saved[c] /\ executed'[c] = executed[c]
<1>1. ASSUME IInv, IInv', Next PROVE A
  <2>1. CASE forgotten' = 0
    <3>1. forgotten = 0
      <4>1. forgotten \in Nat /\ (UNCHANGED forgotten \/ forgotten' = forgotten + 1)
        BY <1>1 DEF IInv, TypeOK, Next, Handle, Routes, Failures, Load, Skip, MarkExpired,
               MarkPoison, Acknowledge, Start, Execute, Finish, LoadNothing, AppendFails, Crash,
               PowerCut, Restart, Ask, Issue, IssueCancel, Insert, Expire, Check, Update,
               UpdateFails, history
      <4> QED
        BY <2>1, <4>1
    <3>2. Kept
      BY <1>1, <2>1, <3>1, KeptStep DEF IInv, Conclusions
    <3> QED
      BY <3>2 DEF Kept
  <2>2. CASE forgotten' # 0
    BY <2>2
  <2> QED
    BY <2>1, <2>2
<1>2. IInv /\ IInv' /\ [Next]_vars => [A]_vars
  BY <1>1
<1> QED
  BY <1>2, InvHolds, PTL DEF Spec, ConcludedStays

\* A command never ran more often than the last whole line of the device says, whatever was
\* torn or died, as long as no history was lost: the line is always written ahead.
THEOREM ExecutionsAreWrittenAhead == Spec => []ExecutionsAreSaved
<1>1. IInv => ExecutionsAreSaved
  <2> SUFFICES ASSUME IInv, forgotten = 0, NEW c \in Commands
               PROVE  executed[c] =< saved[c].attempts
    BY DEF ExecutionsAreSaved
  <2>1. saved[c].attempts \in Nat /\ executed[c] \in Nat /\ MAX_ATTEMPTS \in Nat
    BY CommandsAssumption DEF IInv, TypeOK, Line
  <2>2. Extra = 0
    BY <2>1 DEF Extra
  <2> QED
    BY <2>1, <2>2 DEF IInv, Counts, SavedCounts
<1> QED
  BY <1>1, InvHolds, PTL

-----------------------------------------------------------------------------
(* What the table offers *)

\* A row leaves PENDING for good, and a new one was "none"; the player takes up what is offered.
LEMMA RetiredStep ==
  ASSUME IInv, Next, NEW c \in Commands, Retired(c)
  PROVE  Retired(c)' /\ executed'[c] = executed[c]
<1> USE DEF Retired, Offered
<1>1. row \in [Commands -> RowStatuses \cup {"none"}] /\ executed \in [Commands -> Nat]
  BY DEF IInv, TypeOK
<1>2. CASE UNCHANGED <<row, expired, command, executed>>
  BY <1>2
<1>3. ASSUME NEW d \in Commands, Fetch(d) PROVE Retired(c)' /\ executed'[c] = executed[c]
  BY <1>3 DEF Fetch, Oldest, server
<1>4. CASE \/ Skip \/ MarkExpired \/ MarkPoison \/ AppendFails \/ Crash \/ PowerCut
           \/ \E status \in Outcomes : Finish(status)
  <2>1. command' = 0 /\ UNCHANGED <<row, expired, executed>>
    BY <1>4 DEF Skip, MarkExpired, MarkPoison, AppendFails, Crash, PowerCut, Finish, Leave,
                server, history
  <2>2. c # 0
    BY DEF Commands
  <2> QED
    BY <2>1, <2>2
<1>5. CASE Acknowledge \/ Start \/ Restart
  BY <1>2, <1>5 DEF Acknowledge, Start, Restart, server, player, history
<1>6. CASE Execute
  <2>1. UNCHANGED <<row, expired, command>> /\ executed' = [executed EXCEPT ![command] = @ + 1]
    BY <1>6 DEF Execute, server
  <2> QED
    BY <1>1, <2>1
<1>7. CASE Insert
  <2>1. UNCHANGED <<expired, command, executed>>
    BY <1>7 DEF Insert, player, history
  <2>2. row'[c] = row[c]
    BY <1>1, <1>7 DEF Insert
  <2> QED
    BY <2>1, <2>2
<1>8. ASSUME NEW o \in Operators, Ask(o) PROVE Retired(c)' /\ executed'[c] = executed[c]
  BY <1>2, <1>8 DEF Ask, player, history
<1>9. ASSUME NEW d \in Commands, Expire(d) PROVE Retired(c)' /\ executed'[c] = executed[c]
  BY <1>9 DEF Expire, player, history
<1>10. ASSUME NEW request \in requests, Check(request) \/ UpdateFails(request)
       PROVE  Retired(c)' /\ executed'[c] = executed[c]
  BY <1>2, <1>10 DEF Check, UpdateFails, server, player, history
<1>11. ASSUME NEW request \in requests, Update(request)
       PROVE  Retired(c)' /\ executed'[c] = executed[c]
  <2>1. UNCHANGED <<expired, command, executed>>
    BY <1>11 DEF Update, player, history
  <2>2. request.status \in Reports
    BY DEF IInv, TypeOK, Request
  <2>3. row'[c] \in {row[c]} \cup Reports
    BY <1>1, <1>11, <2>2 DEF Update
  <2> QED
    BY <2>1, <2>3 DEF Reports, RowStatuses
<1> QED
  BY <1>3, <1>4, <1>5, <1>6, <1>7, <1>8, <1>9, <1>10, <1>11
  DEF Next, Handle, Routes, Failures, Load, LoadNothing, Issue, IssueCancel

\* Once a command was answered or has expired and the player is done with it, it is never
\* offered or executed again, under any crash, lost history or late and reordered request.
THEOREM RetiredCommandsStay == Spec => RetiredStays
<1>1. IInv /\ [Next]_vars =>
        [\A c \in Commands : Retired(c) => Retired(c)' /\ executed'[c] = executed[c]]_vars
  BY RetiredStep
<1> QED
  BY <1>1, InvHolds, PTL DEF Spec, RetiredStays

Pending == {c \in Commands : Offered(c)}

\* Each pending command took the turn of an operator who had found none.
PendingInv == Cardinality(Pending) + Cardinality(asked) =< Cardinality(Operators)

NoCancel == ~IssueCancel

LEMMA PendingFinite ==
  ASSUME IInv, IsFiniteSet(Operators)
  PROVE  /\ IsFiniteSet(Pending) /\ Cardinality(Pending) \in Nat
         /\ IsFiniteSet(asked) /\ Cardinality(asked) \in Nat
         /\ Cardinality(Operators) \in Nat
<1>1. IsFiniteSet(Commands)
  BY CommandsAssumption, FS_Interval DEF Commands
<1>2. Pending \subseteq Commands /\ asked \subseteq Operators
  BY DEF Pending, IInv, TypeOK
<1> QED
  BY <1>1, <1>2, FS_Subset, FS_CardinalityType

LEMMA PendingStep ==
  ASSUME IsFiniteSet(Operators)
  PROVE  IInv /\ IInv' /\ PendingInv /\ [Next]_vars /\ [NoCancel]_vars => PendingInv'
<1> SUFFICES ASSUME IInv, IInv', PendingInv, [Next]_vars, [NoCancel]_vars PROVE PendingInv'
  OBVIOUS
<1> DEFINE P == Cardinality(Pending)
           A == Cardinality(asked)
           N == Cardinality(Operators)
<1>1. /\ IsFiniteSet(Pending) /\ P \in Nat /\ IsFiniteSet(asked) /\ A \in Nat /\ N \in Nat
      /\ P + A =< N
  BY PendingFinite DEF PendingInv
<1>2. row \in [Commands -> RowStatuses \cup {"none"}] /\ asked' \subseteq Operators
  BY DEF IInv, TypeOK
<1>3. ASSUME Pending' \subseteq Pending, asked' \subseteq asked PROVE PendingInv'
  <2>1. /\ Cardinality(Pending') =< P /\ Cardinality(Pending') \in Nat
        /\ Cardinality(asked') =< A /\ Cardinality(asked') \in Nat
    BY <1>1, <1>3, FS_Subset, FS_CardinalityType
  <2> QED
    BY <1>1, <2>1 DEF PendingInv
<1>4. CASE UNCHANGED <<row, expired, asked>>
  BY <1>3, <1>4 DEF Pending, Offered
<1>5. ASSUME NEW o \in Operators, Ask(o) PROVE PendingInv'
  <2>1. Pending' = {}
    BY <1>5 DEF Ask, Pending, Offered
  <2>2. Cardinality(asked') =< N /\ Cardinality(asked') \in Nat
    BY <1>2, FS_Subset, FS_CardinalityType
  <2>3. Cardinality(Pending') = 0
    BY <2>1, FS_EmptySet
  <2> QED
    BY <1>1, <2>2, <2>3 DEF PendingInv
<1>6. ASSUME NEW o \in Operators, Issue(o) PROVE PendingInv'
  <2>1. PICK c \in Commands : row' = [row EXCEPT ![c] = "PENDING"] /\ expired' = expired
    BY <1>6 DEF Issue, Insert
  <2>2. Pending' \subseteq Pending \cup {c}
    BY <1>2, <2>1 DEF Pending, Offered
  <2>3. Cardinality(Pending \cup {c}) =< P + 1 /\ IsFiniteSet(Pending \cup {c})
    BY <1>1, FS_AddElement
  <2>4. Cardinality(Pending') =< P + 1 /\ Cardinality(Pending') \in Nat
    <3>1. Cardinality(Pending \cup {c}) \in Nat
      BY <2>3, FS_CardinalityType
    <3>2. IsFiniteSet(Pending') /\ Cardinality(Pending') =< Cardinality(Pending \cup {c})
      BY <2>2, <2>3, FS_Subset
    <3> QED
      BY <1>1, <2>3, <3>1, <3>2, FS_CardinalityType
  <2>5. asked' = asked \ {o} /\ o \in asked
    BY <1>6 DEF Issue
  <2>6. Cardinality(asked') = A - 1
    BY <1>1, <2>5, FS_RemoveElement
  <2> QED
    BY <1>1, <2>4, <2>6 DEF PendingInv
<1>7. ASSUME NEW c \in Commands, Expire(c) PROVE PendingInv'
  BY <1>3, <1>7 DEF Expire, Pending, Offered
<1>8. ASSUME NEW request \in requests, Update(request) PROVE PendingInv'
  <2>1. request.status # "PENDING"
    BY DEF IInv, TypeOK, Request, Reports
  <2>2. UNCHANGED <<expired, asked>>
    BY <1>8 DEF Update
  <2>3. Pending' \subseteq Pending
    BY <1>2, <1>8, <2>1, <2>2 DEF Update, Pending, Offered
  <2> QED
    BY <1>3, <2>2, <2>3
<1>9. CASE Handle \/ Failures \/ Restart
  BY <1>4, <1>9
  DEF Handle, Failures, Restart, Load, LoadNothing, Fetch, Skip, MarkExpired, MarkPoison,
      Acknowledge, Start, Execute, Finish, AppendFails, Crash, PowerCut, server
<1>10. ASSUME NEW request \in requests, Check(request) \/ UpdateFails(request) PROVE PendingInv'
  BY <1>4, <1>10 DEF Check, UpdateFails, server
<1>11. CASE UNCHANGED vars
  BY <1>4, <1>11 DEF vars, server
<1> QED
  BY <1>5, <1>6, <1>7, <1>8, <1>9, <1>10, <1>11 DEF Next, Routes, NoCancel

\* Without CANCEL, which skips the check, no more commands are pending at once than operators
\* issue at once; "one pending at a time" (remote-commands.ts:26) is true of a single one.
THEOREM PendingIsLimited ==
  ASSUME IsFiniteSet(Operators)
  PROVE  Spec /\ [][NoCancel]_vars => []PendingLimited
<1>1. Init => PendingInv
  <2> SUFFICES ASSUME Init PROVE PendingInv
    OBVIOUS
  <2>1. Pending = {} /\ asked = {}
    BY DEF Init, Pending, Offered
  <2>2. Cardinality(Pending) = 0 /\ Cardinality(asked) = 0 /\ Cardinality(Operators) \in Nat
    BY <2>1, FS_EmptySet, FS_CardinalityType
  <2> QED
    BY <2>2 DEF PendingInv
<1>2. IInv /\ PendingInv => PendingLimited
  <2> SUFFICES ASSUME IInv, PendingInv PROVE PendingLimited
    OBVIOUS
  <2> QED
    BY PendingFinite DEF PendingInv, PendingLimited, Pending
<1> QED
  BY <1>1, <1>2, InvHolds, PendingStep, PTL DEF Spec
=============================================================================
