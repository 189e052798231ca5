--------------------------- MODULE RemoteCommands ---------------------------
(***************************************************************************)
(* Remote commands of one screen: the routes of the CMS API in             *)
(* services/cms-api/src/routes/remote-commands.ts, the poller in           *)
(* player-runtime/src/remote-command-poller.ts, the history file it keeps  *)
(* on the device, and the requests between them.                           *)
(*                                                                         *)
(* Abstracted: a command is its place in the order of created_at; of its   *)
(* type the check before the INSERT sees CANCEL, and the player only how   *)
(* the execution ends. The clock of the server expires a row at any time;  *)
(* that of the player, which is its own, finds a command late or not. A    *)
(* line of the history with ACKNOWLEDGED, EXECUTING or FAILED is open: the *)
(* player makes no difference. Equal requests under way are one.           *)
(*                                                                         *)
(* A status request may fail at its UPDATE. Under the trigger that         *)
(* migration V7 puts on the table every one does.                          *)
(***************************************************************************)
EXTENDS Integers, FiniteSets

CONSTANTS Operators,      \* who issue commands
          MAX_ATTEMPTS,   \* attempts before a command is POISON
          MaxCommands,    \* bound: commands issued for the screen
          MaxRequests,    \* bound: status requests under way
          MaxFaults       \* bound: crashes, failed writes and unreadable histories

ASSUME CommandsAssumption == /\ MAX_ATTEMPTS \in Nat \ {0}
                             /\ MaxCommands \in Nat
                             /\ MaxRequests \in Nat
                             /\ MaxFaults \in Nat

VARIABLES row,        \* status of each row of remote_commands, "none" before its INSERT
          expired,    \* the rows whose expires_at is past
          asked,      \* operators who found no pending command and are to INSERT
          requests,   \* status requests under way
          saved,      \* last line of each command in the history file
          tail,       \* what follows the last newline of the file
          phase,      \* where the player is
          command,    \* the command it handles
          known,      \* what loadHistory() told it of that command
          executed,   \* history: how often each command was executed
          forgotten,  \* history: how often lines were unreadable or lost with the power
          faults      \* how many faults there were

server == <<row, expired, asked>>
file == <<saved, tail>>
player == <<phase, command, known>>
history == <<executed, forgotten>>
vars == <<server, requests, file, player, history, faults>>

-----------------------------------------------------------------------------
(* States *)

Commands == 1..MaxCommands

RowStatuses == {"PENDING", "open", "COMPLETED", "FAILED"}
Reports == RowStatuses \ {"PENDING"}

\* checked: the route has read the row and found it in no terminal state.
Request == [command : Commands, status : Reports, checked : BOOLEAN]

\* The statuses after which handleCommand() does nothing more.
Concluded == {"COMPLETED", "POISON", "EXPIRED"}

\* A command without a line has no attempts.
Line == [status : {"open"} \cup Concluded, attempts : Nat]
Open(n) == [status |-> "open", attempts |-> n]
NoLine == Open(0)

\* A write cut short leaves part of a line (torn) or all of it but the newline (whole).
Tail == [kind : {"ended", "torn", "whole"}, command : Commands \cup {0}, line : Line]
Ended == [kind |-> "ended", command |-> 0, line |-> NoLine]
Torn == [kind |-> "torn", command |-> 0, line |-> NoLine]
Whole(c, line) == [kind |-> "whole", command |-> c, line |-> line]

\* loaded: with a command and what the history has of it; acknowledged and starting: that
\* line and then the EXECUTING line are written; executing: the command was called.
Phases == {"down", "idle", "loaded", "acknowledged", "starting", "executing"}

TypeOK == /\ row \in [Commands -> RowStatuses \cup {"none"}]
          /\ \A c, d \in Commands : c < d /\ row[c] = "none" => row[d] = "none"
          /\ expired \in SUBSET Commands
          /\ asked \in SUBSET Operators
          /\ requests \in SUBSET Request
          /\ saved \in [Commands -> Line]
          /\ tail \in Tail
          /\ phase \in Phases
          /\ command \in Commands \cup {0}
          /\ phase \notin {"down", "idle"} => command \in Commands
          /\ known \in Line
          /\ executed \in [Commands -> Nat]
          /\ forgotten \in Nat
          /\ faults \in Nat

Init == /\ row = [c \in Commands |-> "none"]
        /\ expired = {}
        /\ asked = {}
        /\ requests = {}
        /\ saved = [c \in Commands |-> NoLine]
        /\ tail = Ended
        /\ phase = "idle"
        /\ command = 0
        /\ known = NoLine
        /\ executed = [c \in Commands |-> 0]
        /\ forgotten = 0
        /\ faults = 0

Fault == faults < MaxFaults /\ faults' = faults + 1

\* status = 'PENDING' AND expires_at > now().
Offered(c) == row[c] = "PENDING" /\ c \notin expired

\* ORDER BY created_at ASC LIMIT 1.
Oldest(c) == Offered(c) /\ \A d \in Commands : Offered(d) => c =< d

-----------------------------------------------------------------------------
(* The routes *)

\* POST: the check for an existing pending command.
Ask(o) ==
  /\ o \notin asked
  /\ \A c \in Commands : ~Offered(c)
  /\ asked' = asked \cup {o}
  /\ Cardinality(asked') =< Cardinality({c \in Commands : row[c] = "none"})
  /\ UNCHANGED <<row, expired, requests, file, player, history, faults>>

\* Mutant: created_at is not the time of the INSERT.
InsertBackdated ==
  /\ \E c \in Commands : row[c] = "none" /\ row' = [row EXCEPT ![c] = "PENDING"]
  /\ UNCHANGED <<expired, requests, file, player, history, faults>>

\* The INSERT takes the next place.
Insert ==
  /\ \E c \in Commands : /\ row[c] = "none"
                         /\ \A d \in Commands : d < c => row[d] # "none"
                         /\ row' = [row EXCEPT ![c] = "PENDING"]
  /\ UNCHANGED <<expired, requests, file, player, history, faults>>

\* POST: the INSERT of an operator who passed the check.
Issue(o) ==
  /\ o \in asked
  /\ asked' = asked \ {o}
  /\ Insert

\* POST of type CANCEL, which passes the check whatever it finds.
IssueCancel == Insert /\ UNCHANGED asked

\* 24 hours pass; the routes look at expires_at of PENDING rows only.
Expire(c) ==
  /\ row[c] = "PENDING"
  /\ c \notin expired
  /\ expired' = expired \cup {c}
  /\ UNCHANGED <<row, asked, requests, file, player, history, faults>>

\* PATCH: SELECT the row; 409 when it is in a terminal state.
Check(request) ==
  /\ request \in requests
  /\ ~request.checked
  /\ requests' = IF row[request.command] \in {"COMPLETED", "FAILED"}
                 THEN requests \ {request}
                 ELSE (requests \ {request}) \cup {[request EXCEPT !.checked = TRUE]}
  /\ UNCHANGED <<server, file, player, history, faults>>

\* PATCH: the UPDATE, whatever the status is by now.
Update(request) ==
  /\ request \in requests
  /\ request.checked
  /\ requests' = requests \ {request}
  /\ row' = [row EXCEPT ![request.command] = request.status]
  /\ UNCHANGED <<expired, asked, file, player, history, faults>>

\* PATCH: the request is lost, or the UPDATE raises.
UpdateFails(request) ==
  /\ request \in requests
  /\ requests' = requests \ {request}
  /\ UNCHANGED <<server, file, player, history, faults>>

-----------------------------------------------------------------------------
(* The history file *)

\* appendHistory(). What follows an unended line becomes part of it, and is not JSON.
Append(c, line) ==
  /\ saved' = IF tail.kind = "ended" THEN [saved EXCEPT ![c] = line] ELSE saved
  /\ tail' = Ended

\* loadHistory().
Loaded(c) == IF tail.kind = "whole" /\ tail.command = c THEN tail.line ELSE saved[c]

\* The lines it writes of the command at hand.
Late == [status |-> "EXPIRED", attempts |-> known.attempts]
Poisoned == [status |-> "POISON", attempts |-> known.attempts]
Attempt == Open(known.attempts + 1)
Final(status) == IF status = "COMPLETED" THEN [Attempt EXCEPT !.status = status] ELSE Attempt
Outcomes == {"COMPLETED", "FAILED"}

-----------------------------------------------------------------------------
(* The player *)

\* reportStatus() waits for the answer or for its timeout and then goes on either way.
Report(status) ==
  \/ UNCHANGED requests
  \/ /\ Cardinality(requests) < MaxRequests
     /\ requests' = requests \cup {[command |-> command, status |-> status,
                                    checked |-> FALSE]}

\* What handleCommand() knows is gone when it ends.
Leave(next) == phase' = next /\ command' = 0 /\ known' = NoLine

\* poll() and fetchPendingCommand(): GET, at most one command.
Fetch(c) ==
  /\ phase = "idle"
  /\ Oldest(c)
  /\ phase' = "loaded"
  /\ command' = c
  /\ UNCHANGED <<server, requests, file, executed>>

\* handleCommand() reads the history.
Load(c) ==
  /\ Fetch(c)
  /\ known' = Loaded(c)
  /\ UNCHANGED <<forgotten, faults>>

\* It cannot be read: loadHistory() logs that and returns an empty map.
LoadNothing(c) ==
  /\ Fetch(c)
  /\ Fault
  /\ known' = NoLine
  /\ forgotten' = forgotten + 1

\* Mutant: a COMPLETED command is not skipped.
DoneButCompleted == phase = "loaded" /\ known.status \in {"POISON", "EXPIRED"}

Done == phase = "loaded" /\ known.status \in Concluded

\* Deduplication: COMPLETED and EXPIRED are skipped, POISON is reported again.
Skip ==
  /\ Done
  /\ IF known.status = "POISON" THEN Report("FAILED") ELSE UNCHANGED requests
  /\ Leave("idle")
  /\ UNCHANGED <<server, file, history, faults>>

\* expires_at is past on the player's clock.
MarkExpired ==
  /\ phase = "loaded" /\ ~Done
  /\ Append(command, Late)
  /\ Leave("idle")
  /\ UNCHANGED <<server, requests, history, faults>>

\* Mutant: the poison is reported and not recorded.
MarkPoisonUnrecorded ==
  /\ phase = "loaded" /\ ~Done
  /\ known.attempts >= MAX_ATTEMPTS
  /\ Report("FAILED")
  /\ Leave("idle")
  /\ UNCHANGED <<server, file, history, faults>>

MarkPoison ==
  /\ phase = "loaded" /\ ~Done
  /\ known.attempts >= MAX_ATTEMPTS
  /\ Append(command, Poisoned)
  /\ Report("FAILED")
  /\ Leave("idle")
  /\ UNCHANGED <<server, history, faults>>

\* Mutant: off by one.
AcknowledgeOnceMore ==
  /\ phase = "loaded" /\ ~Done
  /\ known.attempts =< MAX_ATTEMPTS
  /\ Append(command, Attempt)
  /\ Report("open")
  /\ phase' = "acknowledged"
  /\ UNCHANGED <<server, command, known, history, faults>>

Acknowledge ==
  /\ phase = "loaded" /\ ~Done
  /\ known.attempts < MAX_ATTEMPTS
  /\ Append(command, Attempt)
  /\ Report("open")
  /\ phase' = "acknowledged"
  /\ UNCHANGED <<server, command, known, history, faults>>

Start ==
  /\ phase = "acknowledged"
  /\ Append(command, Attempt)
  /\ Report("open")
  /\ phase' = "starting"
  /\ UNCHANGED <<server, command, known, history, faults>>

\* executeCommand() calls dispatchCommand().
Execute ==
  /\ phase = "starting"
  /\ executed' = [executed EXCEPT ![command] = @ + 1]
  /\ phase' = "executing"
  /\ UNCHANGED <<server, requests, file, command, known, forgotten, faults>>

\* Mutant: the report goes out before the line, and the process may die in between.
FinishReportedFirst(status) ==
  /\ phase = "executing"
  /\ Append(command, Final(status)) \/ UNCHANGED file
  /\ Report(status)
  /\ Leave("idle")
  /\ UNCHANGED <<server, history, faults>>

\* The command returns; or it throws or loses the race with its timeout.
Finish(status) ==
  /\ phase = "executing"
  /\ Append(command, Final(status))
  /\ Report(status)
  /\ Leave("idle")
  /\ UNCHANGED <<server, history, faults>>

-----------------------------------------------------------------------------
(* Failures of the device *)

\* The lines appendHistory() may be called with next.
Lines == CASE phase = "loaded" /\ ~Done /\ known.attempts < MAX_ATTEMPTS -> {Late, Attempt}
           [] phase = "loaded" /\ ~Done /\ known.attempts >= MAX_ATTEMPTS -> {Late, Poisoned}
           [] phase = "acknowledged" -> {Attempt}
           [] phase = "executing" -> {Final(status) : status \in Outcomes}
           [] OTHER -> {}

\* All bytes but the newline; after an unended line they are part of that.
Uncut(line) == IF tail.kind = "ended" THEN Whole(command, line) ELSE Torn

\* The write fails after none, some or all but the last of its bytes: appendFileSync()
\* throws, which poll() catches, or the process dies in it.
AppendFails ==
  /\ \E line \in Lines : tail' \in {tail, Torn, Uncut(line)}
  /\ Fault
  /\ \E next \in {"idle", "down"} : Leave(next)
  /\ UNCHANGED <<server, requests, saved, history>>

Crash ==
  /\ phase # "down"
  /\ Fault
  /\ Leave("down")
  /\ UNCHANGED <<server, requests, file, history>>

\* What may be left of the lines of a command.
Older(c) == {saved[c]} \cup {Open(n) : n \in 0..saved[c].attempts}

\* The power fails. Nothing asks the kernel to write the file back: of each command the
\* last lines may be lost, any number of them.
PowerCut ==
  /\ phase # "down"
  /\ Fault
  /\ Leave("down")
  /\ saved' \in [Commands -> UNION {Older(c) : c \in Commands}]
  /\ \A c \in Commands : saved'[c] \in Older(c)
  /\ tail' \in {Ended, Torn}
  /\ forgotten' = forgotten + 1
  /\ UNCHANGED <<server, requests, executed>>

Restart ==
  /\ phase = "down"
  /\ phase' = "idle"
  /\ UNCHANGED <<server, requests, file, command, known, history, faults>>

-----------------------------------------------------------------------------
Handle == \/ \E c \in Commands : Load(c)
          \/ Skip \/ MarkExpired \/ MarkPoison \/ Acknowledge \/ Start \/ Execute
          \/ \E status \in Outcomes : Finish(status)

Routes == \/ \E o \in Operators : Ask(o) \/ Issue(o)
          \/ IssueCancel
          \/ \E c \in Commands : Expire(c)
          \/ \E request \in requests :
                Check(request) \/ Update(request) \/ UpdateFails(request)

Failures == \/ \E c \in Commands : LoadNothing(c)
            \/ AppendFails \/ Crash \/ PowerCut

Next == Handle \/ Routes \/ Failures \/ Restart

Spec == Init /\ [][Next]_vars

\* The poller goes on and the device starts again; polls reach the server from time to time.
\* Nothing is assumed of operators, of status requests, of the clock or of the disk.
FairSpec == Spec /\ WF_vars(Handle) /\ WF_vars(Restart)

-----------------------------------------------------------------------------
(* Properties *)

\* However often the device dies between two lines, a write fails or a line is cut short, a
\* command is executed at most MAX_ATTEMPTS times; each time the history is unreadable or
\* its end is lost with the power allows as many again.
BoundedAttempts == \A c \in Commands : executed[c] =< MAX_ATTEMPTS * (1 + forgotten)

\* A command that the table has as COMPLETED is COMPLETED in the history of the device, as
\* long as none of that was lost: torn lines do not swallow the line the report is about.
ReportedIsRecorded == \A c \in Commands :
  forgotten = 0 /\ row[c] = "COMPLETED" => saved[c].status = "COMPLETED"

\* As long as no history was lost, what the history has as COMPLETED, POISON or EXPIRED it
\* keeps as that, and the command is not executed again, although the table may offer it for
\* the rest of its day.
ConcludedStays == [][\A c \in Commands :
  forgotten' = 0 /\ saved[c].status \in Concluded =>
    saved'[c] = saved[c] /\ executed'[c] = executed[c]]_vars

\* The attempt is in the history before the command runs: as long as no history was lost, a
\* command never ran more often than its last whole line counts.
ExecutionsAreSaved == forgotten = 0 => \A c \in Commands : executed[c] =< saved[c].attempts

\* The table does not offer the command, and the player is not at it.
Retired(c) == row[c] # "none" /\ ~Offered(c) /\ command # c

\* A command that was answered or has expired is never offered or executed again, once the
\* player is done with it: not by a late status request, a restart or a lost history.
RetiredStays ==
  [][\A c \in Commands : Retired(c) => Retired(c)' /\ executed'[c] = executed[c]]_vars

\* remote-commands.ts:26 "blocked (one pending at a time)": the check and the INSERT are two
\* queries, and as many commands may be pending as operators issue at once.
PendingLimited == Cardinality({c \in Commands : Offered(c)}) =< Cardinality(Operators)

\* A command that is offered is concluded on the device or is no longer offered: failed
\* writes and crashes do not leave the poller retrying it, or stuck, for ever.
OfferConcludes == \A c \in Commands :
  Oldest(c) ~> (~Oldest(c) \/ Loaded(c).status \in Concluded)
=============================================================================
