------------------------------- MODULE Desktop -------------------------------
(***************************************************************************)
(* The operator's window: one Tk main loop, one slot for background work,  *)
(* the state of the connection with its automatic retries, and the close   *)
(* flow with its backup and its session row.                               *)
(*                                                                         *)
(* The Tk thread runs one callback at a time, but a callback that shows a  *)
(* question spins the event loop while it waits: polls, retry timers and   *)
(* idle callbacks run behind an open question, operator commands do not.   *)
(* A notice without a consequence is one step with the callback it ends.   *)
(***************************************************************************)
EXTENDS Naturals

CONSTANT Retries          \* the number of delays of the automatic reconnect

ASSUME RetriesAssumption == Retries \in Nat

VARIABLES
  app,        \* "off" or "up"
  session,    \* the row of this run in application_sessions
  slot,       \* the background task in the slot, with its outcome once known
  client,     \* whether a controller client is connected
  live,       \* controller_snapshot_live: Home may show its figures
  mark,       \* "clear", "stale" or "failed": the last controller operation
  unsaved,    \* the archive did not take the last snapshot
  retrying,   \* the automatic reconnect is on
  attempt,    \* its attempts so far
  timer,      \* whether a retry is scheduled
  question,   \* the open question whose answer has a consequence
  reports,    \* whether a refresh of the report figures waits for an idle loop
  complete,   \* ghost: the list shown last had no unverified absence
  cut,        \* ghost: the last connection was taken over without a verdict
  missed,     \* ghost: the retry of this reconnect found the slot taken
  newer       \* ghost: a task that writes started after the last backup did

connection == <<client, live, mark, unsaved, retrying, attempt, timer,
                complete, cut, missed>>
shell == <<app, session, question, reports>>
vars == <<app, session, slot, client, live, mark, unsaved, retrying, attempt,
          timer, question, reports, complete, cut, missed, newer>>

(***************************************************************************)
(* The one slot.  `whole' is success with a complete snapshot where the    *)
(* task reads one, `partial' a snapshot with unverified absences, `lost' a *)
(* loss of transport (for a deletion: it may have happened), `refused' any *)
(* other error.  `work' is every other task: printing, notes, alignment,   *)
(* the recovery of a creation, maintenance.                                *)
(***************************************************************************)
OutcomesOf ==
  [connect |-> {"whole", "partial", "certificate", "lost"},
   sync    |-> {"whole", "partial", "lost", "refused"},
   create  |-> {"whole", "partial", "refused"},
   verify  |-> {"whole", "lost"},
   delete  |-> {"whole", "partial", "lost", "refused"},
   reread  |-> {"whole", "partial", "lost"},
   revoke  |-> {"whole", "refused"},
   report  |-> {"whole", "refused"},
   backup  |-> {"whole", "refused"},
   work    |-> {"whole", "refused"}]

Kinds == DOMAIN OutcomesOf
Writing == Kinds \ {"verify", "report", "backup"}

NoTask == [kind |-> "none", out |-> "none", saved |-> TRUE]
Running(kind) == [kind |-> kind, out |-> "running", saved |-> TRUE]
Tasks == [kind : Kinds, out : {"running", "whole", "partial", "certificate",
                               "lost", "refused"},
          saved : BOOLEAN]

Free == slot = NoTask
Done(kind) == slot.kind = kind /\ slot.out # "running"

\* The next occupant of the slot, for a step that starts a task or none.
Occupy(task) ==
  /\ slot' = task
  /\ newer' = CASE task = Running("backup")   -> FALSE
                [] task.kind \in Writing      -> TRUE
                [] OTHER                      -> newer

Begin(kind) == Occupy(Running(kind))
Release == Occupy(NoTask)

(***************************************************************************)
(* The session row                                                         *)
(***************************************************************************)
Open == [status |-> "OPEN", backup |-> "none"]
Closings == {<<"CLOSED", "DISABLED">>, <<"CLOSED", "SUCCESS">>,
             <<"CLOSED", "SUCCESS_AUDIT_FAILED">>,
             <<"CLOSED_WITHOUT_BACKUP", "SKIPPED">>,
             <<"CLOSED_WITHOUT_BACKUP", "FAILED">>,
             <<"MIGRATION_DEFERRED", "NOT_REQUIRED">>}
Sessions == {Open} \cup {[status |-> c[1], backup |-> c[2]] : c \in Closings}

Questions == {"none", "options", "failed backup", "audit", "delete",
              "certificate", "migration"}

(***************************************************************************)
(* The status of the connection as the window shows it                     *)
(***************************************************************************)
Health ==
  IF retrying THEN "retrying"
  ELSE IF slot.kind \in {"connect", "sync", "reread"} THEN "syncing"
  ELSE IF mark = "failed" THEN "error"
  ELSE IF ~client THEN "local"
  ELSE IF mark = "stale" \/ unsaved THEN "stale"
  ELSE "connected"

\* Mutant of ResetRetry: the scheduled callback is not cancelled.
ResetRetryNotTimer ==
  retrying' = FALSE /\ attempt' = 0 /\ missed' = FALSE /\ UNCHANGED timer

ResetRetry ==
  /\ retrying' = FALSE
  /\ attempt' = 0
  /\ timer' = FALSE
  /\ missed' = FALSE

\* _controller_operation_succeeded, _stale and _failed.
Succeeded ==
  ResetRetry /\ mark' = "clear" /\ unsaved' = FALSE /\ cut' = FALSE
Stale(archiveFailed) ==
  /\ ResetRetry
  /\ mark' = "stale"
  /\ cut' = FALSE
  /\ unsaved' = (unsaved \/ archiveFailed)
Failed ==
  /\ ResetRetry
  /\ mark' = "failed"
  /\ live' = FALSE
  /\ cut' = FALSE
  /\ UNCHANGED <<unsaved, complete>>

\* What a snapshot that arrived does to the status.
Settle(whole, saved) ==
  /\ live' = whole /\ complete' = whole
  /\ IF whole /\ saved THEN Succeeded ELSE Stale(~saved)

\* Mutant of Retry: the attempt is not counted.
RetryUncounted ==
  /\ retrying' = TRUE /\ timer' = TRUE /\ missed' = FALSE /\ cut' = FALSE
  /\ mark' = "stale" /\ live' = FALSE
  /\ UNCHANGED <<attempt, unsaved, complete>>

\* Mutant of Retry: Home keeps its figures while the connection is retried.
RetryLive ==
  /\ retrying' = TRUE /\ timer' = TRUE /\ attempt' = attempt + 1
  /\ mark' = "stale" /\ missed' = FALSE /\ cut' = FALSE
  /\ UNCHANGED <<live, unsaved, complete>>

\* A loss of transport under a live client is retried while delays remain.
Retry ==
  /\ retrying' = TRUE
  /\ attempt' = attempt + 1
  /\ timer' = TRUE
  /\ mark' = "stale"
  /\ live' = FALSE
  /\ cut' = FALSE /\ missed' = FALSE
  /\ UNCHANGED <<unsaved, complete>>

\* Mutant of RefreshLost: one delay too many.
RefreshLostLate == IF client /\ attempt <= Retries THEN Retry ELSE Failed

RefreshLost == IF client /\ attempt < Retries THEN Retry ELSE Failed

-----------------------------------------------------------------------------
Offline ==
  /\ client = FALSE /\ live = FALSE /\ mark = "clear" /\ unsaved = FALSE
  /\ retrying = FALSE /\ attempt = 0 /\ timer = FALSE
  /\ complete = FALSE /\ cut = FALSE /\ missed = FALSE

Init ==
  /\ app = "off" /\ session = Open /\ slot = NoTask /\ Offline
  /\ question = "none" /\ reports = FALSE /\ newer = FALSE

\* The process is gone, and every piece of its memory with it.
Gone ==
  /\ app' = "off" /\ slot' = NoTask
  /\ client' = FALSE /\ live' = FALSE /\ mark' = "clear" /\ unsaved' = FALSE
  /\ complete' = FALSE /\ cut' = FALSE /\ ResetRetry
  /\ question' = "none" /\ reports' = FALSE /\ UNCHANGED newer

\* A start opens a session row; data of an earlier installation raise the
\* question of their migration first.
Start ==
  /\ app = "off" /\ app' = "up"
  /\ session' = Open
  /\ question' \in {"none", "migration"}
  /\ UNCHANGED <<slot, connection, reports, newer>>

\* The row is completed if the database takes it; the window goes either way.
Close(status, backup) ==
  /\ session' \in {[status |-> status, backup |-> backup], session}
  /\ Gone

\* Killed or crashed: the row stays open.
Crash == app = "up" /\ Gone /\ UNCHANGED session

-----------------------------------------------------------------------------
(***************************************************************************)
(* Commands of the operator.  Each one reaches the runner, which refuses   *)
(* it while the slot is taken.                                             *)
(***************************************************************************)
Command(kind) ==
  /\ app = "up" /\ question = "none" /\ Free
  /\ Begin(kind)

\* An address or a pin that makes no client fails at once.
Connect ==
  \/ Command("connect") /\ UNCHANGED <<shell, connection>>
  \/ /\ app = "up" /\ question = "none" /\ Free
     /\ client' = FALSE /\ Failed
     /\ UNCHANGED <<shell, slot, newer>>

\* Sincronizza on the voucher page.
Refresh == client /\ Command("sync") /\ UNCHANGED <<shell, connection>>

\* The button of Home, dead while the automatic reconnect is on.
HomeSync ==
  /\ client /\ ~retrying
  /\ Command("sync")
  /\ IF mark = "failed" THEN ResetRetry
     ELSE UNCHANGED <<retrying, attempt, timer, missed>>
  /\ UNCHANGED <<shell, client, live, mark, unsaved, complete, cut>>

Create == client /\ live /\ Command("create") /\ UNCHANGED <<shell, connection>>
Delete == client /\ Command("verify") /\ UNCHANGED <<shell, connection>>
Revoke == client /\ Command("revoke") /\ UNCHANGED <<shell, connection>>
ShowReport == Command("report") /\ UNCHANGED <<shell, connection>>
Work == Command("work") /\ UNCHANGED <<shell, connection>>

\* The choices of the migration question that leave the program running end
\* it (a fresh start) or belong to another module (migrate, restore).
AnswerMigration ==
  /\ question = "migration"
  /\ \/ question' = "none" /\ UNCHANGED <<app, session, slot, connection, reports, newer>>
     \/ Close("MIGRATION_DEFERRED", "NOT_REQUIRED")

-----------------------------------------------------------------------------
(***************************************************************************)
(* The worker and the main loop                                            *)
(***************************************************************************)
Finish ==
  /\ slot.out = "running"
  /\ \E out \in OutcomesOf[slot.kind], saved \in BOOLEAN :
       slot' = [slot EXCEPT !.out = out, !.saved = saved]
  /\ UNCHANGED <<shell, connection, newer>>

\* The retry of refresh: it forgets its timer and calls refresh, which the
\* runner refuses while another task has the slot.
Fire ==
  /\ timer
  /\ timer' = FALSE
  /\ IF retrying /\ client /\ Free
     THEN Begin("sync") /\ UNCHANGED missed
     ELSE missed' = TRUE /\ UNCHANGED <<slot, newer>>
  /\ UNCHANGED <<shell, client, live, mark, unsaved, retrying, attempt, complete,
                 cut>>

\* The idle callback that recomputes the report figures, silent when busy.
IdleReport ==
  /\ reports /\ reports' = FALSE
  /\ IF Free THEN Begin("report") ELSE UNCHANGED <<slot, newer>>
  /\ UNCHANGED <<app, session, question, connection>>

\* A complete snapshot may raise the recovery of an uncertain creation or of
\* the legacy history, whose task takes the slot at once.
MaybeRecovery(whole) ==
  \/ Release
  \/ whole /\ Begin("work")

\* The settings file is written after the new client and its list are taken
\* over and before the verdict on them.  When the write raises, the callback
\* ends there: the mark and the reconnect stay those of the connection before.
Interrupted(whole) ==
  /\ client' = TRUE /\ live' = whole /\ complete' = whole /\ cut' = TRUE
  /\ UNCHANGED <<mark, unsaved, retrying, attempt, timer, missed>>

\* After a failed archive write the callback first asks the archive for the
\* controller, and ends before it changed anything when that raises too.
ConnectDone ==
  /\ Done("connect")
  /\ \/ /\ slot.out \in {"whole", "partial"}
        /\ client' = TRUE
        /\ Settle(slot.out = "whole", slot.saved)
        /\ MaybeRecovery(slot.out = "whole")
        /\ UNCHANGED question
     \/ /\ slot.out \in {"whole", "partial"}
        /\ Interrupted(slot.out = "whole")
        /\ Release /\ UNCHANGED question
     \/ /\ slot.out = "whole" /\ ~slot.saved
        /\ Release /\ UNCHANGED <<question, connection>>
     \/ /\ slot.out = "certificate"
        /\ question' = "certificate"
        /\ Release /\ UNCHANGED connection
     \/ /\ slot.out = "lost"
        /\ client' = FALSE /\ Failed
        /\ Release /\ UNCHANGED question
  /\ UNCHANGED <<app, session, reports>>

SyncDone ==
  /\ Done("sync")
  /\ \/ /\ slot.out \in {"whole", "partial"}
        /\ Settle(slot.out = "whole", slot.saved)
        /\ MaybeRecovery(slot.out = "whole")
        /\ reports' = (reports \/ (slot.out = "whole" /\ slot.saved))
     \/ slot.out = "lost" /\ RefreshLost /\ Release /\ UNCHANGED reports
     \/ slot.out = "refused" /\ Failed /\ Release /\ UNCHANGED reports
  /\ UNCHANGED <<app, session, question, client>>

\* An uncertain creation ends without the common refresh of the window.
CreateDone ==
  /\ Done("create")
  /\ \/ /\ slot.out \in {"whole", "partial"}
        /\ Settle(slot.out = "whole", slot.saved)
        /\ Begin("report") \/ (slot.out = "partial" /\ Release)
        /\ UNCHANGED <<shell, client>>
     \/ slot.out = "refused" /\ Release /\ UNCHANGED <<shell, connection>>

VerifyDone ==
  /\ Done("verify")
  /\ question' \in {question} \cup (IF slot.out = "whole" THEN {"delete"} ELSE {})
  /\ Release
  /\ UNCHANGED <<app, session, reports, connection>>

DeleteDone ==
  /\ Done("delete")
  /\ \/ /\ slot.out \in {"whole", "partial"}
        /\ Settle(slot.out = "whole", slot.saved)
        /\ Begin("report")
        /\ UNCHANGED client
     \/ slot.out = "lost" /\ Begin("reread") /\ UNCHANGED connection
     \/ slot.out = "refused" /\ Release /\ UNCHANGED connection
  /\ UNCHANGED shell

\* The list read again after an uncertain deletion is taken as authoritative,
\* whatever it omits.
RereadDone ==
  /\ Done("reread")
  /\ \/ /\ slot.out # "lost"
        /\ live' = TRUE /\ complete' = (slot.out = "whole")
        /\ IF slot.saved THEN Succeeded ELSE Stale(TRUE)
     \/ slot.out = "lost" /\ Failed
  /\ Release
  /\ UNCHANGED <<shell, client>>

\* A revocation that ended is followed by a refresh.
RevokeDone ==
  /\ Done("revoke")
  /\ IF slot.out = "whole" /\ client THEN Begin("sync") ELSE Release
  /\ UNCHANGED <<shell, connection>>

\* Mutant of ReportDone: a report that failed keeps the slot.
ReportDoneKept ==
  /\ Done("report")
  /\ IF slot.out = "whole" THEN Release ELSE UNCHANGED <<slot, newer>>
  /\ UNCHANGED <<shell, connection>>

ReportDone == Done("report") /\ Release /\ UNCHANGED <<shell, connection>>

WorkDone ==
  /\ Done("work")
  /\ Release \/ (slot.out = "whole" /\ Begin("report"))
  /\ UNCHANGED <<shell, connection>>

-----------------------------------------------------------------------------
(***************************************************************************)
(* Questions and the close of the program                                  *)
(***************************************************************************)
\* The answer to a changed or unknown certificate.  While it was open a retry
\* may have taken the slot: then a yes is refused, a no still disconnects.
AnswerCertificate ==
  /\ question = "certificate" /\ question' = "none"
  /\ \/ /\ IF Free THEN Begin("connect") ELSE UNCHANGED <<slot, newer>>
        /\ UNCHANGED connection
     \/ client' = FALSE /\ Failed /\ UNCHANGED <<slot, newer>>
  /\ UNCHANGED <<app, session, reports>>

AnswerDelete ==
  /\ question = "delete" /\ question' = "none"
  /\ \/ UNCHANGED <<slot, newer>>
     \/ Free /\ Begin("delete")
  /\ UNCHANGED <<app, session, reports, connection>>

\* backup_on_close is a preference: off, the window goes without a question.
RequestClose ==
  /\ app = "up" /\ question = "none" /\ Free
  /\ \/ Close("CLOSED", "DISABLED")
     \/ /\ question' = "options"
        /\ UNCHANGED <<app, session, slot, reports, newer, connection>>

\* A close backup that cannot start leaves the program open.
StartCloseBackup ==
  /\ question' = "none"
  /\ IF Free THEN Begin("backup") ELSE UNCHANGED <<slot, newer>>
  /\ UNCHANGED <<app, session, reports, connection>>

StayOpen ==
  /\ question' = "none"
  /\ UNCHANGED <<app, session, slot, reports, newer, connection>>

AnswerOptions ==
  /\ question = "options"
  /\ StartCloseBackup \/ StayOpen \/ Close("CLOSED_WITHOUT_BACKUP", "SKIPPED")

\* A verified backup whose audit row was written closes at once; one without
\* shows a notice first, behind which the main loop runs.
BackupDone ==
  /\ Done("backup")
  /\ \/ slot.out = "whole" /\ Close("CLOSED", "SUCCESS")
     \/ /\ question' = IF slot.out = "whole" THEN "audit" ELSE "failed backup"
        /\ Release
        /\ UNCHANGED <<app, session, reports, connection>>

\* Mutant of AnswerAudit: a missing audit row is no failure of the backup.
AnswerAuditSuccess == question = "audit" /\ Close("CLOSED", "SUCCESS")

AnswerAudit ==
  /\ question = "audit"
  /\ Close("CLOSED", "SUCCESS_AUDIT_FAILED")

AnswerFailedBackup ==
  /\ question = "failed backup"
  /\ StartCloseBackup \/ StayOpen \/ Close("CLOSED_WITHOUT_BACKUP", "FAILED")

Operator ==
  \/ Connect \/ Refresh \/ HomeSync \/ Create \/ Delete \/ Revoke
  \/ ShowReport \/ Work \/ RequestClose
  \/ AnswerMigration \/ AnswerCertificate \/ AnswerDelete
  \/ AnswerOptions \/ AnswerAudit \/ AnswerFailedBackup

Poll ==
  \/ ConnectDone \/ SyncDone \/ CreateDone \/ VerifyDone \/ DeleteDone
  \/ RereadDone \/ RevokeDone \/ ReportDone \/ WorkDone \/ BackupDone

Next == Start \/ Crash \/ Operator \/ Finish \/ Fire \/ IdleReport \/ Poll

Spec == Init /\ [][Next]_vars

\* Every worker ends (its network calls time out), the main loop polls every
\* 40 ms and runs what is due, behind a question too.  The operator owes
\* nothing.
Fairness == WF_vars(Finish) /\ WF_vars(Poll) /\ WF_vars(Fire) /\ WF_vars(IdleReport)

LiveSpec == Spec /\ Fairness

-----------------------------------------------------------------------------
TypeOK ==
  /\ app \in {"off", "up"}
  /\ session \in Sessions
  /\ slot \in Tasks \cup {NoTask}
  /\ client \in BOOLEAN /\ live \in BOOLEAN /\ unsaved \in BOOLEAN
  /\ mark \in {"clear", "stale", "failed"}
  /\ retrying \in BOOLEAN /\ timer \in BOOLEAN
  /\ attempt \in 0 .. Retries
  /\ question \in Questions
  /\ reports \in BOOLEAN /\ newer \in BOOLEAN /\ complete \in BOOLEAN
  /\ cut \in BOOLEAN /\ missed \in BOOLEAN

\* The colour never promises more than Home holds: green only over live
\* figures, amber of the reconnect and red only over suspended ones, through
\* every order of snapshots, losses, deletions and answers.  A connection whose
\* settings could not be written is excepted until the next verdict.
HealthHonest ==
  ~cut => /\ Health = "connected" => live
          /\ Health \in {"retrying", "error"} => ~live

\* A scheduled retry belongs to the reconnect that scheduled it: none outlives
\* a verdict of success, of failure or of a new connection, to refresh on its
\* own later; only a connection without a verdict leaves it to run.
TimerBelongs ==
  timer => retrying /\ client /\ attempt \in 1 .. Retries /\ (live => cut)

\* The backup a session row calls successful holds everything the archive
\* holds at the close: no task that writes began after it.
BackupCoversArchive == session.backup = "SUCCESS" => ~newer

\* The slot is always given back: a task and all it starts in its turn end.
SlotFreed == ~Free ~> Free

\* An automatic reconnect reaches a verdict, unless its retry found the slot
\* taken: no other path leaves it without a timer, a refresh or an end.
ReconnectSettles == retrying ~> (~retrying \/ missed)

\* What the product specification says of the amber state: it is finite.
AmberIsFinite == Health = "retrying" ~> Health # "retrying"

\* "Connection indicator is green only after an authoritative current
\* snapshot" (the acceptance checklist, gate D).
GreenIsAuthoritative == Health = "connected" => complete

\* "A failed/partial refresh does not leave apparently authoritative green
\* KPIs" (the acceptance checklist), whatever could not be written.
GreenIsLive == Health = "connected" => live

\* "A running background operation is never interrupted by shutdown."
NeverInterrupted ==
  [][app = "up" /\ session'.status # "OPEN" => slot.out # "running"]_vars
=============================================================================
