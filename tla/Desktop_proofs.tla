--------------------------- MODULE Desktop_proofs ---------------------------
(***************************************************************************)
(* Type correctness and the safety invariants of the operator's window,    *)
(* for any number of delays of the automatic reconnect.                    *)
(***************************************************************************)
EXTENDS Desktop, TLAPS

(***************************************************************************)
(* The inductive invariant, in two parts that different variables keep.    *)
(*                                                                         *)
(* `Colour' is HealthHonest without the busy label, which hides a colour   *)
(* and shows it again.  `Closed' says that nothing runs or asks after the  *)
(* close, so nothing follows a completed session row.  `BackupFresh' is    *)
(* the reason for BackupCoversArchive: while a backup has the slot, no     *)
(* task that writes can start.                                             *)
(***************************************************************************)
Colour ==
  ~cut => /\ client /\ mark = "clear" /\ ~unsaved /\ ~retrying => live
          /\ retrying \/ mark = "failed" => ~live

\* The types of the flags, with the colour, and a timer that belongs to a
\* reconnect in progress; only a connection without a verdict leaves it live.
Flags ==
  /\ client \in BOOLEAN /\ live \in BOOLEAN /\ unsaved \in BOOLEAN
  /\ complete \in BOOLEAN /\ cut \in BOOLEAN /\ missed \in BOOLEAN
  /\ mark \in {"clear", "stale", "failed"}
  /\ retrying \in BOOLEAN /\ timer \in BOOLEAN
  /\ Colour
  /\ timer => retrying /\ client /\ (live => cut)

\* The retries stay within their budget, and a timer is one of them.
Count == attempt \in 0 .. Retries /\ (timer => attempt # 0)

\* A recorded close is of a program that is off, and a program that is off
\* runs nothing.
Closed ==
  /\ session # Open => app = "off"
  /\ app = "off" => slot = NoTask /\ question = "none" /\ ~reports /\ ~timer

\* Nothing was written to the archive since the backup in the slot has begun.
BackupFresh == slot.kind = "backup" => ~newer

\* The shell: slot, question, session and the backup of the close.
ShellOK ==
  /\ app \in {"off", "up"}
  /\ session \in Sessions
  /\ slot \in Tasks \cup {NoTask}
  /\ question \in Questions
  /\ reports \in BOOLEAN /\ newer \in BOOLEAN
  /\ Closed
  /\ BackupFresh
  /\ BackupCoversArchive

\* The inductive invariant.
IInv == Flags /\ Count /\ ShellOK

-----------------------------------------------------------------------------

\* The names of the tasks.
TaskNames == {"connect", "sync", "create", "verify", "delete", "reread", "revoke",
              "report", "backup", "work"}

\* The tasks by name.
LEMMA KindsAreNames == Kinds = TaskNames
  BY DEF Kinds, OutcomesOf, TaskNames

\* What the start of a task does to the slot (_run_background_task).
LEMMA BeginFacts ==
  ASSUME newer \in BOOLEAN
  PROVE  \A kind \in TaskNames : Begin(kind) =>
           /\ slot' \in Tasks /\ slot'.kind = kind /\ slot' # NoTask
           /\ newer' \in BOOLEAN
           /\ kind = "backup" => ~newer'
<1> SUFFICES ASSUME NEW kind \in TaskNames, Begin(kind)
             PROVE  /\ slot' \in Tasks /\ slot'.kind = kind /\ slot' # NoTask
                    /\ newer' \in BOOLEAN
                    /\ kind = "backup" => ~newer'
  OBVIOUS
<1>1. slot' = [kind |-> kind, out |-> "running", saved |-> TRUE]
  BY DEF Begin, Occupy, Running
<1>2. slot' \in Tasks /\ slot'.kind = kind
  BY <1>1, KindsAreNames DEF Tasks
<1>3. slot' # NoTask
  BY <1>1 DEF NoTask
<1>4. newer' = CASE Running(kind) = Running("backup") -> FALSE
                 [] Running(kind).kind \in Writing   -> TRUE
                 [] OTHER                             -> newer
  BY DEF Begin, Occupy
<1>5. CASE kind = "backup"
  <2>1. ~(Running(kind).kind \in Writing)
    BY <1>5 DEF Running, Writing
  <2>2. newer' = FALSE
    BY <1>4, <1>5, <2>1
  <2> QED
    BY <1>2, <1>3, <2>2
<1>6. CASE kind # "backup"
  <2>1. Running(kind) # Running("backup")
    BY <1>6 DEF Running
  <2>2. newer' = IF Running(kind).kind \in Writing THEN TRUE ELSE newer
    BY <1>4, <2>1
  <2> QED
    BY <1>2, <1>3, <1>6, <2>2
<1> QED
  BY <1>5, <1>6

\* What its end does: the slot is empty and nothing was written.
LEMMA ReleaseFacts ==
  ASSUME newer \in BOOLEAN, Release
  PROVE  slot' = NoTask /\ slot'.kind = "none" /\ newer' = newer
<1>1. slot' = NoTask /\ slot'.kind = "none"
  BY DEF Release, Occupy, NoTask
<1>2. NoTask # Running("backup")
  BY DEF NoTask, Running
<1>3. ~(NoTask.kind \in Writing)
  BY KindsAreNames DEF NoTask, Writing, TaskNames
<1>4. newer' = newer
  BY <1>2, <1>3 DEF Release, Occupy
<1> QED
  BY <1>1, <1>4

\* A worker's outcome is one of its task's.
LEMMA FinishFacts ==
  ASSUME slot \in Tasks \cup {NoTask}, Finish
  PROVE  slot' \in Tasks /\ slot'.kind = slot.kind /\ slot # NoTask
<1>1. slot \in Tasks /\ slot # NoTask
  BY DEF Finish, NoTask
<1>2. PICK out \in OutcomesOf[slot.kind], saved \in BOOLEAN :
        slot' = [slot EXCEPT !.out = out, !.saved = saved]
  BY DEF Finish
<1>3. slot.kind \in TaskNames
  BY <1>1, KindsAreNames DEF Tasks
<1>4. out \in {"whole", "partial", "certificate", "lost", "refused"}
  BY <1>2, <1>3 DEF OutcomesOf, TaskNames
<1> QED
  BY <1>1, <1>2, <1>4 DEF Tasks

\* The rows a close may write, and the row of a start.
LEMMA SessionFacts ==
  /\ Open \in Sessions /\ Open.backup = "none"
  /\ [status |-> "CLOSED", backup |-> "DISABLED"] \in Sessions
  /\ [status |-> "CLOSED", backup |-> "SUCCESS"] \in Sessions
  /\ [status |-> "CLOSED", backup |-> "SUCCESS_AUDIT_FAILED"] \in Sessions
  /\ [status |-> "CLOSED_WITHOUT_BACKUP", backup |-> "SKIPPED"] \in Sessions
  /\ [status |-> "CLOSED_WITHOUT_BACKUP", backup |-> "FAILED"] \in Sessions
  /\ [status |-> "MIGRATION_DEFERRED", backup |-> "NOT_REQUIRED"] \in Sessions
<1>1. Open \in Sessions /\ Open.backup = "none"
  BY DEF Sessions, Open
<1>2. \A s, b : <<s, b>> \in Closings => [status |-> s, backup |-> b] \in Sessions
  <2> SUFFICES ASSUME NEW s, NEW b, <<s, b>> \in Closings
               PROVE  [status |-> s, backup |-> b] \in Sessions
    OBVIOUS
  <2>1. \E c \in Closings : [status |-> s, backup |-> b] = [status |-> c[1], backup |-> c[2]]
    OBVIOUS
  <2> QED
    BY <2>1 DEF Sessions
<1>3. /\ <<"CLOSED", "DISABLED">> \in Closings
      /\ <<"CLOSED", "SUCCESS">> \in Closings
      /\ <<"CLOSED", "SUCCESS_AUDIT_FAILED">> \in Closings
      /\ <<"CLOSED_WITHOUT_BACKUP", "SKIPPED">> \in Closings
      /\ <<"CLOSED_WITHOUT_BACKUP", "FAILED">> \in Closings
      /\ <<"MIGRATION_DEFERRED", "NOT_REQUIRED">> \in Closings
  BY DEF Closings
<1> QED
  BY <1>1, <1>2, <1>3

-----------------------------------------------------------------------------
\* The initial state satisfies the invariant.
LEMMA InitHolds == Init => IInv
<1> SUFFICES ASSUME Init PROVE IInv
  OBVIOUS
<1>1. Flags
  BY Zenon DEF Init, Offline, Flags, Colour
<1>2. Count
  <2>1. attempt = 0 /\ ~timer
    BY Zenon DEF Init, Offline
  <2> QED
    BY <2>1, RetriesAssumption DEF Count
<1>3. ShellOK
  <2>1. session \in Sessions /\ session.backup # "SUCCESS" /\ slot.kind # "backup"
    BY SessionFacts DEF Init, NoTask
  <2> QED
    BY <2>1, Zenon DEF Init, Offline, ShellOK, Closed, BackupFresh, BackupCoversArchive, Questions
<1> QED
  BY <1>1, <1>2, <1>3, Zenon DEF Init, Offline, IInv

\* A step of the open window that starts a task, ends one or leaves the slot.
SlotStep ==
  \/ \E kind \in TaskNames : Begin(kind)
  \/ Release
  \/ UNCHANGED <<slot, newer>>

\* A step of the open window keeps the shell, whatever it does to the
\* connection.
LEMMA WindowStep ==
  ASSUME IInv, app = "up", app' = "up", session' = session, SlotStep,
         question' \in Questions, reports' \in BOOLEAN
  PROVE  ShellOK'
<1>1. session = Open
  BY Zenon DEF IInv, ShellOK, Closed
<1>2. BackupCoversArchive' /\ session' \in Sessions /\ Closed'
  <2>1. session'.backup # "SUCCESS" /\ session' \in Sessions
    BY <1>1, SessionFacts
  <2>2. session' = Open /\ app' # "off"
    BY <1>1
  <2> QED
    BY <2>1, <2>2, Zenon DEF BackupCoversArchive, Closed
<1>3. newer \in BOOLEAN /\ slot \in Tasks \cup {NoTask} /\ BackupFresh
  BY Zenon DEF IInv, ShellOK
<1>4. slot' \in Tasks \cup {NoTask} /\ newer' \in BOOLEAN /\ BackupFresh'
  <2>1. CASE \E kind \in TaskNames : Begin(kind)
    <3>1. PICK kind \in TaskNames : Begin(kind)
      BY <2>1
    <3>2. /\ slot' \in Tasks /\ slot'.kind = kind /\ newer' \in BOOLEAN
          /\ kind = "backup" => ~newer'
      BY <1>3, <3>1, BeginFacts, Zenon
    <3> QED
      BY <3>2, Zenon DEF BackupFresh
  <2>2. CASE Release
    <3>1. slot' = NoTask /\ slot'.kind = "none" /\ newer' = newer
      BY <1>3, <2>2, ReleaseFacts, Zenon
    <3>2. "none" # "backup"
      OBVIOUS
    <3> QED
      BY <1>3, <3>1, <3>2, Zenon DEF BackupFresh
  <2>3. CASE UNCHANGED <<slot, newer>>
    BY <1>3, <2>3, Zenon DEF BackupFresh
  <2> QED
    BY <2>1, <2>2, <2>3, Zenon DEF SlotStep
<1> QED
  BY <1>2, <1>4, Zenon DEF ShellOK

\* The end of the process, with a row that is completed or left as it is.
LEMMA GoneStep ==
  ASSUME IInv, Gone,
         \/ session' = session
         \/ session' \in Sessions /\ (session'.backup = "SUCCESS" => ~newer)
  PROVE  ShellOK'
<1>1. newer \in BOOLEAN /\ session \in Sessions /\ BackupCoversArchive
  BY Zenon DEF IInv, ShellOK
<1>2. app' = "off" /\ slot' = NoTask /\ question' = "none" /\ reports' = FALSE
      /\ newer' = newer /\ timer' = FALSE
  BY Zenon DEF Gone, ResetRetry
<1>3. slot'.kind # "backup"
  BY <1>2 DEF NoTask
<1>4. session' \in Sessions /\ BackupCoversArchive'
  BY <1>1, <1>2, Zenon DEF BackupCoversArchive
<1>5. question' \in Questions
  BY <1>2 DEF Questions
<1> QED
  BY <1>1, <1>2, <1>3, <1>4, <1>5, Zenon DEF ShellOK, Closed, BackupFresh

\* A close that records a backup nothing was written after keeps the shell.
LEMMA CloseStep ==
  ASSUME IInv, NEW s, NEW b, Close(s, b), [status |-> s, backup |-> b] \in Sessions,
         b = "SUCCESS" => ~newer
  PROVE  ShellOK'
<1>1. [status |-> s, backup |-> b].backup = b
  OBVIOUS
<1>2. Gone /\ (session' = session \/ session' = [status |-> s, backup |-> b])
  BY Zenon DEF Close
<1> QED
  BY <1>1, <1>2, GoneStep, Zenon

\* The flags after a controller operation that failed.
LEMMA FailedFlags ==
  ASSUME Flags, Failed, client' \in BOOLEAN
  PROVE  Flags'
<1>1. /\ retrying' = FALSE /\ timer' = FALSE /\ mark' = "failed" /\ live' = FALSE
      /\ unsaved' = unsaved /\ complete' = complete
      /\ cut' = FALSE /\ missed' = FALSE
  BY Zenon DEF Failed, ResetRetry
<1>2. mark' \in {"clear", "stale", "failed"} /\ mark' # "clear"
  BY <1>1, Zenon
<1>3. /\ live' \in BOOLEAN /\ retrying' \in BOOLEAN /\ timer' \in BOOLEAN
      /\ cut' \in BOOLEAN /\ missed' \in BOOLEAN
  BY <1>1, Zenon
<1>4. unsaved' \in BOOLEAN /\ complete' \in BOOLEAN
  BY <1>1, Zenon DEF Flags
<1>5. Colour'
  BY <1>1, <1>2, Zenon DEF Colour
<1> QED
  BY <1>1, <1>2, <1>3, <1>4, <1>5, Zenon DEF Flags

\* The flags after a snapshot that arrived.
LEMMA SettleFlags ==
  ASSUME Flags, Settle(slot.out = "whole", slot.saved), slot.saved \in BOOLEAN,
         client' \in BOOLEAN
  PROVE  Flags'
<1>1. /\ retrying' = FALSE /\ timer' = FALSE /\ cut' = FALSE /\ missed' = FALSE
      /\ live' = (slot.out = "whole") /\ complete' = (slot.out = "whole")
  BY Zenon DEF Settle, Succeeded, Stale, ResetRetry
<1>2. \/ mark' = "clear" /\ unsaved' = FALSE /\ slot.out = "whole"
      \/ mark' = "stale" /\ unsaved' = (unsaved \/ ~slot.saved)
  BY Zenon DEF Settle, Succeeded, Stale
<1>3. mark' \in {"clear", "stale", "failed"} /\ mark' # "failed"
  BY <1>2, Zenon
<1>4. /\ live' \in BOOLEAN /\ complete' \in BOOLEAN /\ retrying' \in BOOLEAN
      /\ timer' \in BOOLEAN /\ cut' \in BOOLEAN /\ missed' \in BOOLEAN
  BY <1>1, Zenon
<1>5. unsaved' \in BOOLEAN
  BY <1>2, Zenon
<1>6. Colour'
  <2>1. mark' = "clear" => live'
    BY <1>1, <1>2, Zenon
  <2> QED
  BY <1>1, <1>3, <2>1, Zenon DEF Colour
<1> QED
  BY <1>1, <1>3, <1>4, <1>5, <1>6, Zenon DEF Flags

\* The flags while the connection is retried.
LEMMA RetryFlags ==
  ASSUME Flags, Retry, client = TRUE, client' = client
  PROVE  Flags'
<1>1. /\ retrying' = TRUE /\ timer' = TRUE /\ mark' = "stale" /\ live' = FALSE
      /\ unsaved' = unsaved /\ complete' = complete
      /\ cut' = FALSE /\ missed' = FALSE
  BY Zenon DEF Retry
<1>2. mark' \in {"clear", "stale", "failed"} /\ mark' # "clear"
  BY <1>1, Zenon
<1> QED
  BY <1>1, <1>2, Zenon DEF Flags, Colour

\* The flags after a connection whose settings could not be written.
LEMMA InterruptedFlags ==
  ASSUME Flags, Interrupted(slot.out = "whole")
  PROVE  Flags'
<1>1. /\ client' = TRUE /\ live' = (slot.out = "whole")
      /\ complete' = (slot.out = "whole") /\ cut' = TRUE
      /\ mark' = mark /\ unsaved' = unsaved /\ retrying' = retrying
      /\ timer' = timer /\ missed' = missed
  BY Zenon DEF Interrupted
<1>2. /\ client' \in BOOLEAN /\ live' \in BOOLEAN /\ complete' \in BOOLEAN
      /\ cut' \in BOOLEAN
  BY <1>1, Zenon
<1> QED
  BY <1>1, <1>2, Zenon DEF Flags, Colour

\* The flags of a process that is gone.
LEMMA GoneFlags ==
  ASSUME Gone
  PROVE  Flags'
<1>1. /\ retrying' = FALSE /\ timer' = FALSE /\ mark' = "clear" /\ live' = FALSE
      /\ unsaved' = FALSE /\ complete' = FALSE /\ client' = FALSE
      /\ cut' = FALSE /\ missed' = FALSE
  BY Zenon DEF Gone, ResetRetry
<1>2. mark' \in {"clear", "stale", "failed"} /\ mark' # "failed"
  BY <1>1, Zenon
<1> QED
  BY <1>1, <1>2, Zenon DEF Flags, Colour

\* Every step keeps the colour of the connection honest, and its timer with it.
LEMMA FlagsStep == IInv /\ Next => Flags'
<1> SUFFICES ASSUME IInv, Next PROVE Flags'
  OBVIOUS
<1>a. Flags
  BY Zenon DEF IInv
<1>b. slot.saved \in BOOLEAN
  <2>1. slot \in Tasks \cup {NoTask}
    BY Zenon DEF IInv, ShellOK
  <2>2. \A task \in Tasks : task.saved \in BOOLEAN
    BY Zenon DEF Tasks
  <2>3. NoTask.saved = TRUE
    BY DEF NoTask
  <2> QED
    BY <2>1, <2>2, <2>3, Zenon
<1>c. UNCHANGED connection => Flags'
  <2> SUFFICES ASSUME UNCHANGED connection PROVE Flags'
    OBVIOUS
  <2>1. /\ client' = client /\ live' = live /\ unsaved' = unsaved /\ complete' = complete
        /\ mark' = mark /\ retrying' = retrying /\ timer' = timer
        /\ cut' = cut /\ missed' = missed
    BY Zenon DEF connection
  <2> QED
    BY <1>a, <2>1, Zenon DEF Flags, Colour
<1>d. client' = client \/ client' = FALSE \/ client' = TRUE => client' \in BOOLEAN
  BY <1>a, Zenon DEF Flags
<1>1. CASE Start
  BY <1>1, <1>c, Zenon DEF Start
<1>2. CASE Crash
  BY <1>2, GoneFlags, Zenon DEF Crash
<1>3. CASE Connect
  BY <1>3, <1>a, <1>c, <1>d, FailedFlags, Zenon DEF Connect
<1>4. CASE Refresh
  BY <1>4, <1>c, Zenon DEF Refresh
<1>5. CASE HomeSync
  <2>1. \/ retrying' = FALSE /\ timer' = FALSE /\ missed' = FALSE
        \/ retrying' = retrying /\ timer' = timer /\ missed' = missed
    BY <1>5, Zenon DEF HomeSync, ResetRetry
  <2>2. /\ ~retrying /\ client' = client /\ live' = live /\ mark' = mark
        /\ unsaved' = unsaved /\ complete' = complete /\ cut' = cut
    BY <1>5, Zenon DEF HomeSync
  <2>3. ~retrying' /\ ~timer'
    <3>1. ~retrying /\ ~timer
      BY <1>a, <2>2, Zenon DEF Flags
    <3>2. CASE retrying' = FALSE /\ timer' = FALSE /\ missed' = FALSE
      BY <3>2, Zenon
    <3>3. CASE retrying' = retrying /\ timer' = timer /\ missed' = missed
      BY <3>1, <3>3, Zenon
    <3> QED
      BY <2>1, <3>2, <3>3
  <2>4. retrying' \in BOOLEAN /\ timer' \in BOOLEAN /\ missed' \in BOOLEAN
    <3>1. retrying \in BOOLEAN /\ timer \in BOOLEAN /\ missed \in BOOLEAN
      BY <1>a, Zenon DEF Flags
    <3>2. CASE retrying' = FALSE /\ timer' = FALSE /\ missed' = FALSE
      BY <3>2, Zenon
    <3>3. CASE retrying' = retrying /\ timer' = timer /\ missed' = missed
      BY <3>1, <3>3, Zenon
    <3> QED
      BY <2>1, <3>2, <3>3
  <2>5. Colour'
    BY <1>a, <2>2, <2>3, Zenon DEF Flags, Colour
  <2> QED
    BY <1>a, <2>2, <2>3, <2>4, <2>5, Zenon DEF Flags
<1>6. CASE Create
  BY <1>6, <1>c, Zenon DEF Create
<1>7. CASE Delete
  BY <1>7, <1>c, Zenon DEF Delete
<1>8. CASE Revoke
  BY <1>8, <1>c, Zenon DEF Revoke
<1>9. CASE ShowReport
  BY <1>9, <1>c, Zenon DEF ShowReport
<1>10. CASE Work
  BY <1>10, <1>c, Zenon DEF Work
<1>11. CASE RequestClose
  BY <1>11, <1>c, GoneFlags, Zenon DEF RequestClose, Close
<1>12. CASE AnswerMigration
  BY <1>12, <1>c, GoneFlags, Zenon DEF AnswerMigration, Close
<1>13. CASE AnswerCertificate
  BY <1>13, <1>a, <1>c, <1>d, FailedFlags, Zenon DEF AnswerCertificate
<1>14. CASE AnswerDelete
  BY <1>14, <1>c, Zenon DEF AnswerDelete
<1>15. CASE AnswerOptions
  BY <1>15, <1>c, GoneFlags, Zenon DEF AnswerOptions, StartCloseBackup, StayOpen,
     Close
<1>16. CASE AnswerAudit
  BY <1>16, <1>c, GoneFlags, Zenon DEF AnswerAudit, Close
<1>17. CASE AnswerFailedBackup
  BY <1>17, <1>c, GoneFlags, Zenon DEF AnswerFailedBackup, StartCloseBackup,
     StayOpen, Close
<1>18. CASE Finish
  BY <1>18, <1>c, Zenon DEF Finish
<1>19. CASE Fire
  <2>1. timer' = FALSE /\ (missed' = missed \/ missed' = TRUE)
    BY <1>19, Zenon DEF Fire
  <2>2. /\ client' = client /\ live' = live /\ mark' = mark /\ unsaved' = unsaved
        /\ retrying' = retrying /\ complete' = complete /\ cut' = cut
    BY <1>19, Zenon DEF Fire
  <2>3. timer' \in BOOLEAN /\ missed' \in BOOLEAN
    BY <1>a, <2>1, Zenon DEF Flags
  <2> QED
    BY <1>a, <2>1, <2>2, <2>3, Zenon DEF Flags, Colour
<1>20. CASE IdleReport
  BY <1>20, <1>c, Zenon DEF IdleReport
<1>21. CASE ConnectDone
  <2>1. CASE client' = TRUE /\ Settle(slot.out = "whole", slot.saved)
    BY <1>a, <1>b, <1>d, <2>1, SettleFlags, Zenon
  <2>2. CASE Interrupted(slot.out = "whole")
    BY <1>a, <2>2, InterruptedFlags, Zenon
  <2>3. CASE UNCHANGED connection
    BY <1>c, <2>3, Zenon
  <2>4. CASE client' = FALSE /\ Failed
    BY <1>a, <1>d, <2>4, FailedFlags, Zenon
  <2> QED
    BY <1>21, <2>1, <2>2, <2>3, <2>4, Zenon DEF ConnectDone
<1>22. CASE SyncDone
  BY <1>22, <1>a, <1>b, <1>d, SettleFlags, FailedFlags, RetryFlags, Zenon DEF
     SyncDone, RefreshLost, Flags
<1>23. CASE CreateDone
  BY <1>23, <1>a, <1>b, <1>c, <1>d, SettleFlags, Zenon DEF CreateDone
<1>24. CASE VerifyDone
  BY <1>24, <1>c, Zenon DEF VerifyDone
<1>25. CASE DeleteDone
  BY <1>25, <1>a, <1>b, <1>c, <1>d, SettleFlags, Zenon DEF DeleteDone
<1>26. CASE RereadDone
  <2>1. client' = client
    BY <1>26, Zenon DEF RereadDone
  <2>2. CASE slot.out = "lost"
    BY <1>a, <1>d, <1>26, <2>1, <2>2, FailedFlags, Zenon DEF RereadDone
  <2>3. CASE slot.out # "lost"
    <3>1. /\ retrying' = FALSE /\ timer' = FALSE /\ live' = TRUE
          /\ complete' = (slot.out = "whole") /\ cut' = FALSE /\ missed' = FALSE
      BY <1>26, <2>3, Zenon DEF RereadDone, Succeeded, Stale, ResetRetry
    <3>2. \/ mark' = "clear" /\ unsaved' = FALSE
          \/ mark' = "stale" /\ unsaved' = (unsaved \/ TRUE)
      <4>1. Succeeded \/ Stale(TRUE)
        BY <1>26, <2>3, Zenon DEF RereadDone
      <4> QED
        BY <4>1, Zenon DEF Succeeded, Stale
    <3>3. mark' \in {"clear", "stale", "failed"} /\ mark' # "failed" /\ unsaved' \in BOOLEAN
      BY <3>2, Zenon
    <3> QED
      BY <1>a, <2>1, <3>1, <3>3, Zenon DEF Flags, Colour
  <2> QED
    BY <2>2, <2>3
<1>27. CASE RevokeDone
  BY <1>27, <1>c, Zenon DEF RevokeDone
<1>28. CASE ReportDone
  BY <1>28, <1>c, Zenon DEF ReportDone
<1>29. CASE WorkDone
  BY <1>29, <1>c, Zenon DEF WorkDone
<1>30. CASE BackupDone
  BY <1>30, <1>c, GoneFlags, Zenon DEF BackupDone, Close
<1> QED
  BY <1>1, <1>2, <1>3, <1>4, <1>5, <1>6, <1>7, <1>8, <1>9, <1>10, <1>11, <1>12,
     <1>13, <1>14, <1>15, <1>16, <1>17, <1>18, <1>19, <1>20, <1>21, <1>22, <1>23,
     <1>24, <1>25, <1>26, <1>27, <1>28, <1>29, <1>30, Zenon DEF Next, Operator, Poll

\* How a step may count: it leaves the attempts and schedules nothing, starts
\* over, or uses up one more delay.
CountStep ==
  \/ attempt' = attempt /\ (timer' => timer)
  \/ attempt' = 0 /\ ~timer'
  \/ attempt < Retries /\ attempt' = attempt + 1

\* Every step counts in one of these ways.
LEMMA Counts == IInv /\ Next => CountStep
<1> SUFFICES ASSUME IInv, Next PROVE CountStep
  OBVIOUS
<1>1. CASE Start
  BY <1>1, Zenon DEF Start, CountStep, connection, shell
<1>2. CASE Crash
  BY <1>2, Zenon DEF Crash, Gone, ResetRetry, CountStep, connection, shell
<1>3. CASE Connect
  BY <1>3, Zenon DEF Connect, Command, Failed, ResetRetry, CountStep, connection,
     shell
<1>4. CASE Refresh
  BY <1>4, Zenon DEF Refresh, Command, CountStep, connection, shell
<1>5. CASE HomeSync
  BY <1>5, Zenon DEF HomeSync, Command, ResetRetry, CountStep, connection, shell
<1>6. CASE Create
  BY <1>6, Zenon DEF Create, Command, CountStep, connection, shell
<1>7. CASE Delete
  BY <1>7, Zenon DEF Delete, Command, CountStep, connection, shell
<1>8. CASE Revoke
  BY <1>8, Zenon DEF Revoke, Command, CountStep, connection, shell
<1>9. CASE ShowReport
  BY <1>9, Zenon DEF ShowReport, Command, CountStep, connection, shell
<1>10. CASE Work
  BY <1>10, Zenon DEF Work, Command, CountStep, connection, shell
<1>11. CASE RequestClose
  BY <1>11, Zenon DEF RequestClose, Close, Gone, ResetRetry, CountStep, connection,
     shell
<1>12. CASE AnswerMigration
  BY <1>12, Zenon DEF AnswerMigration, Close, Gone, ResetRetry, CountStep,
     connection, shell
<1>13. CASE AnswerCertificate
  BY <1>13, Zenon DEF AnswerCertificate, Failed, ResetRetry, CountStep, connection,
     shell
<1>14. CASE AnswerDelete
  BY <1>14, Zenon DEF AnswerDelete, CountStep, connection, shell
<1>15. CASE AnswerOptions
  BY <1>15, Zenon DEF AnswerOptions, StartCloseBackup, StayOpen, Close, Gone,
     ResetRetry, CountStep, connection, shell
<1>16. CASE AnswerAudit
  BY <1>16, Zenon DEF AnswerAudit, Close, Gone, ResetRetry, CountStep, connection,
     shell
<1>17. CASE AnswerFailedBackup
  BY <1>17, Zenon DEF AnswerFailedBackup, StartCloseBackup, StayOpen, Close, Gone,
     ResetRetry, CountStep, connection, shell
<1>18. CASE Finish
  BY <1>18, Zenon DEF Finish, CountStep, connection, shell
<1>19. CASE Fire
  BY <1>19, Zenon DEF Fire, CountStep, connection, shell
<1>20. CASE IdleReport
  BY <1>20, Zenon DEF IdleReport, CountStep, connection, shell
<1>21. CASE ConnectDone
  BY <1>21, Zenon DEF ConnectDone, Settle, Interrupted, Succeeded, Stale, Failed,
     ResetRetry, CountStep, connection, shell
<1>22. CASE SyncDone
  BY <1>22, Zenon DEF SyncDone, Settle, Succeeded, Stale, Failed, RefreshLost,
     Retry, ResetRetry, CountStep, connection, shell
<1>23. CASE CreateDone
  BY <1>23, Zenon DEF CreateDone, Settle, Succeeded, Stale, ResetRetry, CountStep,
     connection, shell
<1>24. CASE VerifyDone
  BY <1>24, Zenon DEF VerifyDone, CountStep, connection, shell
<1>25. CASE DeleteDone
  BY <1>25, Zenon DEF DeleteDone, Settle, Succeeded, Stale, ResetRetry, CountStep,
     connection, shell
<1>26. CASE RereadDone
  BY <1>26, Zenon DEF RereadDone, Succeeded, Stale, Failed, ResetRetry, CountStep,
     connection, shell
<1>27. CASE RevokeDone
  BY <1>27, Zenon DEF RevokeDone, CountStep, connection, shell
<1>28. CASE ReportDone
  BY <1>28, Zenon DEF ReportDone, CountStep, connection, shell
<1>29. CASE WorkDone
  BY <1>29, Zenon DEF WorkDone, CountStep, connection, shell
<1>30. CASE BackupDone
  BY <1>30, Zenon DEF BackupDone, Close, Gone, ResetRetry, CountStep, connection,
     shell
<1> QED
  BY <1>1, <1>2, <1>3, <1>4, <1>5, <1>6, <1>7, <1>8, <1>9, <1>10, <1>11, <1>12,
     <1>13, <1>14, <1>15, <1>16, <1>17, <1>18, <1>19, <1>20, <1>21, <1>22, <1>23,
     <1>24, <1>25, <1>26, <1>27, <1>28, <1>29, <1>30 DEF Next, Operator, Poll

\* A callback, an answer, a timer or an idle callback finds the window open.
LEMMA UpWhen ==
  ASSUME IInv
  PROVE  /\ \A kind : Done(kind) /\ kind # "none" => app = "up"
         /\ question # "none" => app = "up"
         /\ reports \/ timer \/ slot.out = "running" => app = "up"
<1>1. app # "up" => slot = NoTask /\ question = "none" /\ ~reports /\ ~timer
  BY Zenon DEF IInv, ShellOK, Closed
<1>2. NoTask.kind = "none" /\ NoTask.out # "running"
  BY DEF NoTask
<1> QED
  BY <1>1, <1>2, Zenon DEF Done

\* Every step keeps the slot, the session row and the backup behind it in order.
LEMMA ShellStep == IInv /\ Next => ShellOK'
<1> SUFFICES ASSUME IInv, Next PROVE ShellOK'
  OBVIOUS
<1>a. reports \in BOOLEAN /\ question \in Questions /\ newer \in BOOLEAN
  BY Zenon DEF IInv, ShellOK
<1>b. /\ "none" \in Questions /\ "options" \in Questions /\ "delete" \in Questions
      /\ "certificate" \in Questions /\ "audit" \in Questions
      /\ "failed backup" \in Questions /\ "migration" \in Questions
  BY Zenon DEF Questions
<1>c. /\ "connect" \in TaskNames /\ "sync" \in TaskNames /\ "create" \in TaskNames
      /\ "verify" \in TaskNames /\ "delete" \in TaskNames /\ "reread" \in TaskNames
      /\ "revoke" \in TaskNames /\ "report" \in TaskNames /\ "backup" \in TaskNames
      /\ "work" \in TaskNames
  BY Zenon DEF TaskNames
<1>1. CASE Start
  <2>1. /\ slot = NoTask /\ ~reports /\ newer \in BOOLEAN
        /\ slot' = slot /\ reports' = reports /\ newer' = newer
        /\ app' = "up" /\ session' = Open
    BY <1>1, <1>a, Zenon DEF Start, IInv, ShellOK, Closed
  <2>2. question' \in Questions
    BY <1>1, <1>b, Zenon DEF Start
  <2>3. session' \in Sessions /\ session'.backup # "SUCCESS" /\ slot'.kind # "backup"
    BY <2>1, SessionFacts DEF NoTask
  <2>4. app' # "off"
    BY <2>1
  <2> QED
    BY <1>a, <2>1, <2>2, <2>3, <2>4, Zenon DEF ShellOK, Closed, BackupFresh, BackupCoversArchive
<1>2. CASE Crash
  BY <1>2, GoneStep, Zenon DEF Crash
<1>3. CASE Connect
  <2>1. app = "up"
    BY <1>3, Zenon DEF Connect, Command
  <2>2. app' = app /\ session' = session /\ question' \in Questions /\ reports' \in BOOLEAN
    BY <1>3, <1>a, <1>b, Zenon DEF Connect, Command, shell
  <2>3. SlotStep
    BY <1>3, <1>c, Zenon DEF SlotStep, Connect, Command
  <2> QED
    BY <2>1, <2>2, <2>3, WindowStep, Zenon
<1>4. CASE Refresh
  <2>1. app = "up"
    BY <1>4, Zenon DEF Refresh, Command
  <2>2. app' = app /\ session' = session /\ question' \in Questions /\ reports' \in BOOLEAN
    BY <1>4, <1>a, <1>b, Zenon DEF Refresh, Command, shell
  <2>3. SlotStep
    BY <1>4, <1>c, Zenon DEF SlotStep, Refresh, Command
  <2> QED
    BY <2>1, <2>2, <2>3, WindowStep, Zenon
<1>5. CASE HomeSync
  <2>1. app = "up"
    BY <1>5, Zenon DEF HomeSync, Command
  <2>2. app' = app /\ session' = session /\ question' \in Questions /\ reports' \in BOOLEAN
    BY <1>5, <1>a, <1>b, Zenon DEF HomeSync, Command, shell
  <2>3. SlotStep
    BY <1>5, <1>c, Zenon DEF SlotStep, HomeSync, Command
  <2> QED
    BY <2>1, <2>2, <2>3, WindowStep, Zenon
<1>6. CASE Create
  <2>1. app = "up"
    BY <1>6, Zenon DEF Create, Command
  <2>2. app' = app /\ session' = session /\ question' \in Questions /\ reports' \in BOOLEAN
    BY <1>6, <1>a, <1>b, Zenon DEF Create, Command, shell
  <2>3. SlotStep
    BY <1>6, <1>c, Zenon DEF SlotStep, Create, Command
  <2> QED
    BY <2>1, <2>2, <2>3, WindowStep, Zenon
<1>7. CASE Delete
  <2>1. app = "up"
    BY <1>7, Zenon DEF Delete, Command
  <2>2. app' = app /\ session' = session /\ question' \in Questions /\ reports' \in BOOLEAN
    BY <1>7, <1>a, <1>b, Zenon DEF Delete, Command, shell
  <2>3. SlotStep
    BY <1>7, <1>c, Zenon DEF SlotStep, Delete, Command
  <2> QED
    BY <2>1, <2>2, <2>3, WindowStep, Zenon
<1>8. CASE Revoke
  <2>1. app = "up"
    BY <1>8, Zenon DEF Revoke, Command
  <2>2. app' = app /\ session' = session /\ question' \in Questions /\ reports' \in BOOLEAN
    BY <1>8, <1>a, <1>b, Zenon DEF Revoke, Command, shell
  <2>3. SlotStep
    BY <1>8, <1>c, Zenon DEF SlotStep, Revoke, Command
  <2> QED
    BY <2>1, <2>2, <2>3, WindowStep, Zenon
<1>9. CASE ShowReport
  <2>1. app = "up"
    BY <1>9, Zenon DEF ShowReport, Command
  <2>2. app' = app /\ session' = session /\ question' \in Questions /\ reports' \in BOOLEAN
    BY <1>9, <1>a, <1>b, Zenon DEF ShowReport, Command, shell
  <2>3. SlotStep
    BY <1>9, <1>c, Zenon DEF SlotStep, ShowReport, Command
  <2> QED
    BY <2>1, <2>2, <2>3, WindowStep, Zenon
<1>10. CASE Work
  <2>1. app = "up"
    BY <1>10, Zenon DEF Work, Command
  <2>2. app' = app /\ session' = session /\ question' \in Questions /\ reports' \in BOOLEAN
    BY <1>10, <1>a, <1>b, Zenon DEF Work, Command, shell
  <2>3. SlotStep
    BY <1>10, <1>c, Zenon DEF SlotStep, Work, Command
  <2> QED
    BY <2>1, <2>2, <2>3, WindowStep, Zenon
<1>11. CASE RequestClose
  <2>1. CASE Close("CLOSED", "DISABLED")
    BY <2>1, SessionFacts, CloseStep, Zenon
  <2>2. CASE question' = "options" /\ UNCHANGED <<app, session, slot, reports, newer, connection>>
    BY <1>11, <1>a, <1>b, <2>2, WindowStep, Zenon DEF SlotStep, RequestClose
  <2> QED
    BY <1>11, <2>1, <2>2, Zenon DEF RequestClose
<1>12. CASE AnswerMigration
  <2>1. app = "up"
    BY <1>12, UpWhen, Zenon DEF AnswerMigration
  <2>2. CASE question' = "none" /\ UNCHANGED <<app, session, slot, connection, reports, newer>>
    BY <1>a, <1>b, <2>1, <2>2, WindowStep, Zenon DEF SlotStep
  <2>3. CASE Close("MIGRATION_DEFERRED", "NOT_REQUIRED")
    BY <2>3, SessionFacts, CloseStep, Zenon
  <2> QED
    BY <1>12, <2>2, <2>3, Zenon DEF AnswerMigration
<1>13. CASE AnswerCertificate
  <2>1. app = "up"
    BY <1>13, UpWhen, Zenon DEF AnswerCertificate
  <2>2. app' = app /\ session' = session /\ question' \in Questions /\ reports' \in BOOLEAN
    BY <1>13, <1>a, <1>b, Zenon DEF AnswerCertificate, shell
  <2>3. SlotStep
    BY <1>13, <1>c, Zenon DEF SlotStep, AnswerCertificate
  <2> QED
    BY <2>1, <2>2, <2>3, WindowStep, Zenon
<1>14. CASE AnswerDelete
  <2>1. app = "up"
    BY <1>14, UpWhen, Zenon DEF AnswerDelete
  <2>2. app' = app /\ session' = session /\ question' \in Questions /\ reports' \in BOOLEAN
    BY <1>14, <1>a, <1>b, Zenon DEF AnswerDelete, shell
  <2>3. SlotStep
    BY <1>14, <1>c, Zenon DEF SlotStep, AnswerDelete
  <2> QED
    BY <2>1, <2>2, <2>3, WindowStep, Zenon
<1>15. CASE AnswerOptions
  <2>1. app = "up"
    BY <1>15, UpWhen, Zenon DEF AnswerOptions
  <2>2. CASE StartCloseBackup
    <3>1. SlotStep
      BY <1>c, <2>2, Zenon DEF SlotStep, StartCloseBackup
    <3> QED
      BY <1>a, <1>b, <2>1, <2>2, <3>1, WindowStep, Zenon DEF StartCloseBackup
  <2>3. CASE StayOpen
    BY <1>a, <1>b, <2>1, <2>3, WindowStep, Zenon DEF SlotStep, StayOpen
  <2>4. CASE Close("CLOSED_WITHOUT_BACKUP", "SKIPPED")
    BY <2>4, SessionFacts, CloseStep, Zenon
  <2> QED
    BY <1>15, <2>2, <2>3, <2>4, Zenon DEF AnswerOptions
<1>16. CASE AnswerAudit
  BY <1>16, SessionFacts, CloseStep, Zenon DEF AnswerAudit
<1>17. CASE AnswerFailedBackup
  <2>1. app = "up"
    BY <1>17, UpWhen, Zenon DEF AnswerFailedBackup
  <2>2. CASE StartCloseBackup
    <3>1. SlotStep
      BY <1>c, <2>2, Zenon DEF SlotStep, StartCloseBackup
    <3> QED
      BY <1>a, <1>b, <2>1, <2>2, <3>1, WindowStep, Zenon DEF StartCloseBackup
  <2>3. CASE StayOpen
    BY <1>a, <1>b, <2>1, <2>3, WindowStep, Zenon DEF SlotStep, StayOpen
  <2>4. CASE Close("CLOSED_WITHOUT_BACKUP", "FAILED")
    BY <2>4, SessionFacts, CloseStep, Zenon
  <2> QED
    BY <1>17, <2>2, <2>3, <2>4, Zenon DEF AnswerFailedBackup
<1>18. CASE Finish
  <2>1. app = "up"
    BY <1>18, UpWhen, Zenon DEF Finish
  <2>2. slot \in Tasks \cup {NoTask}
    BY Zenon DEF IInv, ShellOK
  <2>3. slot' \in Tasks /\ slot'.kind = slot.kind
    BY <1>18, <2>2, FinishFacts, Zenon
  <2>4. UNCHANGED <<app, session, question, reports, newer>>
    BY <1>18, Zenon DEF Finish, shell
  <2>5. app' # "off"
    BY <2>1, <2>4
  <2> QED
    BY <2>3, <2>4, <2>5, Zenon DEF IInv, ShellOK, Closed, BackupFresh, BackupCoversArchive
<1>19. CASE Fire
  <2>1. app = "up"
    BY <1>19, UpWhen, Zenon DEF Fire
  <2>2. app' = app /\ session' = session /\ question' \in Questions /\ reports' \in BOOLEAN
    BY <1>19, <1>a, <1>b, Zenon DEF Fire, shell
  <2>3. SlotStep
    BY <1>19, <1>c, Zenon DEF SlotStep, Fire
  <2> QED
    BY <2>1, <2>2, <2>3, WindowStep, Zenon
<1>20. CASE IdleReport
  <2>1. app = "up"
    BY <1>20, UpWhen, Zenon DEF IdleReport
  <2>2. app' = app /\ session' = session /\ question' \in Questions /\ reports' \in BOOLEAN
    BY <1>20, <1>a, <1>b, Zenon DEF IdleReport, shell
  <2>3. SlotStep
    BY <1>20, <1>c, Zenon DEF SlotStep, IdleReport
  <2> QED
    BY <2>1, <2>2, <2>3, WindowStep, Zenon
<1>21. CASE ConnectDone
  <2>1. app = "up"
    BY <1>21, UpWhen, Zenon DEF ConnectDone
  <2>2. app' = app /\ session' = session /\ question' \in Questions /\ reports' \in BOOLEAN
    BY <1>21, <1>a, <1>b, Zenon DEF ConnectDone, shell
  <2>3. SlotStep
    BY <1>21, <1>c, Zenon DEF SlotStep, ConnectDone, MaybeRecovery
  <2> QED
    BY <2>1, <2>2, <2>3, WindowStep, Zenon
<1>22. CASE SyncDone
  <2>1. app = "up"
    BY <1>22, UpWhen, Zenon DEF SyncDone
  <2>2. app' = app /\ session' = session /\ question' \in Questions /\ reports' \in BOOLEAN
    BY <1>22, <1>a, <1>b, Zenon DEF SyncDone, shell
  <2>3. SlotStep
    BY <1>22, <1>c, Zenon DEF SlotStep, SyncDone, MaybeRecovery
  <2> QED
    BY <2>1, <2>2, <2>3, WindowStep, Zenon
<1>23. CASE CreateDone
  <2>1. app = "up"
    BY <1>23, UpWhen, Zenon DEF CreateDone
  <2>2. app' = app /\ session' = session /\ question' \in Questions /\ reports' \in BOOLEAN
    BY <1>23, <1>a, <1>b, Zenon DEF CreateDone, shell
  <2>3. SlotStep
    BY <1>23, <1>c, Zenon DEF SlotStep, CreateDone
  <2> QED
    BY <2>1, <2>2, <2>3, WindowStep, Zenon
<1>24. CASE VerifyDone
  <2>1. app = "up"
    BY <1>24, UpWhen, Zenon DEF VerifyDone
  <2>2. app' = app /\ session' = session /\ question' \in Questions /\ reports' \in BOOLEAN
    BY <1>24, <1>a, <1>b, Zenon DEF VerifyDone, shell
  <2>3. SlotStep
    BY <1>24, <1>c, Zenon DEF SlotStep, VerifyDone
  <2> QED
    BY <2>1, <2>2, <2>3, WindowStep, Zenon
<1>25. CASE DeleteDone
  <2>1. app = "up"
    BY <1>25, UpWhen, Zenon DEF DeleteDone
  <2>2. app' = app /\ session' = session /\ question' \in Questions /\ reports' \in BOOLEAN
    BY <1>25, <1>a, <1>b, Zenon DEF DeleteDone, shell
  <2>3. SlotStep
    BY <1>25, <1>c, Zenon DEF SlotStep, DeleteDone
  <2> QED
    BY <2>1, <2>2, <2>3, WindowStep, Zenon
<1>26. CASE RereadDone
  <2>1. app = "up"
    BY <1>26, UpWhen, Zenon DEF RereadDone
  <2>2. app' = app /\ session' = session /\ question' \in Questions /\ reports' \in BOOLEAN
    BY <1>26, <1>a, <1>b, Zenon DEF RereadDone, shell
  <2>3. SlotStep
    BY <1>26, <1>c, Zenon DEF SlotStep, RereadDone
  <2> QED
    BY <2>1, <2>2, <2>3, WindowStep, Zenon
<1>27. CASE RevokeDone
  <2>1. app = "up"
    BY <1>27, UpWhen, Zenon DEF RevokeDone
  <2>2. app' = app /\ session' = session /\ question' \in Questions /\ reports' \in BOOLEAN
    BY <1>27, <1>a, <1>b, Zenon DEF RevokeDone, shell
  <2>3. SlotStep
    BY <1>27, <1>c, Zenon DEF SlotStep, RevokeDone
  <2> QED
    BY <2>1, <2>2, <2>3, WindowStep, Zenon
<1>28. CASE ReportDone
  <2>1. app = "up"
    BY <1>28, UpWhen, Zenon DEF ReportDone
  <2>2. app' = app /\ session' = session /\ question' \in Questions /\ reports' \in BOOLEAN
    BY <1>28, <1>a, <1>b, Zenon DEF ReportDone, shell
  <2>3. SlotStep
    BY <1>28, <1>c, Zenon DEF SlotStep, ReportDone
  <2> QED
    BY <2>1, <2>2, <2>3, WindowStep, Zenon
<1>29. CASE WorkDone
  <2>1. app = "up"
    BY <1>29, UpWhen, Zenon DEF WorkDone
  <2>2. app' = app /\ session' = session /\ question' \in Questions /\ reports' \in BOOLEAN
    BY <1>29, <1>a, <1>b, Zenon DEF WorkDone, shell
  <2>3. SlotStep
    BY <1>29, <1>c, Zenon DEF SlotStep, WorkDone
  <2> QED
    BY <2>1, <2>2, <2>3, WindowStep, Zenon
<1>30. CASE BackupDone
  <2>1. app = "up"
    BY <1>30, UpWhen, Zenon DEF BackupDone
  <2>2. CASE Close("CLOSED", "SUCCESS")
    <3>1. ~newer
      BY <1>30, Zenon DEF IInv, ShellOK, BackupFresh, BackupDone, Done
    <3> QED
      BY <2>2, <3>1, SessionFacts, CloseStep, Zenon
  <2>3. CASE /\ question' = IF slot.out = "whole" THEN "audit" ELSE "failed backup"
             /\ Release
             /\ UNCHANGED <<app, session, reports, connection>>
    BY <1>a, <1>b, <2>1, <2>3, WindowStep, Zenon DEF SlotStep
  <2> QED
    BY <1>30, <2>2, <2>3, Zenon DEF BackupDone
<1> QED
  BY <1>1, <1>2, <1>3, <1>4, <1>5, <1>6, <1>7, <1>8, <1>9, <1>10, <1>11, <1>12,
     <1>13, <1>14, <1>15, <1>16, <1>17, <1>18, <1>19, <1>20, <1>21, <1>22, <1>23,
     <1>24, <1>25, <1>26, <1>27, <1>28, <1>29, <1>30, Zenon DEF Next, Operator, Poll

\* The invariant is inductive.
LEMMA StepHolds == IInv /\ [Next]_vars => IInv'
<1> SUFFICES ASSUME IInv, [Next]_vars PROVE IInv'
  OBVIOUS
<1>1. CASE Next
  <2>1. Count'
    <3>1. Count /\ CountStep
      BY <1>1, Counts, Zenon DEF IInv
    <3> QED
      BY <3>1, RetriesAssumption DEF Count, CountStep
  <2> QED
    BY <1>1, <2>1, FlagsStep, ShellStep, Zenon DEF IInv
<1>2. CASE UNCHANGED vars
  <2>1. Flags'
    BY <1>2, Zenon DEF vars, IInv, Flags, Colour
  <2>2. Count'
    BY <1>2, Zenon DEF vars, IInv, Count
  <2>3. ShellOK'
    BY <1>2, Zenon DEF vars, IInv, ShellOK, Closed, BackupFresh, BackupCoversArchive
  <2> QED
    BY <2>1, <2>2, <2>3, Zenon DEF IInv
<1> QED
  BY <1>1, <1>2

\* The invariant holds in every state the program reaches.
THEOREM InvariantHolds == Spec => []IInv
<1>1. Init => IInv
  BY InitHolds
<1>2. IInv /\ [Next]_vars => IInv'
  BY StepHolds
<1> QED
  BY <1>1, <1>2, PTL DEF Spec

\* The variables keep their types; the attempts never exceed the delays of
\* _CONTROLLER_RETRY_DELAYS_MS.
THEOREM TypeCorrect == Spec => []TypeOK
<1>1. IInv => TypeOK
  BY Zenon DEF IInv, Flags, Count, ShellOK, TypeOK
<1> QED
  BY <1>1, InvariantHolds, PTL

\* Green is shown only over figures that are live, the amber of the reconnect
\* and red only over suspended ones (build_controller_workspace_status), but
\* from a connection whose settings write failed to the next verdict.
THEOREM HealthAlwaysHonest == Spec => []HealthHonest
<1>1. IInv => HealthHonest
  <2> SUFFICES ASSUME IInv PROVE HealthHonest
    OBVIOUS
  <2>1. CASE retrying
    <3>1. Health = "retrying"
      BY <2>1 DEF Health
    <3> QED
      BY <2>1, <3>1, Zenon DEF HealthHonest, IInv, Flags, Colour
  <2>2. CASE ~retrying /\ slot.kind \in {"connect", "sync", "reread"}
    <3>1. Health = "syncing"
      BY <2>2 DEF Health
    <3> QED
      BY <2>1, <3>1, Zenon DEF HealthHonest
  <2>3. CASE ~retrying /\ ~(slot.kind \in {"connect", "sync", "reread"})
    <3>1. Health = "error" => mark = "failed"
      BY <2>3 DEF Health
    <3>2. Health # "retrying"
      BY <2>3 DEF Health
    <3>3. Health = "connected" => client /\ ~(mark = "stale" \/ unsaved) /\ mark # "failed"
      BY <2>3 DEF Health
    <3> QED
      BY <2>3, <3>1, <3>2, <3>3, Zenon DEF HealthHonest, IInv, Flags, Colour
  <2> QED
    BY <2>1, <2>2, <2>3
<1> QED
  BY <1>1, InvariantHolds, PTL

\* A scheduled retry belongs to the reconnect in progress, whose figures are
\* suspended unless a connection was taken over without a verdict since.
THEOREM TimerAlwaysBelongs == Spec => []TimerBelongs
<1>1. IInv => TimerBelongs
  <2> SUFFICES ASSUME IInv, timer
               PROVE  retrying /\ client /\ attempt \in 1 .. Retries /\ (live => cut)
    BY Zenon DEF TimerBelongs
  <2>1. retrying /\ client /\ (live => cut) /\ Count /\ attempt # 0
    BY Zenon DEF IInv, Flags, Count
  <2>2. attempt \in 1 .. Retries
    BY <2>1, RetriesAssumption DEF Count
  <2> QED
    BY <2>1, <2>2, Zenon
<1> QED
  BY <1>1, InvariantHolds, PTL

\* A session row that says SUCCESS was written after a backup which no task
\* that writes followed.
THEOREM BackupAlwaysCovers == Spec => []BackupCoversArchive
<1>1. IInv => BackupCoversArchive
  BY Zenon DEF IInv, ShellOK
<1> QED
  BY <1>1, InvariantHolds, PTL
=============================================================================
