------------------------------ MODULE PrintAudit ------------------------------
(***************************************************************************)
(* The audit of physical prints.                                           *)
(*                                                                         *)
(* A job is prepared as a marker file, submitted to Windows, promoted to   *)
(* "submitted", recorded in the HMAC history (an append-only file), then   *)
(* in SQLite (one transaction), and only then is the marker removed.  The  *)
(* worker of the preview does the first part, the Tk callback of its       *)
(* completion the second, and the callback does nothing once its window is *)
(* closed.  Startup, the settings page and a window that still remembers   *)
(* the job may each complete an audit that was left pending.               *)
(*                                                                         *)
(* pc is the step of the background task and its callback (background work *)
(* is serialised), owner its preview window ({} for startup and settings). *)
(* The reprint question is modal but lets a running task complete, so it   *)
(* is kept apart in asked.  All vouchers are aligned and not yet printed.  *)
(*                                                                         *)
(* The Windows users who share the workstation share every file, the       *)
(* marker and SQLite.  SQLite keeps who recorded a job and takes the same  *)
(* job again only from that user; the marker does not keep who printed.    *)
(***************************************************************************)
EXTENDS Naturals, Sequences

CONSTANTS
  Voucher,  \* vouchers of the archive
  Window,   \* preview windows that may be open together
  User,     \* Windows users of the data root, one if it is not shared
  MaxJobs   \* bound: print jobs prepared

ASSUME PrintAssumption == MaxJobs \in Nat

VARIABLES
  paper,     \* jobs the printer has put on paper
  jobs,      \* number of the last job prepared
  labels,    \* vouchers on the document of each job
  marker,    \* file: the pending print audit
  hmac,      \* file: print rows of each job and voucher in the history
  readable,  \* file: the history has no torn line
  sql,       \* SQLite: audited jobs in the order of their insertion
  auditor,   \* SQLite: the user each of them was recorded by, as a set
  user,      \* memory: the user of the running process, {} if down
  deleted,   \* vouchers deleted from the controller
  shown,     \* memory: the vouchers of the application model
  sheet,     \* memory: vouchers of the document in each window, {} if closed
  retry,     \* memory: the job a window still offers to register, or 0
  asked,     \* memory: the open reprint question and the reprints it names
  pc,        \* step of the task in progress
  owner,     \* its window, {} for startup and settings
  job        \* its job

vars == <<paper, jobs, labels, marker, hmac, readable, sql, auditor, user,
          deleted, shown, sheet, retry, asked, pc, owner, job>>

printer == <<paper, jobs, labels>>
history == <<hmac, readable>>
archive == <<sql, auditor>>
fleet   == <<deleted, shown>>
screen  == <<sheet, retry, asked>>
task    == <<pc, owner, job>>

Job == 1..MaxJobs

NoMarker   == [state |-> "none", job |-> 0]
Marker     == [state : {"prepared", "submitted"}, job : Job] \cup {NoMarker}
NoQuestion == [window |-> {}, known |-> {}]

TypeOK ==
  /\ paper \subseteq Job /\ jobs \in 0..MaxJobs
  /\ labels \in [Job -> SUBSET Voucher] /\ marker \in Marker
  /\ hmac \in [Job -> [Voucher -> Nat]] /\ readable \in BOOLEAN
  /\ sql \in Seq(Job) /\ auditor \in [Job -> SUBSET User] /\ user \subseteq User
  /\ deleted \subseteq Voucher /\ shown \subseteq Voucher
  /\ sheet \in [Window -> SUBSET Voucher] /\ retry \in [Window -> 0..MaxJobs]
  /\ asked \in [window : SUBSET Window, known : SUBSET Voucher]
  /\ pc \in {"down", "idle", "printing", "sent", "recording", "auditing",
             "finalizing"}
  /\ owner \subseteq Window /\ job \in 0..MaxJobs

Init ==
  /\ paper = {} /\ jobs = 0 /\ labels = [j \in Job |-> {}]
  /\ marker = NoMarker
  /\ hmac = [j \in Job |-> [v \in Voucher |-> 0]] /\ readable = TRUE
  /\ sql = <<>> /\ auditor = [j \in Job |-> {}] /\ user = {}
  /\ deleted = {} /\ shown = {}
  /\ sheet = [w \in Window |-> {}] /\ retry = [w \in Window |-> 0]
  /\ asked = NoQuestion
  /\ pc = "down" /\ owner = {} /\ job = 0

-----------------------------------------------------------------------------

Recorded == {sql[i] : i \in 1..Len(sql)}

\* Vouchers with a print job, which are the ones whose state is PRINTED.
Printed == UNION {labels[j] : j \in Recorded}

\* Vouchers with a print row in the HMAC history.
InHistory == {v \in Voucher : \E j \in Job : hmac[j][v] > 0}

\* No background task runs and no modal question is open.
Free == pc = "idle" /\ asked = NoQuestion

Begins(step, who, j) == pc' = step /\ owner' = who /\ job' = j

Ends == Begins("idle", {}, 0)

-----------------------------------------------------------------------------
(* The preview: generation, the reprint question, the print.               *)

\* The PDF is generated, and its generation appended to a readable history,
\* before the preview opens; a failed append may leave a torn line.
OpenPreview ==
  /\ Free /\ readable
  /\ \/ /\ \E w \in Window, S \in (SUBSET shown) \ {{}} :
             sheet[w] = {} /\ sheet' = [sheet EXCEPT ![w] = S]
        /\ UNCHANGED readable
     \/ readable' = FALSE /\ UNCHANGED sheet
  /\ UNCHANGED <<printer, marker, hmac, archive, user, fleet, retry, asked, task>>

CloseWindow ==
  /\ pc # "down"
  /\ \E w \in Window \ asked.window :
       /\ sheet[w] # {}
       /\ sheet' = [sheet EXCEPT ![w] = {}] /\ retry' = [retry EXCEPT ![w] = 0]
  /\ UNCHANGED <<printer, marker, history, archive, user, fleet, asked, task>>

\* Mutant of Prepares: an earlier unresolved audit does not block the print.
PreparesUnchecked(w) ==
  /\ jobs < MaxJobs /\ jobs' = jobs + 1
  /\ labels' = [labels EXCEPT ![jobs'] = sheet[w]]
  /\ marker' = [state |-> "prepared", job |-> jobs']
  /\ Begins("printing", {w}, jobs')

\* The worker writes the marker before it enters the Windows API.
Prepares(w) ==
  /\ marker = NoMarker
  /\ jobs < MaxJobs /\ jobs' = jobs + 1
  /\ labels' = [labels EXCEPT ![jobs'] = sheet[w]]
  /\ marker' = [state |-> "prepared", job |-> jobs']
  /\ Begins("printing", {w}, jobs')

\* The print button: not while the print of the same window is running.
Pressed(w) == sheet[w] # {} /\ pc # "down" /\ asked = NoQuestion /\ w \notin owner

PrintFirst ==
  /\ pc = "idle"
  /\ \E w \in Window :
       Pressed(w) /\ sheet[w] \cap Printed = {} /\ Prepares(w)
  /\ UNCHANGED <<paper, history, archive, user, fleet, screen>>

AskReprint ==
  /\ \E w \in Window :
       /\ Pressed(w) /\ sheet[w] \cap Printed # {}
       /\ asked' = [window |-> {w}, known |-> sheet[w] \cap Printed]
  /\ UNCHANGED <<printer, marker, history, archive, user, fleet, sheet, retry, task>>

AcceptReprint ==
  /\ pc = "idle" /\ \E w \in asked.window : Prepares(w)
  /\ asked' = NoQuestion
  /\ UNCHANGED <<paper, history, archive, user, fleet, sheet, retry>>

\* Declined; or accepted while a task runs or an audit is pending.
DropReprint ==
  /\ asked # NoQuestion /\ asked' = NoQuestion
  /\ UNCHANGED <<printer, marker, history, archive, user, fleet, sheet, retry, task>>

Submitted ==
  /\ pc = "printing" /\ pc' = "sent" /\ paper' = paper \cup {job}
  /\ UNCHANGED <<jobs, labels, marker, history, archive, user, fleet, screen, owner, job>>

\* The API raised: the document may be on paper, the marker stays prepared.
SubmitRaised ==
  /\ pc = "printing" /\ Ends /\ paper' \in {paper, paper \cup {job}}
  /\ UNCHANGED <<jobs, labels, marker, history, archive, user, fleet, screen>>

-----------------------------------------------------------------------------
(* The audit: marker, HMAC history, SQLite, marker.                         *)

\* A window that is still open remembers the job for REGISTRA STAMPA.
Unaudited ==
  /\ Ends
  /\ retry' = [w \in Window |-> IF w \in owner /\ sheet[w] # {} THEN job
                                                               ELSE retry[w]]

MarkSubmitted ==
  /\ pc = "sent" /\ pc' = "recording"
  /\ marker' = [marker EXCEPT !.state = "submitted"]
  /\ UNCHANGED <<printer, history, archive, user, fleet, screen, owner, job>>

MarkFailed ==
  /\ pc = "sent" /\ Unaudited
  /\ UNCHANGED <<printer, marker, history, archive, user, fleet, sheet, asked>>

\* Mutant of Missing: a retry appends every row of the job again.
MissingIgnored == labels[job]

\* Rows of the job the history does not hold yet.
Missing == {v \in labels[job] : hmac[job][v] = 0}

Appended(S) ==
  hmac' = [hmac EXCEPT ![job] =
             [v \in Voucher |-> IF v \in S THEN @[v] + 1 ELSE @[v]]]

RowsAppended ==
  /\ pc = "recording" /\ readable
  /\ Appended(Missing) /\ pc' = "auditing"
  /\ UNCHANGED <<printer, marker, readable, archive, user, fleet, screen, owner, job>>

\* An unreadable history; or an append cut short, perhaps inside a line.
RowsFailed ==
  /\ pc = "recording" /\ Unaudited
  /\ \/ readable /\ readable' \in BOOLEAN /\ \E S \in SUBSET Missing : Appended(S)
     \/ ~readable /\ UNCHANGED history
  /\ UNCHANGED <<printer, marker, archive, user, fleet, sheet, asked>>

\* The callback of a closed window does nothing; settings and startup find
\* the printed vouchers only among those of the application model.  A job
\* that another user has recorded is refused as one with different data.
AuditPossible ==
  /\ IF owner = {} THEN labels[job] \subseteq shown
                   ELSE \E w \in owner : sheet[w] # {}
  /\ job \in Recorded => auditor[job] = user

\* Mutant of SqlCommitted: a job already audited is inserted again.
SqlCommittedAgain ==
  /\ pc = "auditing" /\ AuditPossible /\ pc' = "finalizing"
  /\ sql' = Append(sql, job) /\ auditor' = [auditor EXCEPT ![job] = user]
  /\ UNCHANGED <<printer, marker, history, user, fleet, screen, owner, job>>

SqlCommitted ==
  /\ pc = "auditing" /\ AuditPossible /\ pc' = "finalizing"
  /\ IF job \in Recorded
     THEN UNCHANGED archive
     ELSE sql' = Append(sql, job) /\ auditor' = [auditor EXCEPT ![job] = user]
  /\ UNCHANGED <<printer, marker, history, user, fleet, screen, owner, job>>

SqlRefused ==
  /\ pc = "auditing" /\ Unaudited
  /\ UNCHANGED <<printer, marker, history, archive, user, fleet, sheet, asked>>

Finalized ==
  /\ pc = "finalizing" /\ Ends
  /\ marker.job = job /\ marker' = NoMarker
  /\ retry' = [w \in Window |-> IF w \in owner THEN 0 ELSE retry[w]]
  /\ UNCHANGED <<printer, history, archive, user, fleet, sheet, asked>>

FinalizeFailed ==
  /\ pc = "finalizing" /\ Unaudited
  /\ UNCHANGED <<printer, marker, history, archive, user, fleet, sheet, asked>>

-----------------------------------------------------------------------------
(* Completing a pending audit.                                             *)

\* REGISTRA STAMPA of a window: the marker is written again if it is gone.
Register ==
  /\ Free
  /\ \E w \in Window :
       /\ retry[w] # 0 /\ marker.job \in {0, retry[w]}
       /\ marker' = [state |-> "submitted", job |-> retry[w]]
       /\ Begins("recording", {w}, retry[w])
  /\ UNCHANGED <<printer, history, archive, user, fleet, screen>>

RecoverSubmitted ==
  /\ Free /\ marker.state = "submitted"
  /\ Begins("recording", {}, marker.job)
  /\ UNCHANGED <<printer, marker, history, archive, user, fleet, screen>>

\* The operator looks whether the document of a prepared job is on paper.
RecoverPrepared ==
  /\ Free /\ marker.state = "prepared" /\ marker.job \in paper
  /\ marker' = [marker EXCEPT !.state = "submitted"]
  /\ Begins("recording", {}, marker.job)
  /\ UNCHANGED <<printer, history, archive, user, fleet, screen>>

\* Mutants of Discard: the job number stays behind; the wrong answer discards.
DiscardPartly ==
  /\ Free /\ marker.state = "prepared" /\ marker.job \notin paper
  /\ marker' = [marker EXCEPT !.state = "none"]
  /\ UNCHANGED <<printer, history, archive, user, fleet, screen, task>>

DiscardPrinted ==
  /\ Free /\ marker.state = "prepared" /\ marker.job \in paper
  /\ marker' = NoMarker
  /\ UNCHANGED <<printer, history, archive, user, fleet, screen, task>>

Discard ==
  /\ Free /\ marker.state = "prepared" /\ marker.job \notin paper
  /\ marker' = NoMarker
  /\ UNCHANGED <<printer, history, archive, user, fleet, screen, task>>

-----------------------------------------------------------------------------
(* Deletion, synchronisation, crash and start.                             *)

\* The ordinary deletion, for vouchers no store knows as printed.
Delete ==
  /\ Free /\ readable
  /\ \E v \in shown \ deleted :
       /\ v \notin Printed \cup InHistory
       /\ deleted' = deleted \cup {v} /\ shown' = shown \ {v}
  /\ UNCHANGED <<printer, marker, history, archive, user, screen, task>>

Sync ==
  /\ Free /\ shown' = Voucher \ deleted
  /\ UNCHANGED <<printer, marker, history, archive, user, deleted, screen, task>>

\* The process stops at any step, in an append even inside a line.
Crash ==
  /\ pc # "down" /\ Begins("down", {}, 0)
  /\ paper' \in IF pc = "printing" THEN {paper, paper \cup {job}} ELSE {paper}
  /\ \/ /\ pc = "recording" /\ readable /\ readable' \in BOOLEAN
        /\ \E S \in SUBSET Missing : Appended(S)
     \/ UNCHANGED history
  /\ sheet' = [w \in Window |-> {}] /\ retry' = [w \in Window |-> 0]
  /\ asked' = NoQuestion /\ shown' = {} /\ user' = {}
  /\ UNCHANGED <<jobs, labels, marker, archive, deleted>>

\* Startup, by any user of the data root, shows the whole archive and
\* completes only a submitted audit.
Start ==
  /\ pc = "down" /\ shown' = Voucher /\ \E u \in User : user' = {u}
  /\ IF marker.state = "submitted" THEN Begins("recording", {}, marker.job)
                                   ELSE Ends
  /\ UNCHANGED <<printer, marker, history, archive, deleted, screen>>

-----------------------------------------------------------------------------

Printing ==
  \/ OpenPreview \/ CloseWindow \/ PrintFirst \/ AskReprint \/ AcceptReprint
  \/ DropReprint \/ Submitted \/ SubmitRaised

Audit ==
  \/ MarkSubmitted \/ MarkFailed \/ RowsAppended \/ RowsFailed
  \/ SqlCommitted \/ SqlRefused \/ Finalized \/ FinalizeFailed

Recover == Register \/ RecoverSubmitted \/ RecoverPrepared \/ Discard

Next == Printing \/ Audit \/ Recover \/ Delete \/ Sync \/ Crash \/ Start

Spec == Init /\ [][Next]_vars

-----------------------------------------------------------------------------
(* Safety.                                                                  *)

Audited(j) == j \in Recorded /\ \A v \in labels[j] : hmac[j][v] > 0

\* No physical print is ever lost: what is on paper is in both stores, or is
\* the job the pending marker names, over every crash, failed write, closed
\* window and competing recovery (print_document, register_print_audit,
\* startup and the settings page).
PrintNeverLost == \A j \in paper : Audited(j) \/ marker.job = j

\* However often an audit is retried, by whom, and wherever the last attempt
\* stopped, the history counts a label once, and only if it was printed.
LabelsOnce ==
  \A j \in Job, v \in Voucher :
    hmac[j][v] > 0 => hmac[j][v] = 1 /\ j \in paper /\ v \in labels[j]

\* The SQLite audit implements the ledger: its jobs are those on paper, in
\* the order of printing, each once, and at most the last one is missing, so
\* the print sequence and the reprint flag it derives are right.
Ledger == INSTANCE PrintLedger WITH ledger <- sql

LedgerKept == Ledger!LedgerSpec

\* A document is sent to the printer only after every reprint on it known to
\* SQLite has been named in the question the operator answered.
ReprintConfirmed ==
  [][jobs' # jobs => labels'[jobs'] \cap Printed \subseteq asked.known]_vars

\* A voucher on paper is no longer deleted by the ordinary deletion.
PrintedNotDeleted ==
  [][\A v \in deleted' \ deleted, j \in paper : v \notin labels[j]]_vars

-----------------------------------------------------------------------------
(* Liveness.                                                                *)

\* No crash, no write error, and an operator who opens no more documents.
Healthy ==
  /\ ~Crash /\ ~OpenPreview /\ ~SubmitRaised /\ ~MarkFailed /\ ~RowsFailed
  /\ ~FinalizeFailed /\ (SqlRefused => ~AuditPossible)

Working == Audit \/ Submitted \/ Start

LiveSpec ==
  /\ Spec /\ WF_vars(Working) /\ WF_vars(DropReprint)
  /\ SF_vars(RecoverSubmitted \/ RecoverPrepared \/ Discard)
  /\ <>[][Healthy]_vars

\* What keeps a printed job pending in a healthy period: a torn history, a
\* printed voucher that has left the model, a job another user has recorded.
\* A job that was prepared and is not on paper is never kept.
Unreadable == ~readable \/ \E v \in labels[marker.job] : v \notin shown

RecordedByAnother == marker.job \in Recorded /\ auditor[marker.job] # user

\* A pending audit, which blocks every print and backup, is resolved once the
\* operator asks for it in a healthy period, but for these printed jobs.
MarkerDrains ==
  []<>(\/ marker = NoMarker
       \/ marker.job \in paper /\ (Unreadable \/ RecordedByAnother))

\* "It supports idempotent recovery after interruption" (SECURITY.md), which
\* the docstring of the recovery rests on one operator per data root.
MarkerDrainsForAll ==
  []<>(marker = NoMarker \/ (marker.job \in paper /\ Unreadable))

=============================================================================
