---------------------------- MODULE VoucherArchive ----------------------------
(***************************************************************************)
(* What the local archive says of vouchers that leave the controller.      *)
(*                                                                         *)
(* A voucher leaves by a preparation deletion (aligned and not printed, or *)
(* made elsewhere without a recipient), by a security revocation (printed, *)
(* never used), or because somebody else removed it.  A DELETE is sent     *)
(* only after its request is an event of the archive; its outcome is read  *)
(* from the reply, from a later list that still holds the voucher, or from *)
(* a direct GET that answers 404.  A list that omits a voucher raises only *)
(* a suspicion.                                                            *)
(*                                                                         *)
(* pc is the step of the one operation in progress (background work is     *)
(* serialised) and work its local variables.  The deletion's reason dialog *)
(* is modal: while it is open (asked) only the automatic retry may run,    *)
(* which is taken to be due at any time.  controller_snapshot_live gates   *)
(* creation alone and belongs to module VoucherCreation.  What the archive *)
(* promises of each voucher is VoucherLife, which this module implements.  *)
(***************************************************************************)
CONSTANTS
  Voucher,      \* UUIDs the controller gives to vouchers
  Nameless,     \* those another station creates without a recipient
  StaleLists,   \* may a list miss vouchers, or still hold removed ones?
  LateDeletes   \* may the controller execute a DELETE after its timeout?

ASSUME ArchiveAssumption ==
  /\ Nameless \subseteq Voucher
  /\ StaleLists \in BOOLEAN /\ LateDeletes \in BOOLEAN

VARIABLES
  remote,     \* vouchers that exist on the controller
  gone,       \* vouchers that existed and were removed; UUIDs do not return
  wire,       \* DELETEs that timed out and may be executed at any later time
  ours,       \* history: vouchers this station's DELETE removed
  open,       \* history: uncertain DELETEs nothing read since has settled
  known,      \* SQLite: vouchers with a row
  present,    \* SQLite: present_on_controller = 1
  suspect,    \* SQLite: missing_observation_count > 0
  aligned,    \* SQLite: alignment completed
  printed,    \* SQLite: a verified physical print
  seen,       \* SQLite: printed, with last_seen_at later than the last print
  deleting,   \* events PREPARATION_DELETE_REQUESTED
  deleted,    \* events PREPARATION_DELETED
  revoking,   \* events SECURITY_REVOKE_REQUESTED
  revoked,    \* events SECURITY_REVOKED
  unapplied,  \* events ..._NOT_APPLIED
  detected,   \* events CONTROLLER_DELETED
  pc,         \* step of the operation in progress
  work,       \* local variables of the operation in progress
  asked,      \* memory: vouchers of the open deletion dialog
  connected,  \* memory: the session holds a UniFi client
  shown       \* memory: the vouchers of the application model

server   == <<remote, gone, wire, ours>>
presence == <<known, present, suspect, seen>>
facts    == <<aligned, printed>>
events   == <<deleting, deleted, revoking, revoked, unapplied, detected>>
archive  == <<presence, facts, events>>
memory   == <<asked, connected, shown>>

vars == <<server, open, archive, pc, work, memory>>

\* list is what will be stored and cached what will be shown; absent are the
\* UUIDs answered 404, in a revocation those revoked so far.
Work == [list : SUBSET Voucher, absent : SUBSET Voucher,
         todo : SUBSET Voucher, batch : SUBSET Voucher,
         cached : SUBSET Voucher, listed : BOOLEAN, refresh : BOOLEAN]

NoWork == [list |-> {}, absent |-> {}, todo |-> {}, batch |-> {},
           cached |-> {}, listed |-> FALSE, refresh |-> FALSE]

SyncSteps   == {"refreshing", "listed", "verified", "stored"}
DeleteSteps == {"deciding", "deleting", "removed", "relisted", "recorded",
                "settled", "recovering", "recovered", "restored"}
RevokeSteps == {"revoking", "sending", "revoked"}
Steps == {"down", "idle"} \cup SyncSteps \cup DeleteSteps \cup RevokeSteps

TypeOK ==
  /\ remote \subseteq Voucher /\ gone \subseteq Voucher
  /\ wire \subseteq Voucher /\ ours \subseteq Voucher /\ open \subseteq Voucher
  /\ known \subseteq Voucher /\ present \subseteq Voucher
  /\ suspect \subseteq Voucher /\ seen \subseteq Voucher
  /\ aligned \subseteq Voucher /\ printed \subseteq Voucher
  /\ deleting \subseteq Voucher /\ deleted \subseteq Voucher
  /\ revoking \subseteq Voucher /\ revoked \subseteq Voucher
  /\ unapplied \subseteq Voucher /\ detected \subseteq Voucher
  /\ pc \in Steps /\ work \in Work /\ asked \subseteq Voucher
  /\ connected \in BOOLEAN
  /\ shown \subseteq Voucher

Init ==
  /\ remote = {} /\ gone = {} /\ wire = {} /\ ours = {} /\ open = {}
  /\ known = {} /\ present = {} /\ suspect = {} /\ seen = {}
  /\ aligned = {} /\ printed = {}
  /\ deleting = {} /\ deleted = {} /\ revoking = {} /\ revoked = {}
  /\ unapplied = {} /\ detected = {}
  /\ pc = "down" /\ work = NoWork /\ asked = {}
  /\ connected = FALSE /\ shown = {}

Pending == deleting \cup revoking

-----------------------------------------------------------------------------
(* One transaction of the archive: the snapshot L, of which A was asked    *)
(* for by UUID and not found, and the requests it settles.                 *)

\* Mutant of Presence: the omission itself is taken for the absence.
PresenceByList(L, A) ==
  /\ known' = known \cup L
  /\ present' = L
  /\ suspect' = (suspect \cup (present \ L)) \ (L \cup A)
  /\ seen' = seen \cup (L \cap printed)

\* An omission is a suspicion, a reappearance clears it.
Presence(L, A) ==
  /\ known' = known \cup L
  /\ present' = (present \ A) \cup L
  /\ suspect' = (suspect \cup (present \ L)) \ (L \cup A)
  /\ seen' = seen \cup (L \cap printed)

\* Mutant of Detected: a pending request does not claim the absence.
DetectedAlways(L, A) == present \cap (A \ L)

\* Absences nobody at this station asked for.
Detected(L, A) == (present \cap (A \ L)) \ Pending

\* Mutant of Settle: a confirmed absence leaves the revocation pending.
SettleDeletes(L, A) ==
  /\ deleting' = deleting \ (L \cup A)
  /\ deleted' = deleted \cup (deleting \cap A)
  /\ revoking' = revoking \ L
  /\ UNCHANGED revoked
  /\ unapplied' = unapplied \cup (Pending \cap L)

\* Mutant of Settle: every snapshot closes whatever is pending.
SettleAll(L, A) ==
  /\ deleting' = {} /\ deleted' = deleted \cup (deleting \cap A)
  /\ revoking' = {} /\ revoked' = revoked \cup (revoking \cap A)
  /\ unapplied' = unapplied \cup (Pending \ A)

\* Presence closes a request as not applied, confirmed absence as applied.
Settle(L, A) ==
  /\ deleting' = deleting \ (L \cup A)
  /\ deleted' = deleted \cup (deleting \cap A)
  /\ revoking' = revoking \ (L \cup A)
  /\ revoked' = revoked \cup (revoking \cap A)
  /\ unapplied' = unapplied \cup (Pending \cap L)

\* The code refuses a snapshot that holds a voucher declared absent.
Persist(L, A) ==
  /\ L \cap A = {}
  /\ Presence(L, A)
  /\ detected' = detected \cup Detected(L, A)
  /\ Settle(L, A)
  /\ open' = open \ (L \cup A)
  /\ UNCHANGED facts

-----------------------------------------------------------------------------
(* The controller, other stations and the life of the process.             *)

\* What a successful list may hold.
Listable == IF StaleLists THEN SUBSET (remote \cup gone) ELSE {remote}

ExternalCreate ==
  /\ \E v \in Voucher \ (remote \cup gone) : remote' = remote \cup {v}
  /\ UNCHANGED <<gone, wire, ours, open, archive, pc, work, memory>>

ExternalDelete ==
  /\ \E v \in remote : remote' = remote \ {v} /\ gone' = gone \cup {v}
  /\ UNCHANGED <<wire, ours, open, archive, pc, work, memory>>

\* A DELETE takes v away, and the removal is this station's.
Removed(v) ==
  /\ remote' = remote \ {v} /\ gone' = gone \cup {v}
  /\ ours' = IF v \in remote THEN ours \cup {v} ELSE ours

LateExecution ==
  /\ \E v \in wire \cap remote : Removed(v)
  /\ UNCHANGED <<wire, open, archive, pc, work, memory>>

Crash ==
  /\ pc # "down" /\ pc' = "down" /\ work' = NoWork
  /\ asked' = {} /\ connected' = FALSE
  /\ shown' = {}
  /\ UNCHANGED <<server, open, archive>>

\* The model starts from the local rows, whatever their presence.
Start ==
  /\ pc = "down" /\ pc' = "idle" /\ shown' = known
  /\ UNCHANGED <<server, open, archive, work, asked, connected>>

\* No operation runs and no dialog is open.
Free == pc = "idle" /\ asked = {}

\* The three ends of a DELETE: confirmed, refused, or no usable answer (the
\* request was executed, was lost, or waits on the controller).
Confirmed(v) == v \in remote /\ Removed(v) /\ UNCHANGED <<wire, open>>

Refused == UNCHANGED <<server, open>>

Uncertain(v) ==
  /\ \/ v \in remote /\ Removed(v) /\ UNCHANGED wire
     \/ UNCHANGED server
     \/ /\ LateDeletes /\ wire' = wire \cup {v}
        /\ UNCHANGED <<remote, gone, ours>>
  /\ open' = open \cup {v}

-----------------------------------------------------------------------------
(* Connecting and refreshing.                                              *)

\* Under the dialog only the timer of the automatic retry can refresh.
SyncAllowed(refresh) ==
  \/ Free
  \/ refresh /\ pc \in {"idle", "refreshing"}

SyncListed(refresh) ==
  /\ SyncAllowed(refresh) /\ (refresh => connected)
  /\ \E L \in Listable :
       work' = [NoWork EXCEPT !.list = L, !.cached = L, !.refresh = refresh]
  /\ pc' = "listed"
  /\ UNCHANGED <<server, open, archive, memory>>

\* A failed refresh keeps the client, a failed connection drops it.
SyncFailed ==
  /\ \/ SyncAllowed(TRUE) /\ connected /\ UNCHANGED connected
     \/ SyncAllowed(FALSE) /\ connected' = FALSE
  /\ pc' = "idle"
  /\ UNCHANGED <<server, open, archive, work, asked, shown>>

Suspected(L) == present \ L

\* Mutant of Examine: a GET that cannot be completed counts as not found.
ExamineLoosely(C, R, A) == R \subseteq C \cap remote /\ A \subseteq C \ R

\* GETs of the omitted vouchers C: R answered, A answered 404, no others.
Examine(C, R, A) == R \subseteq C \cap remote /\ A \subseteq C \ remote

\* Only a second omission in a row is worth a GET.
SyncVerified ==
  /\ pc = "listed" /\ work.refresh
  /\ LET C == Suspected(work.list) \cap suspect
     IN \E R \in SUBSET C, A \in SUBSET C :
          /\ Examine(C, R, A)
          /\ LET found == work.list \cup R
                 unresolved == Suspected(work.list) \ (R \cup A)
             IN work' = [work EXCEPT !.list = found, !.absent = A,
                                     !.cached = found \cup (unresolved \cap shown)]
  /\ pc' = "verified"
  /\ UNCHANGED <<server, open, archive, memory>>

SyncStored ==
  /\ pc = "verified" /\ pc' = "stored"
  /\ Persist(work.list, work.absent)
  /\ UNCHANGED <<server, work, memory>>

\* A connection asks for no UUID: it only raises and clears suspicions.
ConnectionStored ==
  /\ pc = "listed" /\ ~work.refresh /\ pc' = "stored"
  /\ Persist(work.list, {})
  /\ UNCHANGED <<server, work, memory>>

\* The callback, after the archive or in spite of an archive error.
SyncFinished ==
  /\ pc \in {"listed", "verified", "stored"} /\ pc' = "idle"
  /\ shown' = work.cached /\ connected' = TRUE /\ work' = NoWork
  /\ UNCHANGED <<server, open, archive, asked>>

-----------------------------------------------------------------------------
(* Deleting vouchers made by mistake.                                      *)

\* A voucher of the controller's own page, no recipient and not aligned.
Exceptional(v) == v \in Nameless /\ v \notin aligned

Correctable(v) == v \in aligned \/ Exceptional(v)

\* The selection is re-read and judged; its facts go to the dialog.
DeleteOffered ==
  /\ Free /\ connected
  /\ \E S \in SUBSET ((shown \cap remote \cap known) \ printed) :
       /\ S # {} /\ \A v \in S : Correctable(v)
       /\ asked' = S
  /\ UNCHANGED <<server, open, archive, pc, work, connected, shown>>

\* Declined, or refused because a background task runs.
DeleteDeclined ==
  /\ asked # {} /\ asked' = {}
  /\ UNCHANGED <<server, open, archive, pc, work, connected, shown>>

DeleteAccepted ==
  /\ pc = "idle" /\ asked # {}
  /\ pc' = "deciding" /\ asked' = {}
  /\ work' = [NoWork EXCEPT !.batch = asked, !.cached = shown]
  /\ UNCHANGED <<server, open, archive, connected, shown>>

\* Mutant of Requestable: a pending request does not block a second one.
RequestableAgain(S) ==
  S \subseteq known /\ S \cap printed = {} /\ \A v \in S : Correctable(v)

\* The transaction of the request checks the rows once more.
Requestable(S) ==
  /\ S \subseteq known /\ S \cap printed = {} /\ \A v \in S : Correctable(v)
  /\ S \cap deleting = {}

\* Mutant of RequestDelete: the reason is saved after the DELETE.
RequestNothing(S) == UNCHANGED deleting

\* Mutant of RequestDelete: one event for the whole selection.
RequestBatch(S) == deleting' = deleting \cup {S}

RequestDelete(S) == deleting' = deleting \cup S

DeleteRequested ==
  /\ pc = "deciding" /\ work.batch \subseteq remote
  /\ Requestable(work.batch) /\ RequestDelete(work.batch)
  /\ pc' = "deleting" /\ work' = [work EXCEPT !.todo = work.batch]
  /\ UNCHANGED <<server, open, presence, facts, deleted, revoking, revoked,
                 unapplied, detected, memory>>

\* A GET fails, the policy blocks, or the transaction does: nothing is sent.
DeleteRefused ==
  /\ pc = "deciding" /\ pc' = "idle" /\ work' = NoWork
  /\ UNCHANGED <<server, open, archive, memory>>

DeleteConfirmed ==
  /\ pc = "deleting"
  /\ \E v \in work.todo :
       /\ Confirmed(v)
       /\ work' = [work EXCEPT !.todo = @ \ {v}]
       /\ pc' = IF work.todo = {v} THEN "removed" ELSE "deleting"
  /\ UNCHANGED <<archive, memory>>

\* The first voucher that is not confirmed stops the batch.
DeleteFailed ==
  /\ pc = "deleting" /\ pc' = "recovering" /\ work' = NoWork
  /\ \/ Refused
     \/ \E v \in work.todo : Uncertain(v)
  /\ UNCHANGED <<archive, memory>>

\* After the batch the worker lists; without a list it keeps the old one.
DeleteListed ==
  /\ pc = "removed" /\ pc' = "relisted"
  /\ \/ \E L \in Listable :
          work' = [work EXCEPT !.list = L \ work.batch, !.listed = TRUE]
     \/ work' = [work EXCEPT !.list = work.cached \ work.batch]
  /\ UNCHANGED <<server, open, archive, memory>>

\* An error other than the API's own leaves the batch as if unconfirmed.
DeleteListBroken ==
  /\ pc = "removed" /\ pc' = "recovering" /\ work' = NoWork
  /\ UNCHANGED <<server, open, archive, memory>>

ConfirmDelete(S) ==
  /\ deleted' = deleted \cup S /\ deleting' = deleting \ S
  /\ present' = present \ S /\ suspect' = suspect \ S

DeleteRecorded ==
  /\ pc = "relisted" /\ pc' = "recorded"
  /\ work.batch \subseteq deleting /\ ConfirmDelete(work.batch)
  /\ UNCHANGED <<server, open, known, seen, facts, revoking, revoked,
                 unapplied, detected, work, memory>>

DeleteStored ==
  /\ pc = "recorded" /\ work.listed /\ pc' = "settled"
  /\ Persist(work.list, work.batch)
  /\ UNCHANGED <<server, work, memory>>

\* The callback runs after the archive work or in spite of its error.
DeleteFinished ==
  /\ pc \in {"relisted", "recorded", "settled"} /\ pc' = "idle"
  /\ shown' = work.list
  /\ work' = NoWork
  /\ UNCHANGED <<server, open, archive, asked, connected>>

RecoveryListed ==
  /\ pc = "recovering" /\ pc' = "recovered"
  /\ \E L \in Listable : work' = [NoWork EXCEPT !.list = L]
  /\ UNCHANGED <<server, open, archive, memory>>

RecoveryStored ==
  /\ pc = "recovered" /\ pc' = "restored"
  /\ Persist(work.list, {})
  /\ UNCHANGED <<server, work, memory>>

RecoveryFinished ==
  /\ pc \in {"recovered", "restored"} /\ pc' = "idle"
  /\ shown' = work.list /\ work' = NoWork
  /\ UNCHANGED <<server, open, archive, asked, connected>>

RecoveryFailed ==
  /\ pc = "recovering" /\ pc' = "idle"
  /\ UNCHANGED <<server, open, archive, work, asked, connected, shown>>

-----------------------------------------------------------------------------
(* Revoking printed vouchers nobody used.                                  *)

\* Mutant of Candidates: an observation older than the print is enough.
CandidatesUnseen == (present \cap printed) \ (revoking \cup revoked)

\* Printed, still present, seen on the controller after the print.
Candidates == (present \cap printed \cap seen) \ (revoking \cup revoked)

RevokeStarted ==
  /\ Free /\ connected
  /\ \E S \in (SUBSET Candidates) \ {{}} :
       work' = [NoWork EXCEPT !.todo = S]
  /\ pc' = "revoking"
  /\ UNCHANGED <<server, open, archive, memory>>

\* The GET fails or finds it used or expired, or the request is not saved.
RevokeSkipped ==
  /\ pc = "revoking"
  /\ \E v \in work.todo : work' = [work EXCEPT !.todo = @ \ {v}]
  /\ UNCHANGED <<server, open, archive, pc, memory>>

RevokeRequested ==
  /\ pc = "revoking" /\ pc' = "sending"
  /\ \E v \in work.todo \cap remote :
       /\ revoking' = revoking \cup {v}
       /\ work' = [work EXCEPT !.todo = @ \ {v}, !.batch = {v}]
  /\ UNCHANGED <<server, open, presence, facts, deleting, deleted, revoked,
                 unapplied, detected, memory>>

RevokeConfirmed ==
  /\ pc = "sending" /\ pc' = "revoked"
  /\ \E v \in work.batch : Confirmed(v)
  /\ UNCHANGED <<archive, work, memory>>

\* The request stays pending, whatever the error.
RevokeFailed ==
  /\ pc = "sending" /\ pc' = "revoking"
  /\ \/ Refused
     \/ \E v \in work.batch : Uncertain(v)
  /\ work' = [work EXCEPT !.batch = {}]
  /\ UNCHANGED <<archive, memory>>

RevokeRecorded ==
  /\ pc = "revoked" /\ pc' = "revoking"
  /\ revoked' = revoked \cup work.batch /\ revoking' = revoking \ work.batch
  /\ present' = present \ work.batch
  /\ work' = [work EXCEPT !.batch = {}, !.absent = @ \cup work.batch]
  /\ UNCHANGED <<server, open, known, suspect, seen, facts, deleting, deleted,
                 unapplied, detected, memory>>

RevokeUnrecorded ==
  /\ pc = "revoked" /\ pc' = "revoking"
  /\ work' = [work EXCEPT !.batch = {}]
  /\ UNCHANGED <<server, open, archive, memory>>

\* The callback hides what was revoked and refreshes by itself.
RevokeFinished ==
  /\ pc = "revoking" /\ work.todo = {} /\ pc' = "refreshing"
  /\ shown' = shown \ work.absent /\ work' = NoWork
  /\ UNCHANGED <<server, open, archive, asked, connected>>

-----------------------------------------------------------------------------
(* The operator's local work on vouchers.                                  *)

\* Alignment of a voucher of the controller says it is not printed.
Align ==
  /\ Free
  /\ \E v \in (shown \cap known) \ aligned : aligned' = aligned \cup {v}
  /\ UNCHANGED <<server, open, presence, printed, events, pc, work, memory>>

\* Neither a pending request nor a stale snapshot stops a print.
PrintVoucher ==
  /\ Free
  /\ \E v \in shown \cap aligned :
       printed' = printed \cup {v} /\ seen' = seen \ {v}
  /\ UNCHANGED <<server, open, known, present, suspect, aligned, events, pc,
                 work, memory>>

-----------------------------------------------------------------------------
Refreshing == \/ \E refresh \in BOOLEAN : SyncListed(refresh)
              \/ SyncFailed \/ SyncVerified \/ SyncStored \/ ConnectionStored
              \/ SyncFinished

Deletion == \/ DeleteOffered \/ DeleteDeclined \/ DeleteAccepted
            \/ DeleteRequested \/ DeleteRefused \/ DeleteConfirmed
            \/ DeleteFailed \/ DeleteListed \/ DeleteListBroken
            \/ DeleteRecorded \/ DeleteStored \/ DeleteFinished
            \/ RecoveryListed \/ RecoveryStored \/ RecoveryFinished
            \/ RecoveryFailed

Revocation == \/ RevokeStarted \/ RevokeSkipped \/ RevokeRequested
              \/ RevokeConfirmed \/ RevokeFailed \/ RevokeRecorded
              \/ RevokeUnrecorded \/ RevokeFinished

Environment == \/ ExternalCreate \/ ExternalDelete \/ LateExecution
               \/ Crash \/ Start

Next == Refreshing \/ Deletion \/ Revocation \/ Align \/ PrintVoucher
          \/ Environment

Spec == Init /\ [][Next]_vars

\* A started operation goes on; the operator starts the application, connects
\* and refreshes again and again, and now and then GETs and the archive work.
Examined == (present \cap suspect) \subseteq (work.list \cup work.absent)

Fairness ==
  /\ WF_vars(Start) /\ WF_vars(DeleteDeclined)
  /\ WF_vars(pc \notin {"idle", "down"}
             /\ (Refreshing \/ Deletion \/ Revocation) /\ pc' # pc)
  /\ WF_vars(RevokeSkipped)
  /\ SF_vars(SyncListed(FALSE)) /\ SF_vars(SyncListed(TRUE))
  /\ SF_vars(SyncFinished)
  /\ SF_vars(SyncVerified /\ Examined')
  /\ SF_vars(SyncStored /\ Examined)

FairSpec == Spec /\ Fairness

-----------------------------------------------------------------------------
(* Properties.                                                             *)

\* A row leaves the controller in the archive only when the voucher really
\* left it: omissions, transport errors and interleavings never do it.
AbsenceProven == (known \ present) \cap remote = {}

\* A recorded deletion or revocation is true: the voucher is not there.
OutcomeTrue == (deleted \cup revoked) \cap remote = {}

\* Whatever this station removed, or may still remove, has a request or an
\* outcome in the archive, at every step of a crash or a failed transaction.
RequestRemembered ==
  (ours \cup wire) \subseteq (Pending \cup deleted \cup revoked \cup unapplied)

\* A request that awaits its outcome is on a row that refreshes examine:
\* otherwise it would block the backup for ever.
PendingExamined == Pending \subseteq present

\* A voucher never awaits the outcome of both workflows, although printing
\* is not stopped by a pending deletion.
OneRequest == deleting \cap revoking = {}

\* No DELETE is sent for a voucher whose earlier DELETE ended without an
\* answer, until a snapshot or a GET has settled it.
DeleteNotReplayed ==
  /\ pc = "deleting" => work.todo \cap open = {}
  /\ pc = "sending" => work.batch \cap open = {}

\* With truthful lists, a voucher this station removed keeps the request or
\* the outcome that holds its reason, unless the controller executed the
\* DELETE after its timeout.
ReasonKept == (ours \ wire) \subseteq (Pending \cup deleted \cup revoked)

\* A voucher this station removed is reported as removed by somebody else
\* only after a list has closed its request as not applied.
DetectedAreForeign == (detected \cap ours) \subseteq unapplied

\* One voucher as VoucherLife sees it.
Place(v) == IF v \in remote THEN "there" ELSE IF v \in gone THEN "gone" ELSE "unborn"

Row(v) == IF v \notin known THEN "none" ELSE IF v \notin present THEN "absent"
          ELSE IF v \in suspect THEN "suspect" ELSE "present"

Paper(v) == IF v \notin printed THEN "blank"
            ELSE IF v \in seen THEN "seen" ELSE "printed"

Asked(v) == (IF v \in deleting THEN {"deleted"} ELSE {})
              \cup (IF v \in revoking THEN {"revoked"} ELSE {})

Book(v) == (IF v \in deleted THEN {"deleted"} ELSE {})
             \cup (IF v \in revoked THEN {"revoked"} ELSE {})
             \cup (IF v \in unapplied THEN {"not applied"} ELSE {})
             \cup (IF v \in detected THEN {"detected"} ELSE {})

Life(v) == INSTANCE VoucherLife WITH
  place <- Place(v), mine <- v \in ours, row <- Row(v), paper <- Paper(v),
  request <- Asked(v), book <- Book(v)

\* Each voucher's row, requests and outcomes follow VoucherLife, whatever tasks,
\* lists and crashes come between and whatever happens to other vouchers.
LivesFollowed ==
  /\ \A v \in Voucher : Life(v)!LifeInit
  /\ [][\A v \in Voucher : [Life(v)!LifeNext]_(Life(v)!life)]_vars

\* Sincronizza settles every request, so that the backup is possible again.
PendingSettles == \A v \in Voucher : v \in Pending ~> v \notin Pending

=============================================================================
