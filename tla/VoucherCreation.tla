---------------------------- MODULE VoucherCreation ----------------------------
(***************************************************************************)
(* Voucher creation and its recovery.                                      *)
(*                                                                         *)
(* A creation is one non-idempotent POST to the UniFi controller.  Three   *)
(* files next to the SQLite archive protect it: the anti-repeat guard, the *)
(* intent of the request (with the UUIDs known before it), and the         *)
(* reporting marker (the UUIDs a 201 reply confirmed).  Files and archive  *)
(* survive a crash; everything else is memory of the process.              *)
(*                                                                         *)
(* pc is the step of the one operation the application is in: the Tk       *)
(* callback, its background worker (background work is serialised), or a   *)
(* modal question.  work holds the local variables of that operation.      *)
(* Presence on the controller is monotone here: deletion and absence are   *)
(* the subject of module VoucherArchive.  What the protocol promises of    *)
(* each request is CreateOnce, which this module implements.               *)
(***************************************************************************)
EXTENDS Naturals, FiniteSets

CONSTANTS
  Voucher,          \* UUIDs the controller may give to vouchers
  Quantity,         \* vouchers one creation request asks for
  MaxPosts,         \* bound: creation requests the operator sends
  Handled,          \* bound: vouchers the operator may align and print
  MalformedReplies  \* may a reply hold an item that is no JSON object?

ASSUME CreationAssumption ==
  /\ Quantity \in Nat \ {0}
  /\ MaxPosts \in Nat
  /\ Handled \subseteq Voucher
  /\ MalformedReplies \in BOOLEAN

VARIABLES
  remote,     \* vouchers that exist on the controller
  maker,      \* the request that made a voucher, 0 for another station
  wire,       \* requests the controller has received and not yet executed
  guard,      \* file: the anti-repeat guard exists
  intent,     \* file: the pending create intent
  marker,     \* file: UUIDs of the pending create-reporting marker
  row,        \* SQLite: local row of each voucher
  printed,    \* SQLite: vouchers with a verified physical print
  pc,         \* step of the operation in progress
  work,       \* local variables of the operation in progress
  connected,  \* memory: the session holds a UniFi client
  live,       \* memory: controller_snapshot_live
  shown,      \* memory: the vouchers of the application model
  posts,      \* history: number of POSTs sent
  open,       \* history: POSTs no refusal, record or decision has settled
  settled,    \* history: POSTs sent whose outcome the operator has decided
  confirmed,  \* history: UUIDs a 201 reply gave to this station
  claimed     \* history: UUIDs the operator said were created here

vars == <<remote, maker, wire, guard, intent, marker, row, printed, pc, work,
          connected, live, shown, posts, open, settled, confirmed, claimed>>

disk    == <<guard, intent, marker, row, printed>>
memory  == <<connected, live, shown>>
server  == <<remote, maker, wire>>
history == <<posts, open, settled, confirmed, claimed>>

PrintState == {"UNKNOWN", "NOT_PRINTED", "PRINTED"}

\* A row without origin stands for a voucher the archive does not know.
\* Alignment gives the print state, so UNKNOWN also says "not yet aligned".
Row == [origin : {"NONE", "CONTROLLER", "APPLICATION"}, print : PrintState]

NoRow == [origin |-> "NONE", print |-> "UNKNOWN"]

\* The intent names its request and the UUIDs known before it; 0 is no file.
Intent == [post : 0..MaxPosts, baseline : SUBSET Voucher]

NoIntent == [post |-> 0, baseline |-> {}]

Work == [created : SUBSET Voucher, snapshot : SUBSET Voucher,
         complete : BOOLEAN, observed : BOOLEAN, safe : BOOLEAN,
         refresh : BOOLEAN]

NoWork == [created |-> {}, snapshot |-> {}, complete |-> FALSE,
           observed |-> FALSE, safe |-> FALSE, refresh |-> FALSE]

CreateSteps == {"guarded", "armed", "uncertain", "refused", "listing",
                "created", "recorded", "stored", "unmarked", "finished"}
SyncSteps   == {"listed", "archived", "classified", "synced"}
DecideSteps == {"asking", "associating", "rejecting", "decided", "closing"}
Steps == {"down", "booting", "idle"} \cup CreateSteps \cup SyncSteps
           \cup DecideSteps

TypeOK ==
  /\ remote \subseteq Voucher /\ maker \in [Voucher -> 0..MaxPosts]
  /\ wire \subseteq 1..MaxPosts
  /\ guard \in BOOLEAN /\ intent \in Intent /\ marker \subseteq Voucher
  /\ row \in [Voucher -> Row] /\ printed \subseteq Voucher
  /\ pc \in Steps /\ work \in Work
  /\ connected \in BOOLEAN /\ live \in BOOLEAN /\ shown \subseteq Voucher
  /\ posts \in 0..MaxPosts
  /\ open \subseteq 1..MaxPosts /\ settled \subseteq 1..MaxPosts
  /\ confirmed \subseteq Voucher /\ claimed \subseteq Voucher

Init ==
  /\ remote = {} /\ maker = [v \in Voucher |-> 0] /\ wire = {}
  /\ guard = FALSE /\ intent = NoIntent /\ marker = {}
  /\ row = [v \in Voucher |-> NoRow] /\ printed = {}
  /\ pc = "down" /\ work = NoWork
  /\ connected = FALSE /\ live = FALSE /\ shown = {}
  /\ posts = 0 /\ open = {} /\ settled = {} /\ confirmed = {} /\ claimed = {}

-----------------------------------------------------------------------------
(* The archive, the recovery files and what they say.                      *)

Archived(r) == {v \in Voucher : r[v].origin # "NONE"}

\* Mutant of Upsert: the origin of a foreign voucher has its own name.
UpsertForeign(r, seen) ==
  [v \in Voucher |-> IF v \in seen /\ r[v].origin = "NONE"
                     THEN [NoRow EXCEPT !.origin = "EXTERNAL"] ELSE r[v]]

\* A controller snapshot inserts unknown vouchers and keeps local facts.
Upsert(r, seen) ==
  [v \in Voucher |-> IF v \in seen /\ r[v].origin = "NONE"
                     THEN [NoRow EXCEPT !.origin = "CONTROLLER"] ELSE r[v]]

MarkApplicationCreated(r, ids) ==
  [v \in Voucher |-> IF v \in ids
                     THEN [origin |-> "APPLICATION", print |-> "NOT_PRINTED"]
                     ELSE r[v]]

MarkingPossible(ids) == ids \subseteq Archived(row)

\* Mutant of Compatible: the UUIDs known before the request are not left out.
CompatibleShown == shown

\* New vouchers of the snapshot that could come from the pending request.
Compatible == shown \ intent.baseline

ExactMatch == Cardinality(Compatible) = Quantity

\* unlink() of the guard: OSError leaves the file behind.
ReleaseGuard == guard' \in {FALSE, guard}

DropIntent == intent' \in {NoIntent, intent}

-----------------------------------------------------------------------------
(* The controller.                                                         *)

\* Requests answered with fresh UUIDs for request p.
Makes(S, p) ==
  /\ S \subseteq Voucher \ remote /\ Cardinality(S) = Quantity
  /\ remote' = remote \cup S
  /\ maker' = [v \in Voucher |-> IF v \in S THEN p ELSE maker[v]]

\* Another station, or the controller's own page, creates a voucher.
ExternalCreate ==
  /\ \E v \in Voucher \ remote : remote' = remote \cup {v}
  /\ UNCHANGED <<maker, wire, disk, pc, work, memory, history>>

\* A request whose reply was lost is executed after the client gave up.
LateExecution ==
  /\ \E p \in wire, S \in SUBSET Voucher :
       Makes(S, p) /\ wire' = wire \ {p}
  /\ UNCHANGED <<disk, pc, work, memory, history>>

-----------------------------------------------------------------------------
(* VoucherApp.create: guards, durable barriers, POST, list, archive.       *)

CreateAllowed ==
  connected /\ live /\ ~guard /\ marker = {}

Create ==
  /\ pc = "idle" /\ posts < MaxPosts /\ CreateAllowed
  /\ guard' = TRUE
  /\ pc' \in {"guarded", "idle"}  \* fsync error: the marker is kept
  /\ UNCHANGED <<server, intent, marker, row, printed, work, memory, history>>

IntentWritten ==
  /\ pc = "guarded" /\ intent = NoIntent
  /\ intent' = [post |-> posts + 1, baseline |-> shown]
  /\ pc' = "armed"
  /\ UNCHANGED <<server, guard, marker, row, printed, work, memory, history>>

\* An earlier intent is still there, or the write failed: nothing is sent.
IntentRefused ==
  /\ pc = "guarded" /\ ReleaseGuard /\ pc' = "idle"
  /\ UNCHANGED <<server, intent, marker, row, printed, work, memory, history>>

\* The task is not started, or the client rejects the parameters.
TaskRefused ==
  /\ pc = "armed" /\ DropIntent /\ ReleaseGuard /\ pc' = "idle"
  /\ UNCHANGED <<server, marker, row, printed, work, memory, history>>

Sent == pc = "armed" /\ posts' = posts + 1

PostConfirmed ==
  /\ Sent
  /\ \E S \in SUBSET Voucher :
       /\ Makes(S, posts')
       /\ confirmed' = confirmed \cup S
       /\ work' = [NoWork EXCEPT !.created = S]
  /\ open' = open \cup {posts'} /\ pc' = "listing"
  /\ UNCHANGED <<wire, disk, memory, settled, claimed>>

PostRefused ==
  /\ Sent /\ pc' = "refused"
  /\ UNCHANGED <<server, disk, work, memory, open, settled, confirmed, claimed>>

\* No definitive answer: executed, not executed, or still to be executed.
PostUncertain ==
  /\ Sent
  /\ \/ \E S \in SUBSET Voucher : Makes(S, posts') /\ UNCHANGED wire
     \/ wire' \in {wire, wire \cup {posts'}} /\ UNCHANGED <<remote, maker>>
  /\ open' = open \cup {posts'} /\ pc' = "uncertain"
  /\ UNCHANGED <<disk, work, memory, settled, confirmed, claimed>>

\* A 201 body with an item that is no object makes the mapper raise
\* TypeError, which create_vouchers does not turn into an uncertain outcome.
PostUnmapped ==
  /\ MalformedReplies /\ Sent
  /\ \E S \in SUBSET Voucher : Makes(S, posts')
  /\ open' = open \cup {posts'} /\ pc' = "refused"
  /\ UNCHANGED <<wire, disk, work, memory, settled, confirmed, claimed>>

\* Mutant of UncertainListed: a successful list settles the request.
UncertainListedAndClosed ==
  /\ pc = "uncertain" /\ pc' = "idle"
  /\ shown' \in SUBSET remote /\ live' = TRUE
  /\ guard' = FALSE /\ intent' = NoIntent
  /\ UNCHANGED <<server, marker, row, printed, work, connected, history>>

\* An item of the list after the POST that is no object: as PostUnmapped.
ListUnmapped ==
  /\ MalformedReplies /\ pc \in {"uncertain", "listing"} /\ pc' = "refused"
  /\ UNCHANGED <<server, disk, work, memory, history>>

\* After an uncertain POST the list is read once and nothing is attributed.
UncertainListed ==
  /\ pc = "uncertain" /\ pc' = "idle"
  /\ \/ shown' \in SUBSET remote /\ live' = TRUE
     \/ shown' = shown /\ live' = FALSE
  /\ UNCHANGED <<server, disk, work, connected, history>>

\* The list after a confirmed POST may be stale, or fail.
CreateListed ==
  /\ pc = "listing" /\ pc' = "created"
  /\ \/ \E L \in SUBSET remote :
          work' = [work EXCEPT !.snapshot = L \cup work.created,
                               !.complete = work.created \subseteq L,
                               !.observed = TRUE]
     \/ work' = [work EXCEPT !.snapshot = shown \cup work.created]
  /\ UNCHANGED <<server, disk, memory, history>>

MarkerWritten ==
  /\ pc = "created" /\ pc' = "recorded"
  /\ \/ /\ marker = {} /\ marker' = work.created
        /\ work' = [work EXCEPT !.safe = TRUE]
        /\ open' = open \ {posts}
     \/ UNCHANGED <<marker, work, open>>
  /\ UNCHANGED <<server, guard, intent, row, printed, memory, posts, settled,
                 confirmed, claimed>>

\* Mutant of CreateStored: the whole list is attributed to the request.
CreateStoredWhole ==
  /\ pc = "recorded" /\ pc' = "stored"
  /\ row' = MarkApplicationCreated(Upsert(row, work.snapshot), work.snapshot)
  /\ open' = open \ {posts}
  /\ UNCHANGED <<server, guard, intent, marker, printed, work, memory, posts,
                 settled, confirmed, claimed>>

\* A failed list contributes no rows beyond those of the confirmed POST.
CreateStored ==
  /\ pc = "recorded" /\ pc' = "stored"
  /\ row' = MarkApplicationCreated(
              Upsert(row, IF work.observed THEN work.snapshot
                                           ELSE work.created),
              work.created)
  /\ open' = open \ {posts}
  /\ UNCHANGED <<server, guard, intent, marker, printed, work, memory, posts,
                 settled, confirmed, claimed>>

\* Mutant of CreateNotStored: the intent is dropped without a marker too.
CreateNotStoredDropping ==
  /\ pc = "recorded" /\ pc' = "finished" /\ DropIntent
  /\ UNCHANGED <<server, guard, marker, row, printed, work, memory, history>>

\* SQLite failed: the intent is dropped only behind a written marker.
CreateNotStored ==
  /\ pc = "recorded" /\ pc' = "finished"
  /\ IF work.safe THEN DropIntent ELSE UNCHANGED intent
  /\ UNCHANGED <<server, guard, marker, row, printed, work, memory, history>>

MarkerCleared ==
  /\ pc = "stored" /\ pc' = "unmarked"
  /\ marker' \in {{}, marker}
  /\ UNCHANGED <<server, guard, intent, row, printed, work, memory, history>>

IntentCleared ==
  /\ pc = "unmarked" /\ pc' = "finished" /\ DropIntent
  /\ UNCHANGED <<server, guard, marker, row, printed, work, memory, history>>

CreateCompleted ==
  /\ pc = "finished" /\ pc' = "idle"
  /\ shown' = work.snapshot /\ live' = (work.complete /\ work.observed)
  /\ ReleaseGuard /\ work' = NoWork
  /\ UNCHANGED <<server, intent, marker, row, printed, connected, history>>

CreateFailed ==
  /\ pc = "refused" /\ pc' = "idle"
  /\ DropIntent /\ ReleaseGuard /\ work' = NoWork
  /\ UNCHANGED <<server, marker, row, printed, memory, history>>

-----------------------------------------------------------------------------
(* Connect and Sincronizza: list, archive, reporting marker, completion.    *)

\* Listing never fails short of an error but may omit what exists.
SyncListed ==
  /\ pc = "idle" /\ pc' = "listed"
  /\ \E L \in SUBSET remote, r \in {FALSE, connected} :
       work' = [NoWork EXCEPT !.snapshot = L, !.complete = TRUE, !.refresh = r]
  /\ UNCHANGED <<server, disk, memory, history>>

SyncFailed ==
  /\ pc = "idle" /\ live' = FALSE /\ connected' \in {FALSE, connected}
  /\ UNCHANGED <<server, disk, pc, work, shown, history>>

\* Archived vouchers the list omits; a refresh may find some by direct GET.
Omitted == Archived(row) \ work.snapshot

Verified(R) ==
  IF work.refresh
  THEN [work EXCEPT !.snapshot = @ \cup R \cup (Omitted \cap shown),
                    !.complete = Omitted \subseteq R]
  ELSE [work EXCEPT !.complete = Omitted = {}]

SyncArchived ==
  /\ pc = "listed" /\ pc' = "archived"
  /\ \E R \in SUBSET Omitted :
       /\ ~work.refresh => R = {}
       /\ work' = Verified(R) /\ row' = Upsert(row, work.snapshot \cup R)
  /\ UNCHANGED <<server, guard, intent, marker, printed, memory, history>>

\* An exception of the archive ends the worker; what it had not computed yet
\* keeps its optimistic default (a complete, authoritative list).
SyncNotArchived ==
  /\ pc = "listed" /\ pc' = "synced"
  /\ work' \in {work} \cup
       (IF work.refresh THEN {Verified(R) : R \in SUBSET Omitted} ELSE {})
  /\ UNCHANGED <<server, disk, memory, history>>

\* reconcile_pending_create_reporting: no marker, missing rows or an error.
MarkerKept ==
  /\ pc = "archived" /\ pc' = "synced"
  /\ UNCHANGED <<server, disk, work, memory, history>>

MarkerApplied ==
  /\ pc = "archived" /\ marker # {} /\ MarkingPossible(marker)
  /\ row' = MarkApplicationCreated(row, marker) /\ pc' = "classified"
  /\ UNCHANGED <<server, guard, intent, marker, printed, work, memory, history>>

MarkerUnlinked ==
  /\ pc = "classified" /\ pc' = "synced"
  /\ marker' \in {{}, marker}
  /\ UNCHANGED <<server, guard, intent, row, printed, work, memory, history>>

\* Mutant of SyncCompleted: only a decision ever releases the guard.
SyncCompletedGuarded ==
  /\ pc = "synced"
  /\ shown' = work.snapshot /\ live' = work.complete /\ connected' = TRUE
  /\ pc' = IF work.complete /\ intent # NoIntent THEN "asking" ELSE "idle"
  /\ work' = NoWork
  /\ UNCHANGED <<server, disk, history>>

\* An authoritative list asks about a pending intent, which owns the guard;
\* without one a refresh releases the guard, a connection does not.
SyncCompleted ==
  /\ pc = "synced"
  /\ shown' = work.snapshot /\ live' = work.complete /\ connected' = TRUE
  /\ IF work.complete /\ intent # NoIntent
     THEN pc' = "asking" /\ UNCHANGED guard
     ELSE /\ pc' = "idle"
          /\ IF work.complete /\ work.refresh THEN ReleaseGuard
                                             ELSE UNCHANGED guard
  /\ work' = NoWork
  /\ UNCHANGED <<server, intent, marker, row, printed, history>>

-----------------------------------------------------------------------------
(* The operator's decision on an uncertain creation.                        *)

Postpone ==
  /\ pc = "asking" /\ pc' = "idle"
  /\ UNCHANGED <<server, disk, work, memory, history>>

Decide ==
  /\ pc = "asking"
  /\ \/ ExactMatch /\ pc' = "associating"
     \/ pc' = "rejecting"
  /\ work' = [NoWork EXCEPT !.created = Compatible]
  /\ UNCHANGED <<server, disk, memory, history>>

DecisionStored ==
  /\ pc \in {"associating", "rejecting"} /\ pc' = "decided"
  /\ MarkingPossible(work.created)
  /\ IF pc = "associating"
     THEN /\ row' = MarkApplicationCreated(row, work.created)
          /\ claimed' = claimed \cup work.created
     ELSE UNCHANGED <<row, claimed>>
  /\ settled' = settled \cup ({intent.post} \cap 1..posts)
  /\ open' = open \ {intent.post}
  /\ UNCHANGED <<server, guard, intent, marker, printed, work, memory, posts,
                 confirmed>>

\* A row is missing, SQLite failed, or another task was running.
DecisionNotStored ==
  /\ pc \in {"associating", "rejecting"} /\ pc' = "idle" /\ work' = NoWork
  /\ UNCHANGED <<server, disk, memory, history>>

\* An unlink error after the transaction fails the task and keeps the block.
IntentClosed ==
  /\ pc = "decided" /\ work' = NoWork
  /\ \/ intent' = NoIntent /\ pc' = "closing"
     \/ UNCHANGED intent /\ pc' = "idle"
  /\ UNCHANGED <<server, guard, marker, row, printed, memory, history>>

DecisionCompleted ==
  /\ pc = "closing" /\ pc' = "idle" /\ ReleaseGuard
  /\ UNCHANGED <<server, intent, marker, row, printed, work, memory, history>>

-----------------------------------------------------------------------------
(* Alignment and printing of what the application shows.                    *)

Align ==
  /\ pc = "idle"
  /\ \E v \in Handled \cap shown \cap Archived(row) :
       /\ row[v].print = "UNKNOWN"
       /\ row' = [row EXCEPT ![v].print = IF v \in printed THEN "PRINTED"
                                                           ELSE "NOT_PRINTED"]
  /\ UNCHANGED <<server, guard, intent, marker, printed, pc, work, memory,
                 history>>

\* A verified print with its audit, whose steps are module PrintAudit's.
PrintVoucher ==
  /\ pc = "idle"
  /\ \E v \in Handled \cap shown \cap Archived(row) :
       /\ row[v].print # "UNKNOWN"
       /\ row' = [row EXCEPT ![v].print = "PRINTED"]
       /\ printed' = printed \cup {v}
  /\ UNCHANGED <<server, guard, intent, marker, pc, work, memory, history>>

-----------------------------------------------------------------------------
(* Crash and start.                                                         *)

Crash ==
  /\ pc # "down" /\ pc' = "down" /\ work' = NoWork
  /\ connected' = FALSE /\ live' = FALSE /\ shown' = {}
  /\ UNCHANGED <<server, disk, history>>

\* Startup applies the reporting marker before anything else.
StartMarker ==
  /\ pc = "down" /\ pc' = "booting"
  /\ marker # {} /\ MarkingPossible(marker)
  /\ row' = MarkApplicationCreated(row, marker)
  /\ UNCHANGED <<server, guard, intent, marker, printed, work, memory, history>>

\* Then the archived vouchers are shown; an error above is only logged.
Start ==
  /\ \/ pc = "down" /\ UNCHANGED marker
     \/ pc = "booting" /\ marker' \in {{}, marker}
  /\ pc' = "idle" /\ shown' = Archived(row)
  /\ UNCHANGED <<server, guard, intent, row, printed, work, connected, live,
                 history>>

-----------------------------------------------------------------------------

Controller == ExternalCreate \/ LateExecution

Creation ==
  \/ Create \/ IntentWritten \/ IntentRefused \/ TaskRefused
  \/ PostConfirmed \/ PostRefused \/ PostUncertain \/ PostUnmapped
  \/ ListUnmapped \/ UncertainListed \/ CreateListed \/ MarkerWritten \/ CreateStored
  \/ CreateNotStored \/ MarkerCleared \/ IntentCleared
  \/ CreateCompleted \/ CreateFailed

Sync ==
  \/ SyncListed \/ SyncFailed \/ SyncArchived \/ SyncNotArchived
  \/ MarkerKept \/ MarkerApplied \/ MarkerUnlinked \/ SyncCompleted

Recovery ==
  \/ Postpone \/ Decide \/ DecisionStored \/ DecisionNotStored
  \/ IntentClosed \/ DecisionCompleted

Next ==
  \/ Controller \/ Creation \/ Sync \/ Recovery
  \/ Align \/ PrintVoucher \/ Crash \/ StartMarker \/ Start

Spec == Init /\ [][Next]_vars

-----------------------------------------------------------------------------
(* Safety.                                                                  *)

\* No POST is sent while the outcome of an earlier one is neither refused by
\* the controller, nor durably recorded, nor decided by the operator: the
\* guard, the intent and the marker together make the create unrepeatable
\* over every crash, unlink error and archive error (create, failed, the
\* recovery offer and the guard release of refresh).
NoReplay == [][posts' # posts => open = {}]_vars

\* A voucher a 201 reply confirmed is never forgotten as the application's
\* own: it is classified in SQLite, or named by the reporting marker, or its
\* request is still the pending intent, or the operator has decided about it.
ConfirmedTracked ==
  \A v \in confirmed :
    \/ row[v].origin = "APPLICATION" \/ v \in marker
    \/ maker[v] = intent.post \/ maker[v] \in settled

\* Only a 201 reply or an explicit answer of the operator makes a voucher
\* count as created by the application; a list never does.
OriginJustified ==
  \A v \in Voucher :
    row[v].origin = "APPLICATION" => v \in confirmed \cup claimed

\* Positive print evidence is never downgraded: a voucher with a verified
\* print stays PRINTED whatever classification is applied later.
PrintEvidenceKept == \A v \in printed : row[v].print = "PRINTED"

\* Print evidence is final for every voucher in the baseline of the pending
\* intent, and for any other once the files of its creation are gone: a late
\* classification (reconcile_pending_create_reporting at a refresh or a start,
\* confirm_pending_create_intent) is all that can take PRINTED back.
EvidenceFinal ==
  [][\A v \in printed :
       row[v].print = "PRINTED" =>
         \/ row'[v].print = "PRINTED" \/ v \in marker
         \/ intent # NoIntent /\ v \notin intent.baseline]_vars

\* The station's own vouchers: classified, or named for it by the marker.
Own == marker \cup {v \in Voucher : row[v].origin = "APPLICATION"}

\* The creations of this station follow CreateOnce, over every crash, file
\* error, stale list and other station (well-formed replies are assumed by the
\* run and by the theorem).
Once == INSTANCE CreateOnce WITH
  sent <- posts, pending <- open, there <- remote, given <- confirmed,
  decided <- settled, own <- Own

OnceKept == Once!OnceSpec

\* A list never makes a confirmed voucher the application already shows
\* disappear from a model that it goes on calling a live photograph of the
\* controller (the completion of refresh, of a connection and of a creation).
ConfirmedStayShown == [][live' => confirmed \cap shown \subseteq shown']_vars

-----------------------------------------------------------------------------
(* Liveness.                                                                *)

\* A period without crash, network or archive error in which the operator
\* synchronises and answers.  Files may still fail to go away.
Healthy ==
  /\ ~Crash /\ ~Create /\ ~SyncFailed /\ ~SyncNotArchived
  /\ ~Postpone /\ ~DecisionNotStored
  /\ SyncListed => work'.snapshot = remote /\ work'.refresh = connected
  /\ MarkerKept => marker = {} \/ ~MarkingPossible(marker)

\* Steps of the worker and of its completion callback.
Working == (pc # "idle" /\ (Creation \/ Sync \/ Recovery)) \/ StartMarker \/ Start

\* An unlink that is tried again and again succeeds in the end.
LiveSpec ==
  /\ Spec /\ WF_vars(Working) /\ WF_vars(SyncListed)
  /\ SF_vars(MarkerUnlinked /\ marker' = {})
  /\ SF_vars(IntentClosed /\ intent' = NoIntent)
  /\ SF_vars(SyncCompleted /\ ~guard')
  /\ <>[][Healthy]_vars

\* Whatever crashes and errors came before, no barrier is permanent: once
\* the environment is healthy and the operator synchronises and answers, a
\* creation is possible again.
BarriersDrain == []<>(CreateAllowed /\ intent = NoIntent)

=============================================================================
