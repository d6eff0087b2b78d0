# Voucher Management desktop: a TLA+ verification project

Voucher Management is a Windows desktop application (Tk, Python) that creates
guest vouchers on a UniFi controller, keeps a local SQLite archive of them,
prints them, and deletes or revokes them. Its hard part is not an algorithm: it
is keeping five stores that fail separately (the controller, the SQLite
archive, the HMAC history, a few marker files, the paper) consistent with each
other across lost replies, crashes, failing files, stale lists and a user
interface that stays alive while work goes on behind it. This project models
those protocols, checks them with TLC on small instances and proves the central
invariants with TLAPS for any number of vouchers, requests, print jobs, rows,
keys, users and tables.

Paths below are relative to `src/src/voucher_management/`, those of documents
to `src/docs/`, but `SECURITY.md` and `README.md` to `src/`.

## 1. Inventory

| Component (code) | State | Operations | Hard behaviour | What makes it correct |
|---|---|---|---|---|
| Creation and recovery (`voucher_creation_ui.py`, `mutation_guard.py`, `uncertain_create_recovery.py`, `create_reporting_recovery.py`, `workflows.py`, `sync_store.py`) | guard file, intent file with the known UUIDs, reporting marker, archive rows | create, refresh completion, recovery offer, associate or reject, startup replay of the marker | the POST is not idempotent and its reply may be lost; a crash or an `OSError` at every file; other stations create too | no second POST while an outcome is open; a confirmed UUID is never forgotten; no attribution without a confirmation; the barriers always drain |
| Print audit (`pdf_preview.py`, `history.py`, `data_maintenance_ui.py`, `reprint_policy.py`) | pending marker (prepared, submitted), append-only HMAC history, SQLite print audit, preview windows | prepare, submit, record, recover at startup, by settings and by a window, discard | paper cannot be rolled back; torn appends; a window closed under its callback; four parties that may complete one audit | no print lost, none counted twice, in order |
| Synchronisation and absence (`app.py`, `controller_connection_ui.py`, `sync_store.py`, `workflows.py`) | rows with presence, missing count, last seen; application model; client of the session | connect, refresh | lists that omit vouchers; the archive step fails while the callback still runs | an omission is only a suspicion; a row leaves the controller only if the voucher did |
| Ordinary deletion (`voucher_deletion_ui.py`, `preparation_deletion.py`, `policy.py`) | events requested, deleted, not applied | offer, reason dialog, second reading, request, DELETEs one by one, confirm, list, recover | a batch that stops halfway; no answer; crash between DELETE and record; refresh behind the modal dialog | reason durable before the DELETE; outcome true; no replay |
| Security revocation (`security_revocation.py`, `security_revocation_ui.py`) | events requested, revoked, not applied | candidates, read, request, DELETE, record, automatic refresh | the same, per voucher, and in competition with the deletion | the same, and never two requests for one voucher |
| Background tasks and the window (`background_tasks.py`, `app.py`, `modern_app.py`, `data_maintenance_ui.py`) | one slot, result queue, status of the connection, retry timer, open question, session row | run, poll, callback, retry, close with a backup | callbacks and timers run behind modal questions; a retry is refused while the slot is taken | the slot is given back; the colour is honest; the backup of a close holds everything |
| Backup and restore (`backup.py`, `backup_crypto.py`, `settings.py`) | backup file, temporary file, rollback folder, the two live directories | create, validate, stage, replace, roll back, reopen | replacement file by file; a failing way back; a crash anywhere; preferences saved meanwhile | nothing lost, rows under one key, what is reported whole is whole |
| History exchange and key (`history_exchange.py`, `security/history_key.py`) | key, fingerprint in the settings, history rows | plan, import, verify, way back, adopt identity | three stores, no common transaction | the key always verifies the history |
| Legacy migration (`legacy_migration.py`, `legacy_backup_import.py`) | evidence, placeholder rows, facts, first prints | compare, confirm, apply, materialise; import of a ZIP, minimised rows | plans made before dialogs; order of import, list and native print | one fact per row, of the right voucher; first print the earliest |
| SQLite schema (`database.py`) | schema version, tables, row of the version | create, upgrade, open | `executescript` commits the open transaction | the version says what the tables are |
| Shared data and first start (`shared_data_migration.py`, `onboarding.py`, `onboarding_ui.py`, `single_instance.py`) | shared tree, guard, marker of the wizard | classify, ask, migrate, start fresh, restore, wizard | several Windows users; a wizard that dies between its writes | a wizard that was begun is resumed; the migration that is offered works |
| UniFi client (`unifi_api.py`, `controller_probe.py`) | session | list, read, create, delete | which failures mean "not done" and which mean "unknown" | the classes used by the components above |
| Alignment (`alignment.py`, `local_data.py`) | recipient, print state of a row | align | between creation and its classification | never loses print evidence |
| Locks (`locking.py`) | byte lock of a file | acquire, time out, release | a holder that dies | one holder (operating system) |
| Reports and retention (`reporting.py`, `report_policy.py`, `retention.py`) | none (projections) | build | boundaries of dates and counts | sums agree with the archive |
| PDF, widgets and dialogs, launcher, build tools | presentation | | | no protocol of their own |

Interaction: every network or file operation is a *background task*: a worker
thread computes, the Tk loop polls and runs its callback. Only one task runs at
a time, so the interleavings are those of (a) the steps of the task with the
controller, with other stations and with a crash, (b) modal dialogs, during
which the Tk loop still polls and timers still fire, (c) operations that start
later and find what an earlier one left in the files. The markers are the
interface between components: the create marker is replayed by every refresh,
the print marker stops prints, backups and restores, a pending deletion stops
backups. `PROJECT.json` says for each component what is modelled of it.

## 2. Modules

| Module | What it is |
|---|---|
| `CreateOnce` | abstract specification: creations are sent one at a time, and what a creation made becomes the station's own or the operator answers for it |
| `VoucherCreation` | creation, its files, the refresh as far as it settles creations, the recovery questions, crash and start; implements `CreateOnce` |
| `PrintLedger` | abstract specification: a ledger of the paper, entered in order, each job once, at most the last one missing |
| `PrintAudit` | the marker, the two stores, the windows, the recovery paths; implements `PrintLedger` |
| `VoucherLife` | abstract specification of one voucher: on the controller, on paper, in its row, under a request, and in the book of how it ended |
| `VoucherArchive` | presence, suspicion and verified absence; deletion; revocation; the controller's late executions; implements `VoucherLife` for each voucher |
| `LegacyMigration` | the 4.x history by its two ways into the archive, placeholders and their merge |
| `DataRoot` | the files that must agree with one another, and backup, restore, move and import that replace them one by one |
| `Desktop` | the one slot and its poll, the status of the connection with its retries, the questions, the close |
| `FirstStart` | creation and upgrade of the schema, what a start finds, the decision dialog, the wizard |
| `MC<module>` | finite instances; `MC<module>.cfg` is the passing run, the other configurations are of section 6 |
| `<module>_proofs` | TLAPS, one for each module but the abstract ones, whose refinements and consequences are in the proofs of the modules that implement them |

In each module `pc` (in `Desktop`: `slot` and `question`) is the step of the
one task or callback in progress and the other variables are grouped in tuples:
what is on disk, in the memory of the process, on the controller or paper, and
history variables that only properties read. `Crash`, `Restart`, `Stop` or
`Leave` clears the memory and nothing else. Actions are named after the
handlers. Definitions called *Mutant of X* are plausible mistakes in the code X
models; each is used to show that some property notices it, and none is part of
`Next`.

The modules meet in states, not in variables: a step that another module takes
apart is one step here (a print in `VoucherCreation` and `DataRoot`, a restore
in `FirstStart`, a task's outcome in `Desktop`), and may end in each of the ways
the other module shows, dying half-way included.

### VoucherCreation

`Create` to `CreateCompleted` follow the worker of `create` file by file:
guard (`mutation_guard.py:25`), intent with the baseline of known UUIDs
(`uncertain_create_recovery.py:144`), the POST, the list after it, the
reporting marker, the archive transaction, and the removal of marker, intent and
guard, each of which may fail. The POST ends confirmed, refused, without a
usable answer (executed, lost, or still to be executed: `wire`) or with a reply
that cannot be mapped (`PostUnmapped`, only with `MalformedReplies`). `Sync*`
is the refresh and connection; its completion releases the guard or offers the
recovery, whose matching (`Compatible`, `ExactMatch`) and answers are
`Decide`, `DecisionStored`, `DecisionNotStored`.

`CreateOnce` is what remains without files, lists and tasks: a creation is sent
only while none is pending; its vouchers join the station's own when an answer
is recorded (`MarkerWritten`, or `CreateStored` if the marker could not be
written), all of them at once; a creation without an answer ends by an answer of
the operator alone. Its `own` is `Own` here: the rows classified as made by the
application and those the marker names for it.

Abstractions: the session's controller is the enrolled one; presence is
monotone (vouchers do not leave, see `VoucherArchive`); the parameters of a
request are not kept, so every new voucher matches the request: this only adds
matches to the recovery. `Handled` bounds the vouchers the operator aligns and
prints.

### PrintAudit and PrintLedger

A job goes prepared marker, Windows, submitted marker, history rows, SQLite
transaction, marker removed. The preview's worker takes the first steps and the
callback the others; `CloseWindow` makes the callback void. `Register` (the
button of the window), `Start` (startup), `RecoverSubmitted`, `RecoverPrepared`
and `Discard` (settings) each complete or drop what was left. An append may be
torn, after which the history is unreadable and every reading of it is refused.
The Windows users of a shared root follow one another (`user`); SQLite keeps who
recorded a job (`auditor`) and takes the same job again from nobody else
(`AuditPossible`, `database.py:1664`), while the marker names nobody.
The reprint question is kept apart from `pc`, since a print of another window
may complete under it.

Abstractions: all vouchers are aligned and their first print is an ordinary
one; rows of PDF generation matter only as appends that may tear the file; the
operator answers truthfully whether a prepared document came out of the printer;
a line that is complete but lacks its newline, and the sync of the directory,
are left out.

### VoucherArchive

`Persist(L, A)` is one transaction of `persist_successful_snapshot`: `L` is
stored, `A` are vouchers a direct GET answered 404 for. It raises and clears
suspicions, marks `A` absent, reports as removed by others the absences nobody
here asked for, and settles pending requests (`Settle`). The connection
persists with no absence, the refresh verifies what two lists in a row have
omitted (`Examine`), the deletion declares its own batch absent. Requests and
outcomes are the sets of events. `DeleteOffered`, `DeleteAccepted`,
`DeleteRequested` are the two readings around the modal reason dialog, while
which the automatic retry may refresh (taken to be due at any time). A DELETE
ends confirmed, refused or uncertain; an uncertain one was executed, was lost,
or (with `LateDeletes`) is executed later.

`VoucherLife` is the view of one voucher: `Place`, `Row`, `Paper`, `Asked` and
`Book` read its variables from the sets of the archive. A list is `Listed` or
`Omitted` for it, a committed removal `Ended`; a batch, a crash, a reading or a
step of another voucher is a step or a stutter. It orders what the sets alone do
not: no deletion is asked for after a print, no revocation before a list has
followed the print, one request at a time, no outcome before the voucher is
gone, and no entry of the book is ever taken back.

Abstractions: use and expiry are a reading that may refuse; `seen` stands for
`last_seen_at` later than the last print, with a clock that does not go back;
rows imported as printed without a print date are not modelled; the threshold
of days of the revocation is always reached; `controller_snapshot_live` gates
creation alone and belongs to `VoucherCreation` and `Desktop`.

### LegacyMigration

`OfferReconciliation`, `Compare`, `Confirm`, `SafetyBackup`, `Apply`,
`Materialise` are the guided migration: candidates and plan are computed in a
background task, three dialogs and a backup follow, and only then are evidence
and facts written, in two transactions, while lists may arrive (`Refresh`).
`ImportZip`, `RepairMinimised`, `EnsureCandidates` are the import of a ZIP,
which commits its placeholders before the plan is applied. `Moves` and `Merged`
are the replacement of a placeholder by the voucher of a controller, with its
prints numbered again.

Abstractions: all rows carry the HMAC of one key; `archived_at` and the event
`RETENTION_ARCHIVED` are one flag, and the repair of an `archived_at` that an
early 5.1 left empty is part of it; one native print, made by a clock that does
not go back; what makes a placeholder immovable is `Touched`.

### DataRoot

A tree is what the managed directories hold: the fingerprint in
`settings.json`, the secret, the rows of the history under their keys, the
markers, and the facts of SQLite. A restore (`ChooseBackup` to `Reopen`) copies
the tree to a rollback folder and then removes and writes both directories file
by file, in any order within a directory; each file may fail, which turns the
replacement round, and the way back may fail too. The move to the shared root
is a restore of a backup of the user's tree. The import changes key,
fingerprint and rows one after the other and goes back in the opposite order.
`LoadPreferences` and `StorePreferences` are the settings page, which may save
while the worker goes on: its button is not among the widgets the busy state
disables.

Abstractions: the directories of prints and logos, which follow the same steps;
passwords and encryption; a file is copied whole or not at all; events of
SQLite are a set, and the matching of history rows without event identities is
a union; the steps of a print are those of `PrintAudit`. A save that falls
between the removal and the copy of the settings makes the copy fail in the
code; here it may fail (`ReplaceFails`) or overwrite. The export of a package
changes nothing and is no action.

### Desktop

`Command` is every way the operator reaches the runner, `Finish` the worker's
end with any of its outcomes, `Poll` the callbacks, `Fire` the retry timer.
Behind an open question polls, timers and idle callbacks run and commands do
not. A notice without a consequence is one step with its callback. `newer` is a
history variable: a task that writes began since the last backup did. The few
rows the Tk thread writes itself (a session, a note of the close) are not
counted.

The callback of a connection takes over client and figures, writes the settings
file, and only then gives its verdict on them; `Interrupted` is the write that
raises in between (`controller_connection_ui.py:358`; Tk shows the error and
goes on). `cut`, a history variable, holds from there to the next verdict,
`missed` from a retry that found the slot taken to the next verdict. That what a
callback only displays or reads for display (tables, figures, the state of the
history) raises nothing is assumed.

Two consequences of the model are worth knowing although no property calls
them wrong: answering no to a certificate while a retried refresh runs drops
the client, after which the refresh completes and Home shows live figures with
no client; answering yes then is refused by the runner without a word.

### FirstStart

The shared installation: Windows users take turns under the guard of the data
root. `Create` to `Upgrade` is `Database.initialize` statement by statement;
`Disposition` is the classification of the start; `Migrate`, `StartFresh` and
`Restore` are the answers to the decision dialog; the wizard stores its marker
first and its profile last. `origin`, a history variable, is the furthest source
of what the tree holds.

Abstractions: restore and move are one step (their files are `DataRoot`'s); the
identity of the history, which a start creates, is `DataRoot`'s too; per-user
mode, where `paths.py` copies earlier roots into place, is not modelled; the
columns each upgrade changes are left out; the program is not updated between a
first creation that was interrupted and the start that completes it.

## 3. Runs

| Run | What it shows | Bounds |
|---|---|---|
| `creation` | `NoReplay`, `ConfirmedTracked`, `OnceKept` and types | two vouchers, two requests: a second request is what a replay needs, and the second voucher may be another station's. Quantity is one, so each request fills or misses its number. None is aligned or printed: that changes only whether a classification is possible, which `creation_live` covers with one request and the proofs with any number |
| `creation_live` | `EvidenceFinal`, `BarriersDrain` | one request, malformed replies included: a barrier left by one request is the question. One voucher may be aligned and printed, this station's or another's |
| `print_audit` | `PrintNeverLost`, `LabelsOnce`, `LedgerKept`, `MarkerDrains` and types | two jobs, two windows, two vouchers: a job left pending and one that follows; two windows make the reprint of one voucher race. Two Windows users: one records, the other starts next. Users are told apart only by who recorded, so the first record may be taken to be `FirstUser`'s, and `UserUnchanged` lets nobody else start before it |
| `archive` | `AbsenceProven`, `OutcomeTrue` and types | two vouchers, lists that hold anything that ever existed; two vouchers make a batch that stops halfway and two requests of different kinds |
| `archive_late` | `LivesFollowed`, `RequestRemembered`, `DeleteNotReplayed`, `ReasonKept`, `DetectedAreForeign`, `PendingSettles` | one voucher without recipient (the exceptional deletion), truthful lists, late executions. The properties are about one voucher at a time; that a batch does not mix them up is what the theorems of section 4 say for any number |
| `legacy` | `FactsFollowEvidence`, `FirstPrintIsEarliest`, `EvidenceMonotone`, `MinimisedStays` and types | two codes, two controllers (an ambiguity), two ZIPs that overlap, two prints of one code with a native one between them, and a generation |
| `data_root` | `RowsUnderOneKey`, `NothingLost`, `HandleHasFile`, `RestoreIsWhole`, `LastGoodBackup`, `UnsettledStays` and types | two keys (the station's and a foreign one), one print made and one brought in, one rollback folder, one preference save; three kinds of foreign backup: of another identity, of this one without SQLite, and without fingerprint |
| `desktop` | `HealthHonest`, `TimerBelongs`, `BackupCoversArchive`, `SlotFreed`, `ReconnectSettles` and types | the three delays of the code; the state is finite otherwise |
| `first_start` | `SchemaWhole`, `WizardResumes` | three users (data of 4.x, an older database, nothing), three tables, three schema versions, backups finished, unfinished and newer than the program |
| `creation_malformed`, `desktop_amber`, `first_start_pristine` | a document or comment of the repository is not what the code does (section 6) | the smallest instance with the counterexample |

Deadlock is checked in every run. Symmetry of the vouchers is used in safety
runs only. Stale lists and late executions are separate runs because together
they only multiply the states; the proofs cover both at once, except where a
property holds of truthful lists only. `OriginJustified`, `PendingExamined` and
`OneRequest` are in no run: `OnceKept` and `LivesFollowed` imply the first and
the third, the second follows from `VoucherLife`, and all three are theorems.

### Fairness

Liveness needs an environment that recovers; the code does not promise more.
`VoucherCreation` and `PrintAudit` assume that from some time on there is no
crash and no network or archive error (`<>[][Healthy]_vars`), that a task that
has started goes on (`Working`: worker threads and the Tk poll are never
suspended) and that the operator synchronises, or asks for the recovery, again
and again: the application tells so in every message that reports a barrier,
for example `backup.py:332-336`. In `VoucherCreation` the removal of a file may
go on failing, and only succeeds in the end (strong fairness): were a failure
excluded by a formula over steps, a step of the code that forgets to remove the
file would be excluded with it. `Create` and `OpenPreview` do not happen in the
healthy period: a new operation may raise its own barrier. `VoucherArchive` has no
period without errors: crashes and failures go on for ever, and strong fairness
says that now and then a whole refresh succeeds, including the GETs of what is
suspected. No fairness is assumed of the controller, of other stations or of
any deletion; the answer to a dialog is (an operator leaves no dialog open for
ever), because it blocks the refresh.

`Desktop` assumes weak fairness of `Finish` (every network call has a time-out,
so each worker ends), `Poll`, `Fire` and `IdleReport` (the main loop runs every
40 ms, behind a question too). The operator owes nothing and may crash the
program at any time. `ReconnectSettles` leaves out a reconnect whose retry was
refused by the runner (`missed`), which is the finding `desktop_amber`: every
other path has a timer, a refresh under way or an end.

`MarkerDrains` excludes three states of a job that is on paper: the history is
unreadable, a printed voucher is no longer in the application model, or another
user has recorded the job already. In the first two the code offers no way out
but a repair of the files, in the third the user who recorded it must start the
program (section 6). A job that is not on paper is never excused.

## 4. Proofs

All theorems hold for every value of the constants under the named assumptions
of the modules. Each follows the same argument: an inductive invariant `IInv`
(with `NextHolds`, `NextInductive` or one lemma per part), and the property as
its consequence.

* `VoucherCreation_proofs`. `TypeCorrect` and `OriginAlwaysJustified` for any
  replies: `Justified` adds to the property that marker and worker's memory
  name confirmed or claimed vouchers only. `PrintEvidenceFinal`, for any replies
  too, needs `Existing`: lists, rows and prints are of vouchers that exist, so
  the vouchers of a reply are not printed before their creation is recorded.
  `ConfirmedNeverForgotten` and `CreateNeverRepeated` are under
  `WellFormedReplies`, since `creation_malformed` shows them false otherwise.
  `ConfirmedTracked` is not inductive: whether a confirmed UUID may lose its
  intent depends on what the worker's local variables and the marker hold at
  each step. `Numbering` ties the intent to the request in progress, `Tracking`
  says at which step which of marker and rows covers the vouchers of the intent,
  and `Barrier` that the only open POST is the one the intent names.
  `CreateOnceImplemented` is the refinement: with `Replied` (the intent is of the
  last creation or of one that was never sent; what the worker is about to
  record is exactly what the reply named) each step is one of `CreateOnce` or
  leaves its variables. The abstract specification alone gives `OnceIsAccounted`
  (`Accounts`: a creation that may still be executed has named nothing, a reply
  names all its creation made), and both together `NothingForgotten`, which is
  stronger than `ConfirmedTracked`: it covers the vouchers of a creation whose
  reply never came.
* `PrintAudit_proofs`. `Numbered` orders the jobs, `Holder` says that from the
  preparation to the end the marker names the job of the task and what the
  earlier steps have done to the stores; with them `LabelsOnce` and
  `PrintNeverLost` are inductive. `LedgerImplemented` is the refinement: the
  print is a step `Send` of `PrintLedger`, the SQLite transaction a step
  `Enter`, all others stutter. All of it is for any users of the root.
* `VoucherArchive_proofs`. `Known` places every row: on the controller or gone,
  and gone if absent. `Evidence` is what each step has established before the
  transaction writes: a list holds only what exists or existed, an absent
  voucher is gone, a batch between its DELETEs and its record is gone.
  `Exclusive` is why the workflows do not collide: a pending deletion is of a
  voucher that no list has shown since it was printed, whereas a revocation
  needs that observation, and the observation itself settles the deletion.
  From these follow `OmissionIsNoAbsence`, `OutcomesTrue`,
  `PendingAlwaysExamined` and `OneRequestOnly`. `Remembered` says that what the
  task in progress has sent is in the archive, `Unanswered` that a DELETE
  without answer is still pending, and `Truthful` what a truthful list says of
  a voucher whose request it settles; from these `RemovalsRemembered` and
  `NoDeleteReplayed` with any lists, `ReasonsKept` and `DetectionsForeign`
  under `~StaleLists`: a stale list closes a request whose DELETE took place,
  and the reason is then no longer the pending one. `VoucherImplementsLife`
  (`LivesAlwaysFollowed` for all vouchers at once) is the refinement. `Living`
  adds what the view of one voucher needs: the absences about to be written are
  of vouchers under suspicion, a DELETE the worker saw confirmed is a removal by
  this station, a recorded batch has left the list of present vouchers, and what
  a revocation still has to send is present, seen printed, without an outcome
  and apart from the batch it is sending; `NextLife` maps each action, `PersistLife` the
  transaction of a list, in which one voucher is listed, another omitted and a
  third ended. `LifeIsConsistent` draws the reader's conclusions in `VoucherLife`
  alone, `ArchiveIsConsistent` transfers them to the archive.
* `LegacyMigration_proofs`. `PlanOk` says that a plan resolves a row to a
  voucher with its code, `HasSource` that the import has its ZIP. The merge is
  the hard step: `MovedFacts` and `FactsMoved` show that it is a function on
  vouchers that are there, `EarliestExists` that numbering by time is defined.
* `DataRoot_proofs`. `ReplaceSound` and `FilesSound` say, phase by phase and
  file by file, what the replacement has done and that the rollback folder is
  the tree of before; `MergeSound` the same of an import; `LossSound` names the
  tree that answers for each print while `live` is taken apart.
* `Desktop_proofs`. `HealthAlwaysHonest` and `TimerAlwaysBelongs` hold of
  connections that end without a verdict too, and say so: a colour is honest
  when the last connection had one (`~cut`), and a timer runs over live figures
  only when it had none. `Colour` and `Closed` relate the flags of the connection
  and the end of the program; `BackupFresh` is why the backup of a close is
  current: nothing can start while it has the slot, and its callback closes.
* `FirstStart_proofs`. `Shapes` says how far an interrupted creation is,
  `Sources` that the wizard writes nothing unmarked.

Only model-checked: the liveness properties `BarriersDrain`, `MarkerDrains`,
`PendingSettles`, `SlotFreed`, `ReconnectSettles` (fairness is out of the
prover's reach). Every safety property of a passing run is a theorem.

## 5. Hazards

`PROJECT.json` lists them at their lines with the properties that would notice.
Where a property confines a hazard without excluding it, a note says what is
left: a divergence of section 6, with the property that is stated in a module
and refuted by one of its configurations.

## 6. Where the code and its documents disagree

Findings, each a run of the project:

* `creation_malformed`: a 201 reply with an item that is not an object leaves
  through an exception the client does not turn into an uncertain outcome
  (`unifi_api.py:763`); guard and intent go, and the creation can be repeated.
* `desktop_amber`: a retry that fires while another task has the slot is
  refused and never scheduled again (`modern_app.py:2861`); the amber state,
  which `ARCHITECTURE.md:362` calls finite, stays until the operator
  synchronises from the voucher page, since Home's button is dead meanwhile.
* `first_start_pristine`: a first start that dies between the version number
  and the row that repeats it (`database.py:506`) leaves a root that every later
  start takes as current, offers the migration for, and refuses to migrate into
  (`shared_data_migration.py:120`).

The following are stated as properties and refuted by configurations that are
kept beside the modules and are no runs (`tlc -config X.cfg M` shows the
counterexample):

| Configuration | Property | What the code does | What is said |
|---|---|---|---|
| `MCVoucherCreationPrinted` | `PrintEvidenceKept` | classifying a creation late sets `NOT_PRINTED` on a voucher aligned and printed in the meantime (`database.py:1433`) | `5.1_EXTERNAL_RELEASE_REVIEW_2026-10-03.md:112` "physical print evidence cannot be downgraded;" |
| `MCVoucherCreationVisible` | `ConfirmedStayShown` | a list older than the POST whose archiving fails is shown as it is, and called live (`app.py:858`) | `5.1_PRODUCT_SPECIFICATION.md:231` "A stale successful list after POST must not make confirmed UUIDs disappear from the application model." |
| `MCPrintAuditReprint` | `ReprintConfirmed` | the printed vouchers are read before the modal question and not after it (`pdf_preview.py:428`) | `reprint_policy.py:28` "A verified physical print always requires confirmation." |
| `MCPrintAuditUsers` | `MarkerDrainsForAll` | a job that SQLite holds is refused to every user but the one who recorded it (`database.py:1664`), so after a crash between that transaction and the removal of the marker another user's starts and recoveries (`app.py:1311`) never remove it | `SECURITY.md:80` "It supports idempotent recovery after interruption"; the docstring at `app.py:1317` rests on data "per Windows user", the managed shared deployment (`README.md:166`) has one root for all |
| `MCPrintAuditDelete` | `PrintedNotDeleted` | the deletion policy does not read the pending print marker (`workflows.py:498`) | `history.py:3` "Any ambiguity in history or key identity therefore fails closed instead of being interpreted as empty." |
| `MCLegacyMigrationConverge` | `CleanMeansConverged` | only rows of `history.jsonl` are compared with the archive, never those of a ZIP alone (`data_maintenance_ui.py:872`) | `5.1_FINAL_UAT_CHECKLIST.md:273-275` "no duplicate synthetic/live business row remains after safe convergence" |
| `MCDataRootSettings` | `FingerprintKept` | `settings.update` loads, merges and saves without a lock (`settings.py:212`) | its docstring: "Merge whitelisted changes into the latest on-disk state atomically." |
| `MCDesktopGreen` | `GreenIsAuthoritative` | the list read again after an uncertain deletion is authoritative whatever it omits (`voucher_deletion_ui.py:507`) | `5.1_FINAL_UAT_CHECKLIST.md:118` "connection indicator is green only after an authoritative current snapshot" |
| `MCDesktopUnwritten` | `GreenIsLive` | settings that cannot be written end the callback of a connection before its verdict (`controller_connection_ui.py:358`): green stays over a partial list, red or amber over live figures | `5.1_FINAL_UAT_CHECKLIST.md:120` "a failed/partial refresh does not leave apparently authoritative green KPIs" |
| `MCDesktopClosed` | `NeverInterrupted` | the answers of the close flow do not look at the slot again, in which a retried refresh may run (`data_maintenance_ui.py:140`) | docstring of `request_close`: "A running background operation is never interrupted by shutdown." |

Others were seen while modelling and have no property:

* A history that is unreadable next to the marker of a printed job can neither
  be recovered, which needs the history, nor restored, which needs the marker
  resolved (`backup.py:257`).
* A request closed as not applied because a list still holds the voucher
  (`preparation_deletion.py:423`, `security_revocation.py:436`) may be executed
  later; `RequestRemembered` says what the archive keeps in that case.
* A voucher whose deletion is pending can still be printed (`app.py:1024`).
* The docstring of `legacy_migration_plan_needs_reconciliation`
  (`legacy_migration.py:377`) says that resolved evidence "remains valid even if
  a later candidate snapshot can no longer reproduce the old association"; the
  application of a plan in which one resolved row is no longer resolved refuses
  the plan as a whole, other rows included (`legacy_migration.py:918`).
* A ZIP imported while no controller is active, with two rows of one code,
  creates a third row before the plan fails on the ambiguity.
* `settings.load` answers defaults for a file it cannot read; the next update
  writes them back.
* A backup of a station whose identity fails closed is created and verified,
  and no station can restore it (`Restorable`).
* A crash in the middle of a restore leaves the rollback folder unused: the
  next start opens what is there, an empty archive if it was removed.
* `backup.validate` accepts a database newer than the program; after such a
  restore every start ends in `Leave`.
* `ARCHITECTURE_5_0.md:185-189` gives the marker of the wizard the higher
  priority and also says that data in LocalAppData always take precedence: a
  second user's data are not offered once another user began the wizard.
* In per-user mode `paths.py:196` copies settings, history and key "if missing"
  one by one and from several roots, so one root's history may come under
  another root's key and its rows then look unprinted.

## 7. Not modelled, and what is left

* **Reports and retention**: projections of rows; the archiving step of the
  retention always refuses in this version. `Desktop` has the task that
  recomputes the figures.
* **File locks**: the byte lock of the operating system, released when a process
  dies, is taken as given; `FirstStart` has the guard as a variable.
* **The columns of the migrations**: each is one transaction here.
* **Adoption of earlier per-user roots** (`paths.py`): section 6 names its
  hazard; a module would extend `DataRoot` with several source trees.
* **A composition of `PrintAudit` and `VoucherArchive`** for prints of vouchers
  with a pending deletion, and of `Desktop` with `VoucherArchive` for the retry
  that is due only where `Desktop` says.
* TLS and certificate pinning, pagination and the mapping of fields (data
  without protocol), PDF layout and fonts, logging, widgets, filters and
  figures of the presentation, build and installation tools.
