------------------------------ MODULE DataRoot ------------------------------
(* The files under the data root that must agree with one another, and the *)
(* services that replace them: settings.json with the fingerprint of the   *)
(* HMAC identity, history_secret.key, history.jsonl whose rows are digests *)
(* under that key, the SQLite archive and the markers of unsettled work.   *)
(* Backup, restore, the move to the shared root (backup.py,                *)
(* shared_data_migration.py) and the exchange of histories between         *)
(* stations (history_exchange.py) work file by file; the process may die   *)
(* or a file may fail between any two, and the Tk thread may save the      *)
(* preferences meanwhile (settings.py).                                    *)
EXTENDS Integers, FiniteSets

CONSTANTS
  Job,           \* physical prints
  Key,           \* secrets of the HMAC identity; a fingerprint stands for one
  Elsewhere,     \* backup files from other stations and earlier versions
  Package,       \* packages exported by this or other stations
  PerUser,       \* the data root of the user's earlier installation
  MaxRollbacks,  \* bound: restores that leave a rollback folder
  MaxPrints,     \* bound: prints made on this station
  MaxSaves,      \* bound: preference saves during a worker's operation
  MaxUnsettled,  \* bound: things unsettled at a time
  Create,        \* marker of an unsettled creation
  Remote,        \* event of an unsettled deletion or revocation in SQLite
  Torn,          \* a file that was not written to its end
  None

Entry == Job \X Key

\* What the managed directories hold. A missing archive is None.
Tree == [fp : Key \cup {None}, key : Key \cup {None}, rows : SUBSET Entry,
         markers : SUBSET (Job \cup {Create}),
         facts : (SUBSET (Job \cup {Remote})) \cup {None}]

File == {"fp", "key", "rows", "markers", "facts"}
InConfig == {"fp"}
InData == File \ InConfig
Gone == [fp |-> None, key |-> None, rows |-> {}, markers |-> {}, facts |-> None]

Bundle == [key : Key, rows : SUBSET Entry]

OneIdentity(t) == t.key # None => t.rows \subseteq Job \X {t.key}

ASSUME DataRootAssumption ==
  /\ Elsewhere \subseteq Tree /\ \A t \in Elsewhere : OneIdentity(t)
  /\ Package \subseteq Bundle /\ \A b \in Package : OneIdentity(b)
  /\ PerUser \in Tree /\ OneIdentity(PerUser)
  /\ MaxRollbacks \in Nat /\ MaxPrints \in Nat /\ MaxUnsettled \in Nat
  /\ MaxSaves \in Nat
  /\ None \notin Key \cup Tree /\ \A s \in SUBSET (Job \cup {Remote}) : s # None
  /\ Create \notin Job /\ Remote \notin Job

VARIABLES
  live,       \* the tree in use
  backup,     \* the backup at the operator's destination
  temp,       \* the backup being written beside it
  rollbacks,  \* rollback folders left behind by restores
  saved,      \* rollback folder of the restore in progress
  before,     \* the tree as the restore or import in progress found it
  incoming,   \* the backup, or the package, to be brought in
  pc,         \* step of the operation in progress
  todo,       \* files of the directory that step has still to handle
  dbOpen,     \* the Tk thread holds its SQLite handle
  saves,      \* preference saves so far
  prefs,      \* fingerprint read by a preference save that has yet to write
  made        \* prints that reached history.jsonl on this station

outside == <<backup, temp>>
copies == <<rollbacks, saved>>
task == <<before, incoming, pc, todo>>
save == <<prefs, saves>>
vars == <<live, outside, copies, task, dbOpen, save, made>>

Removing == {"remove config", "remove data"}
Copying == {"copy config", "copy data"}
Undoing == {"undo remove config", "undo copy config", "undo remove data",
            "undo copy data"}
Replacing == Removing \cup Copying \cup Undoing
Merging == {"set key", "set fingerprint", "set rows", "verify",
            "unset rows", "unset fingerprint", "unset key"}
Worker == Replacing \cup Merging \cup {"stage", "write backup", "check backup"}
Modal == {"confirm", "preview", "restored", "rolled back", "failed", "merged", "unmerged"}
Step == Worker \cup Modal \cup {"off", "identity", "fingerprint", "idle"}

TypeOK ==
  /\ live \in Tree
  /\ backup \in Tree \cup {None} /\ temp \in Tree \cup {Torn, None}
  /\ rollbacks \subseteq Tree /\ saved \in Tree \cup {None}
  /\ before \in Tree \cup {None}
  /\ incoming \in Tree \cup Bundle \cup {None}
  /\ pc \in Step /\ todo \subseteq File /\ dbOpen \in BOOLEAN
  /\ prefs \in [fp : Key \cup {None}] \cup {None}
  /\ saves \in 0..MaxSaves /\ made \subseteq Job

\* Mutant of Ready: no fingerprint agrees with no key.
ReadyWithoutKey(t) == t.key = t.fp

Ready(t) == t.fp # None /\ t.key = t.fp

Stored(t) == IF t.facts = None THEN {} ELSE t.facts

\* What forbids a backup, a restore or a migration.
Unsettled(t) == t.markers \cup (Stored(t) \cap {Remote})

Init ==
  /\ live = Gone
  /\ backup = None /\ temp = None
  /\ rollbacks = {} /\ saved = None /\ before = None /\ incoming = None
  /\ pc = "off" /\ todo = {} /\ dbOpen = FALSE /\ prefs = None
  /\ saves = 0 /\ made = {}

-----------------------------------------------------------------------------
(* Start, identity and ordinary work                                       *)

\* The archive is opened first; a missing one is created empty.
Start ==
  /\ pc = "off"
  /\ live' = [live EXCEPT !.facts = Stored(live)]
  /\ dbOpen' = TRUE /\ pc' = "identity"
  /\ UNCHANGED <<outside, copies, before, incoming, todo, save, made>>

\* Mutant of MayRotate: a mismatch alone is reason enough for a new key.
MayRotateBehindRows(t) == t.key = None \/ t.fp # None

\* A key is made, or blessed, only where no row depends on another one.
MayRotate(t) == t.rows = {}

\* ensure_ready, at the start and whenever a secret is asked for.
Identify ==
  /\ pc = "identity" \/ (pc = "idle" /\ ~Ready(live) /\ MayRotate(live))
  /\ \/ /\ Ready(live) \/ ~MayRotate(live)
        /\ pc' = "idle" /\ UNCHANGED live
     \/ /\ MayRotate(live) /\ live.key # None /\ live.fp = None
        /\ live' = [live EXCEPT !.fp = live.key] /\ pc' = "idle"
     \/ /\ MayRotate(live) /\ ~Ready(live) /\ ~(live.key # None /\ live.fp = None)
        /\ \E k \in Key : live' = [live EXCEPT !.key = k]
        /\ pc' = "fingerprint"
  /\ UNCHANGED <<outside, copies, before, incoming, todo, dbOpen, save, made>>

StoreFingerprint ==
  /\ pc = "fingerprint" /\ pc' = "idle"
  /\ live' = [live EXCEPT !.fp = live.key]
  /\ UNCHANGED <<outside, copies, before, incoming, todo, dbOpen, save, made>>

Work(t) ==
  /\ pc = "idle" /\ dbOpen /\ live' = t
  /\ UNCHANGED <<outside, copies, task, dbOpen, save>>

MayLeave == Cardinality(Unsettled(live)) < MaxUnsettled

Entered(t, p) == [t EXCEPT !.rows = @ \cup {<<p, t.key>>}]

\* A print (module PrintAudit has its steps): its marker, then its row, then
\* its fact. It may be left after any of them.
PrintOne(p) ==
  /\ Ready(live) /\ live.markers \cap Job = {}
  /\ p \notin made /\ Cardinality(made) < MaxPrints
  /\ \/ /\ MayLeave /\ Work([live EXCEPT !.markers = @ \cup {p}])
        /\ UNCHANGED made
     \/ /\ MayLeave /\ Work([Entered(live, p) EXCEPT !.markers = @ \cup {p}])
        /\ made' = made \cup {p}
     \/ /\ Work([Entered(live, p) EXCEPT !.facts = @ \cup {p}])
        /\ made' = made \cup {p}

RecoverPrint(p) ==
  /\ p \in live.markers /\ Ready(live)
  /\ Work([Entered(live, p) EXCEPT !.facts = @ \cup {p}, !.markers = @ \ {p}])
  /\ made' = made \cup {p}

DiscardPrint(p) ==
  /\ p \in live.markers /\ live.rows \cap ({p} \X Key) = {}
  /\ Work([live EXCEPT !.markers = @ \ {p}]) /\ UNCHANGED made

LeaveUnsettled ==
  /\ MayLeave
  /\ \/ Work([live EXCEPT !.markers = @ \cup {Create}])
     \/ Work([live EXCEPT !.facts = @ \cup {Remote}])
  /\ UNCHANGED made

Settle ==
  /\ \/ Create \in live.markers /\ Work([live EXCEPT !.markers = @ \ {Create}])
     \/ Remote \in Stored(live) /\ Work([live EXCEPT !.facts = @ \ {Remote}])
  /\ UNCHANGED made

\* A settings file that cannot be parsed is loaded as the defaults.
LoseSettings ==
  /\ pc \in {"off", "idle"} /\ live.fp # None
  /\ live' = [live EXCEPT !.fp = None]
  /\ UNCHANGED <<outside, copies, task, dbOpen, save, made>>

\* The operator types the fingerprint of the key that is there.
AdoptPresentSecret ==
  /\ live.fp = None /\ live.key # None /\ live.rows # {}
  /\ Work([live EXCEPT !.fp = live.key]) /\ UNCHANGED made

\* settings.update of the settings page: the Tk thread reads the file and
\* writes it back whole, while the worker it started earlier goes on.
LoadPreferences ==
  /\ pc \in Worker /\ prefs = None /\ saves < MaxSaves
  /\ prefs' = [fp |-> live.fp] /\ saves' = saves + 1
  /\ UNCHANGED <<live, outside, copies, task, dbOpen, made>>

StorePreferences ==
  /\ prefs # None /\ prefs' = None
  /\ live' = [live EXCEPT !.fp = prefs.fp]
  /\ UNCHANGED <<outside, copies, task, dbOpen, saves, made>>

-----------------------------------------------------------------------------
(* Backup                                                                  *)

\* Markers are never portable.
Portable(t) == [t EXCEPT !.markers = {}]

\* Mutant of MayCopy: only markers are looked for, not the archive's requests.
MayCopyMarked(t) == t.markers = {}

MayCopy(t) == Unsettled(t) = {}

\* A request for a backup, refused while anything is unsettled.
CreateBackup ==
  /\ pc = "idle" /\ dbOpen /\ MayCopy(live)
  /\ pc' = "write backup"
  /\ UNCHANGED <<live, outside, copies, before, incoming, todo, dbOpen, save, made>>

WriteBackup ==
  /\ pc = "write backup" /\ pc' = "check backup"
  /\ temp' \in {Portable(live), Torn}
  /\ UNCHANGED <<live, backup, copies, before, incoming, todo, dbOpen, save, made>>

\* Mutant of Validated: what was written is taken as it is.
ValidatedUnread(t) == t # None

Validated(t) == t \notin {None, Torn} /\ Unsettled(t) = {}

\* Only a file that passed validation replaces the last good one.
FinishBackup ==
  /\ pc = "check backup" /\ pc' = "idle" /\ temp' = None
  /\ backup' = IF Validated(temp) THEN temp ELSE backup
  /\ UNCHANGED <<live, copies, before, incoming, todo, dbOpen, save, made>>

-----------------------------------------------------------------------------
(* Restore and migration                                                   *)

Backups == Elsewhere \cup ({backup} \ {None})

\* restore_backup: the file is validated before the question is asked.
ChooseBackup ==
  /\ pc = "idle" /\ Cardinality(rollbacks) < MaxRollbacks
  /\ \E t \in Backups :
       /\ Validated(t) /\ incoming' = t
  /\ pc' = "confirm"
  /\ UNCHANGED <<live, outside, copies, before, todo, dbOpen, save, made>>

AnswerNo ==
  /\ pc \in {"confirm", "preview"} /\ pc' = "idle" /\ incoming' = None
  /\ UNCHANGED <<live, outside, copies, before, todo, dbOpen, save, made>>

\* Mutant of ConfirmRestore: the handle stays open.
ConfirmRestoreOpen ==
  /\ pc = "confirm" /\ pc' = "stage"
  /\ UNCHANGED <<live, outside, copies, before, incoming, todo, dbOpen, save, made>>

\* The handle is closed before the worker starts.
ConfirmRestore ==
  /\ pc = "confirm" /\ pc' = "stage" /\ dbOpen' = FALSE
  /\ UNCHANGED <<live, outside, copies, before, incoming, todo, save, made>>

\* The shared root holds nothing but what its first start made.
Pristine(t) == t.rows = {} /\ t.markers = {} /\ Stored(t) = {}

\* The user's earlier tree moves through a backup of its own.
MigrateToShared ==
  /\ pc = "idle" /\ dbOpen /\ Cardinality(rollbacks) < MaxRollbacks
  /\ Pristine(live) /\ PerUser # Gone /\ MayCopy(PerUser)
  /\ incoming' = Portable(PerUser)
  /\ pc' = "stage" /\ dbOpen' = FALSE
  /\ UNCHANGED <<live, outside, copies, before, todo, save, made>>

\* The staged settings, key and history must verify each other.
Restorable(t) ==
  /\ t.fp # None => t.key = t.fp
  /\ t.rows # {} => t.fp # None

\* Mutant of Rollback: the copy leaves SQLite out and no snapshot goes in.
RollbackWithoutArchive(t) == [t EXCEPT !.facts = None]

\* The rollback copy has the files, and SQLite as an online snapshot.
Rollback(t) == t

\* Everything is staged and checked, and the rollback copy is complete under
\* its final name, before the first live file is touched.
Stage ==
  /\ pc = "stage"
  /\ MayCopy(live) /\ Restorable(incoming)
  /\ saved' = Rollback(live) /\ before' = live
  /\ pc' = "remove config" /\ todo' = InConfig
  /\ UNCHANGED <<live, outside, rollbacks, incoming, dbOpen, save, made>>

\* A refusal, or an error before the rollback copy is there.
StageFails ==
  /\ pc = "stage" /\ pc' = "failed"
  /\ UNCHANGED <<live, outside, copies, before, incoming, todo, dbOpen, save, made>>

\* Mutant of After: the way back ends with the first directory.
AfterConfig(s) ==
  CASE s = "remove config" -> <<"copy config", InConfig>>
    [] s = "copy config" -> <<"remove data", InData>>
    [] s = "remove data" -> <<"copy data", InData>>
    [] s = "copy data" -> <<"restored", {}>>
    [] s = "undo remove config" -> <<"undo copy config", InConfig>>
    [] OTHER -> <<"rolled back", {}>>

\* The phases of a replacement, each with the files of its directory.
After(s) ==
  CASE s = "remove config" -> <<"copy config", InConfig>>
    [] s = "copy config" -> <<"remove data", InData>>
    [] s = "remove data" -> <<"copy data", InData>>
    [] s = "copy data" -> <<"restored", {}>>
    [] s = "undo remove config" -> <<"undo copy config", InConfig>>
    [] s = "undo copy config" -> <<"undo remove data", InData>>
    [] s = "undo remove data" -> <<"undo copy data", InData>>
    [] OTHER -> <<"rolled back", {}>>

\* What a phase puts in the place of a file.
Source(s) ==
  CASE s \in {"copy config", "copy data"} -> incoming
    [] s \in {"undo copy config", "undo copy data"} -> saved
    [] OTHER -> Gone

ReplaceFile ==
  /\ pc \in Replacing
  /\ \E f \in todo :
       /\ live' = [live EXCEPT ![f] = Source(pc)[f]]
       /\ todo' = todo \ {f}
  /\ UNCHANGED <<outside, copies, before, incoming, pc, dbOpen, save, made>>

NextPhase ==
  /\ pc \in Replacing /\ todo = {}
  /\ pc' = After(pc)[1] /\ todo' = After(pc)[2]
  /\ saved' = IF pc' = "rolled back" THEN None ELSE saved
  /\ UNCHANGED <<live, outside, rollbacks, before, incoming, dbOpen, save, made>>

\* A file that cannot be removed or written turns the replacement round.
ReplaceFails ==
  /\ pc \in Removing \cup Copying
  /\ pc' = "undo remove config" /\ todo' = InConfig
  /\ UNCHANGED <<live, outside, copies, before, incoming, dbOpen, save, made>>

\* The recovery itself fails: the rollback folder stays.
UndoFails ==
  /\ pc \in Undoing /\ pc' = "failed" /\ todo' = {}
  /\ rollbacks' = rollbacks \cup {saved} /\ saved' = None
  /\ UNCHANGED <<live, outside, before, incoming, dbOpen, save, made>>

\* After a failure the archive is opened again, or that fails as well.
Reopen ==
  /\ pc \in {"rolled back", "failed"} /\ prefs = None /\ pc' = "idle"
  /\ before' = None /\ incoming' = None
  /\ \/ live' = [live EXCEPT !.facts = Stored(live)] /\ dbOpen' = TRUE
     \/ UNCHANGED <<live, dbOpen>>
  /\ UNCHANGED <<outside, copies, todo, save, made>>

\* The process ends: closed after a restore, by the operator, or at any point
\* without warning. A temporary file left behind is written over later.
Stop ==
  /\ pc # "off" /\ pc' = "off" /\ todo' = {} /\ dbOpen' = FALSE
  /\ rollbacks' = rollbacks \cup ({saved} \ {None}) /\ saved' = None
  /\ temp' = None /\ before' = None /\ incoming' = None /\ prefs' = None
  /\ UNCHANGED <<live, backup, saves, made>>

-----------------------------------------------------------------------------
(* Exchange of histories                                                   *)

NoPrintPending(t) == t.markers \cap Job = {}

\* A history with rows takes only packages of its own, verified identity.
Admits(t, b) == t.rows # {} => Ready(t) /\ t.key = b.key

PrepareImport ==
  /\ pc = "idle" /\ NoPrintPending(live)
  /\ \E b \in Package :
       /\ Admits(live, b) /\ incoming' = b
  /\ pc' = "preview"
  /\ UNCHANGED <<live, outside, copies, before, todo, dbOpen, save, made>>

\* The state is read again under the lock. An empty history adopts the
\* identity of the package, as the preview announced.
ApplyImport ==
  /\ pc = "preview"
  /\ IF NoPrintPending(live) /\ Admits(live, incoming)
       THEN /\ before' = live
            /\ pc' = IF Ready(live) /\ live.key = incoming.key
                       THEN "set rows" ELSE "set key"
       ELSE /\ pc' = "unmerged" /\ UNCHANGED before
  /\ UNCHANGED <<live, outside, copies, incoming, todo, dbOpen, save, made>>

SetKey ==
  /\ pc = "set key" /\ pc' = "set fingerprint"
  /\ live' = [live EXCEPT !.key = incoming.key]

SetFingerprint ==
  /\ pc = "set fingerprint" /\ pc' = "set rows"
  /\ live' = [live EXCEPT !.fp = incoming.key]

SetRows ==
  /\ pc = "set rows" /\ pc' = "verify"
  /\ live' = [live EXCEPT !.rows = @ \cup incoming.rows]

VerifyImport ==
  /\ pc = "verify" /\ incoming.rows \subseteq live.rows /\ pc' = "merged"
  /\ UNCHANGED live

ImportFails ==
  /\ pc \in {"set key", "set fingerprint", "set rows", "verify"}
  /\ pc' = "unset rows" /\ UNCHANGED live

\* The way back: rows first, the key last.
UnsetRows ==
  /\ pc = "unset rows" /\ pc' = "unset fingerprint"
  /\ live' = [live EXCEPT !.rows = before.rows]

UnsetFingerprint ==
  /\ pc = "unset fingerprint" /\ pc' = "unset key"
  /\ live' = [live EXCEPT !.fp = before.fp]

UnsetKey ==
  /\ pc = "unset key" /\ pc' = "unmerged"
  /\ live' = [live EXCEPT !.key = before.key]

\* The way back may fail as well; the error is shown all the same.
UnmergeFails ==
  /\ pc \in {"unset rows", "unset fingerprint", "unset key"}
  /\ pc' = "unmerged" /\ UNCHANGED live

MergeStep ==
  /\ \/ SetKey \/ SetFingerprint \/ SetRows \/ VerifyImport \/ ImportFails
     \/ UnsetRows \/ UnsetFingerprint \/ UnsetKey \/ UnmergeFails
  /\ UNCHANGED <<outside, copies, before, incoming, todo, dbOpen, save, made>>

EndImport ==
  /\ pc \in {"merged", "unmerged"} /\ prefs = None /\ pc' = "idle"
  /\ before' = None /\ incoming' = None
  /\ UNCHANGED <<live, outside, copies, todo, dbOpen, save, made>>

-----------------------------------------------------------------------------

Next ==
  \/ Start \/ Identify \/ StoreFingerprint
  \/ \E p \in Job : PrintOne(p) \/ RecoverPrint(p) \/ DiscardPrint(p)
  \/ LeaveUnsettled \/ Settle \/ LoseSettings \/ AdoptPresentSecret
  \/ LoadPreferences \/ StorePreferences
  \/ CreateBackup \/ WriteBackup \/ FinishBackup
  \/ ChooseBackup \/ AnswerNo \/ ConfirmRestore \/ MigrateToShared
  \/ Stage \/ StageFails \/ ReplaceFile \/ NextPhase \/ ReplaceFails \/ UndoFails
  \/ Reopen \/ Stop
  \/ PrepareImport \/ ApplyImport \/ MergeStep \/ EndImport

Spec == Init /\ [][Next]_vars

-----------------------------------------------------------------------------
(* Properties                                                              *)

\* Every row that is there can be verified with the key that is there, at any
\* point of a restore, an import, a way back or a crash: a mismatch shows as a
\* wrong fingerprint or a missing key, never as a printed voucher that looks
\* unprinted under a blessed key.
RowsUnderOneKey == OneIdentity(live)

Holds(t, p) ==
  t.rows \cap ({p} \X Key) # {} /\ p \in Stored(t) \cup t.markers

Kept == {live} \cup rollbacks \cup ({saved} \ {None})

\* A print once entered in the history is, row and fact or marker together, in
\* the tree in use or in one rollback folder, whatever fails or dies.
NothingLost ==
  \A p \in made : \E t \in Kept : Holds(t, p)

\* The SQLite handle of the Tk thread always has its file under it.
HandleHasFile == dbOpen => live.facts # None

\* A restore that reports success left the data directory of the backup, with
\* rows that can be verified unless a preference save fell in between; one
\* that reports a failure rolled back left the data directory of before.
RestoreIsWhole ==
  /\ pc = "restored" =>
       /\ \A f \in InData : live[f] = incoming[f]
       /\ live.fp = incoming.fp /\ live.rows # {} => Ready(live)
  /\ pc = "rolled back" => \A f \in InData : live[f] = before[f]

\* Once the operator's destination has a backup it always has a whole one, with
\* nothing unsettled in it, however later backups end.
LastGoodBackup ==
  [][/\ backup # None => backup' # None
     /\ backup' # None => backup' # Torn /\ Unsettled(backup') = {}]_vars

\* What is unsettled leaves the tree only by being settled: no restore,
\* migration or import removes a marker or a request from under it.
UnsettledStays ==
  [][\A u \in Unsettled(live) \ Unsettled(live)' :
       Settle \/ \E p \in Job : RecoverPrint(p) \/ DiscardPrint(p)]_vars

\* A settings update writes back the fingerprint that is on disk
\* (the docstring of settings.update: "atomically").
FingerprintKept ==
  [][StorePreferences => live'.fp = live.fp]_vars

=============================================================================
