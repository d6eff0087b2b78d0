-------------------------- MODULE DataRoot_proofs --------------------------
(* Proofs about DataRoot for every set of prints, keys, backups and         *)
(* packages and every bound. Rows and key stay of one identity because a    *)
(* replacement removes a directory before it copies one into it, and an     *)
(* import changes the key only under an empty history; nothing is lost      *)
(* because the rollback copy holds what the tree in use held when the       *)
(* first file was touched, and nothing is recorded until it is released.    *)
EXTENDS DataRoot, TLAPS

\* What is brought in is of one identity and settled.
IncomingSound ==
  /\ pc \in {"confirm", "stage", "restored"} \cup Replacing =>
       /\ incoming \in Tree /\ OneIdentity(incoming) /\ Unsettled(incoming) = {}
  /\ pc \in {"preview"} \cup Merging => incoming \in Bundle /\ OneIdentity(incoming)

\* So is what was written outside.
OutsideSound ==
  /\ backup # None => Validated(backup) /\ OneIdentity(backup)
  /\ temp \notin {None, Torn} => OneIdentity(temp)

\* While files are replaced the rollback copy is the tree of before.
ReplaceSound ==
  pc \in {"restored"} \cup Replacing =>
    /\ saved \in Tree /\ saved = before /\ OneIdentity(saved) /\ Unsettled(saved) = {}
    /\ Unsettled(live) = {} /\ Restorable(incoming)

\* What a phase has done to its directory.
FilesSound ==
  /\ pc \in {"remove config", "copy config", "undo remove config", "undo copy config"} =>
       todo \subseteq InConfig
  /\ pc \in {"remove data", "undo remove data"} =>
       \A f \in InData \ todo : live[f] = Gone[f]
  /\ pc \in {"copy data", "undo copy data"} =>
       /\ \A f \in InData \cap todo : live[f] = Gone[f]
       /\ \A f \in InData \ todo : live[f] = Source(pc)[f]
  /\ pc = "restored" => \A f \in InData : live[f] = incoming[f]
  /\ pc = "rolled back" => \A f \in InData : live[f] = before[f]

\* An import changes the key only under an empty history.
MergeSound ==
  pc \in Merging =>
    /\ before \in Tree /\ OneIdentity(before)
    /\ before.rows \subseteq live.rows
    /\ live.facts = before.facts /\ live.markers = before.markers
    /\ before.rows = {} \/ before.key = live.key
    /\ pc \in {"set key", "set fingerprint", "unset fingerprint", "unset key"} =>
         live.rows = before.rows
    /\ pc \in {"set key", "set fingerprint"} => live.rows = {}
    /\ pc \in {"set fingerprint", "set rows", "verify"} => live.key = incoming.key

\* An open handle of the Tk thread is over an existing file, and no handle is
\* open while files are replaced.
HandleSound ==
  /\ dbOpen => live.facts # None
  /\ pc \in {"stage", "restored", "rolled back", "failed", "off"} \cup Replacing => ~dbOpen

\* Where the prints are held that no older rollback folder holds.
Holder == IF pc \in {"restored"} \cup Replacing THEN saved
          ELSE IF pc \in Merging THEN before ELSE live

\* Every print that was made is held by the tree in charge or by a rollback
\* folder.
LossSound == \A p \in made : Holds(Holder, p) \/ \E t \in rollbacks : Holds(t, p)

\* The inductive invariant.
IInv ==
  /\ TypeOK /\ RowsUnderOneKey /\ IncomingSound /\ OutsideSound /\ ReplaceSound
  /\ FilesSound /\ MergeSound /\ HandleSound /\ LossSound

-----------------------------------------------------------------------------
(* Trees, field by field                                                   *)

\* The types of the fields of a tree.
LEMMA TreeFields ==
  ASSUME NEW t \in Tree
  PROVE  /\ t.fp \in Key \cup {None} /\ t.key \in Key \cup {None}
         /\ t.rows \subseteq Entry /\ t.markers \subseteq Job \cup {Create}
         /\ t.facts = None \/ t.facts \subseteq Job \cup {Remote}
  BY DEF Tree

\* A tree with one field replaced by a value of its type is a tree.
LEMMA TreeWith ==
  ASSUME NEW t \in Tree, NEW x
  PROVE  /\ x \in Key \cup {None} => [t EXCEPT !.fp = x] \in Tree
         /\ x \in Key \cup {None} => [t EXCEPT !.key = x] \in Tree
         /\ x \subseteq Entry => [t EXCEPT !.rows = x] \in Tree
         /\ x \subseteq Job \cup {Create} => [t EXCEPT !.markers = x] \in Tree
         /\ x = None \/ x \subseteq Job \cup {Remote} => [t EXCEPT !.facts = x] \in Tree
  BY DEF Tree

\* One field is set, the others stay.
LEMMA OnlyFp ==
  ASSUME NEW t \in Tree, NEW x, NEW s, s = [t EXCEPT !.fp = x]
  PROVE  /\ s.fp = x
         /\ s.key = t.key /\ s.rows = t.rows /\ s.markers = t.markers /\ s.facts = t.facts
  BY DEF Tree

\* Replacing the key leaves the other fields alone.
LEMMA OnlyKey ==
  ASSUME NEW t \in Tree, NEW x, NEW s, s = [t EXCEPT !.key = x]
  PROVE  /\ s.key = x
         /\ s.fp = t.fp /\ s.rows = t.rows /\ s.markers = t.markers /\ s.facts = t.facts
  BY DEF Tree

\* Replacing the rows leaves the other fields alone.
LEMMA OnlyRows ==
  ASSUME NEW t \in Tree, NEW x, NEW s, s = [t EXCEPT !.rows = x]
  PROVE  /\ s.rows = x
         /\ s.fp = t.fp /\ s.key = t.key /\ s.markers = t.markers /\ s.facts = t.facts
  BY DEF Tree

\* Replacing the markers leaves the other fields alone.
LEMMA OnlyMarkers ==
  ASSUME NEW t \in Tree, NEW x, NEW s, s = [t EXCEPT !.markers = x]
  PROVE  /\ s.markers = x
         /\ s.fp = t.fp /\ s.key = t.key /\ s.rows = t.rows /\ s.facts = t.facts
  BY DEF Tree

\* Replacing the archive leaves the other fields alone.
LEMMA OnlyFacts ==
  ASSUME NEW t \in Tree, NEW x, NEW s, s = [t EXCEPT !.facts = x]
  PROVE  /\ s.facts = x
         /\ s.fp = t.fp /\ s.key = t.key /\ s.rows = t.rows /\ s.markers = t.markers
  BY DEF Tree

\* One file copied from another tree makes a tree that differs in that file
\* alone.
LEMMA Replaced ==
  ASSUME NEW t \in Tree, NEW s \in Tree, NEW f \in File
  PROVE  LET r == [t EXCEPT ![f] = s[f]] IN
         r \in Tree /\ r[f] = s[f] /\ \A g \in File \ {f} : r[g] = t[g]
  BY DEF Tree, File

\* The removed directories, as a tree.
LEMMA GoneIsTree == Gone \in Tree
  BY DEF Gone, Tree

\* What a backup keeps of a tree is a tree.
LEMMA PortableIsTree == ASSUME NEW t \in Tree PROVE Portable(t) \in Tree
  BY TreeWith DEF Portable


\* The bound on preference saves is a number.
LEMMA SavesBound == MaxSaves \in Nat
  BY DataRootAssumption

\* What a restore copies from is a tree.
LEMMA SourceIsTree ==
  ASSUME IInv, pc \in Replacing
  PROVE  Source(pc) \in Tree
  BY GoneIsTree DEF Source, IInv, IncomingSound, ReplaceSound, Replacing, Removing,
     Copying, Undoing

\* Each action keeps the type of the tree in use.
LEMMA LiveStep ==
  ASSUME IInv, Next
  PROVE  live' \in Tree
<1>1. CASE Start
  BY <1>1, TreeFields, TreeWith DEF Start, Stored, IInv, TypeOK
<1>2. CASE Identify
  <2>1. live \in Tree
    BY DEF IInv, TypeOK
  <2>2. [live EXCEPT !.fp = live.key] \in Tree
    BY <2>1, TreeFields, TreeWith
  <2>3. \A k \in Key : [live EXCEPT !.key = k] \in Tree
    BY <2>1, TreeWith
  <2>4. QED
    BY <1>2, <2>1, <2>2, <2>3 DEF Identify
<1>3. CASE StoreFingerprint
  BY <1>3, TreeFields, TreeWith DEF StoreFingerprint, IInv, TypeOK
<1>4. ASSUME NEW p \in Job, PrintOne(p)
      PROVE  live' \in Tree
  <2>1. live.key \in Key /\ live.facts \in SUBSET (Job \cup {Remote})
    BY <1>4, TreeFields DEF PrintOne, Ready, Work, IInv, TypeOK, HandleSound
  <2>2. live \in Tree
    BY DEF IInv, TypeOK
  <2>3. live.rows \cup {<<p, live.key>>} \subseteq Entry
    BY <2>1, <2>2, TreeFields DEF Entry
  <2>4. /\ Entered(live, p) \in Tree
        /\ Entered(live, p).facts = live.facts /\ Entered(live, p).markers = live.markers
    <3>1. Entered(live, p) = [live EXCEPT !.rows = live.rows \cup {<<p, live.key>>}]
      BY DEF Entered
    <3>2. Entered(live, p) \in Tree
      BY <2>2, <2>3, <3>1, TreeWith
    <3>3. QED
      BY <2>2, <3>1, <3>2, OnlyRows
  <2>5. live.facts \cup {p} \subseteq Job \cup {Remote} /\ live.markers \subseteq Job \cup {Create}
    BY <2>1, <2>2, TreeFields
  <2>6. [live EXCEPT !.markers = @ \cup {p}] \in Tree
    BY <2>2, <2>5, TreeWith
  <2>7. [Entered(live, p) EXCEPT !.markers = @ \cup {p}] \in Tree
    BY <2>4, <2>5, TreeWith
  <2>8. [Entered(live, p) EXCEPT !.facts = @ \cup {p}] \in Tree
    BY <2>4, <2>5, TreeWith
  <2>9. QED
    BY <1>4, <2>2, <2>4, <2>6, <2>7, <2>8 DEF PrintOne, Work
<1>5. ASSUME NEW p \in Job, RecoverPrint(p)
      PROVE  live' \in Tree
  <2>1. live.key \in Key /\ live.facts \in SUBSET (Job \cup {Remote})
    BY <1>5, TreeFields DEF RecoverPrint, Ready, Work, IInv, TypeOK, HandleSound
  <2>2. live \in Tree
    BY DEF IInv, TypeOK
  <2>3. live.rows \cup {<<p, live.key>>} \subseteq Entry
    BY <2>1, <2>2, TreeFields DEF Entry
  <2>4. /\ Entered(live, p) \in Tree
        /\ Entered(live, p).facts = live.facts /\ Entered(live, p).markers = live.markers
    <3>1. Entered(live, p) = [live EXCEPT !.rows = live.rows \cup {<<p, live.key>>}]
      BY DEF Entered
    <3>2. Entered(live, p) \in Tree
      BY <2>2, <2>3, <3>1, TreeWith
    <3>3. QED
      BY <2>2, <3>1, <3>2, OnlyRows
  <2>5. live.facts \cup {p} \subseteq Job \cup {Remote} /\ live.markers \subseteq Job \cup {Create}
    BY <2>1, <2>2, TreeFields
  <2>6. PICK t \in Tree : t = [Entered(live, p) EXCEPT !.facts = @ \cup {p}]
    BY <2>4, <2>5, TreeWith
  <2>7. t.markers = live.markers
    BY <2>4, <2>6, OnlyFacts
  <2>8. [t EXCEPT !.markers = @ \ {p}] \in Tree
    BY <2>5, <2>6, <2>7, TreeWith
  <2>9. QED
    BY <1>5, <2>2, <2>4, <2>6, <2>8 DEF RecoverPrint, Work
<1>6. ASSUME NEW p \in Job, DiscardPrint(p)
      PROVE  live' \in Tree
  BY <1>6, TreeFields, TreeWith DEF DiscardPrint, Work, IInv, TypeOK
<1>7. CASE LeaveUnsettled
  <2>1. live.facts \in SUBSET (Job \cup {Remote})
    BY <1>7, TreeFields DEF LeaveUnsettled, Work, IInv, TypeOK, HandleSound
  <2>2. QED
    BY <1>7, <2>1, TreeFields, TreeWith DEF LeaveUnsettled, Work, IInv, TypeOK
<1>8. CASE Settle
  <2>1. live.facts \in SUBSET (Job \cup {Remote})
    BY <1>8, TreeFields DEF Settle, Work, IInv, TypeOK, HandleSound
  <2>2. QED
    BY <1>8, <2>1, TreeFields, TreeWith DEF Settle, Work, IInv, TypeOK
<1>9. CASE LoseSettings
  BY <1>9, TreeFields, TreeWith DEF LoseSettings, IInv, TypeOK
<1>10. CASE AdoptPresentSecret
  BY <1>10, TreeFields, TreeWith DEF AdoptPresentSecret, Work, IInv, TypeOK
<1>11. CASE LoadPreferences
  BY <1>11 DEF LoadPreferences, IInv, TypeOK
<1>12. CASE StorePreferences
  BY <1>12, TreeFields, TreeWith DEF StorePreferences, IInv, TypeOK
<1>13. CASE CreateBackup
  BY <1>13 DEF CreateBackup, IInv, TypeOK
<1>14. CASE WriteBackup
  BY <1>14 DEF WriteBackup, IInv, TypeOK
<1>15. CASE FinishBackup
  BY <1>15 DEF FinishBackup, IInv, TypeOK
<1>16. CASE ChooseBackup
  BY <1>16 DEF ChooseBackup, IInv, TypeOK
<1>17. CASE AnswerNo
  BY <1>17 DEF AnswerNo, IInv, TypeOK
<1>18. CASE ConfirmRestore
  BY <1>18 DEF ConfirmRestore, IInv, TypeOK
<1>19. CASE MigrateToShared
  BY <1>19 DEF MigrateToShared, IInv, TypeOK
<1>20. CASE Stage
  BY <1>20 DEF Stage, IInv, TypeOK
<1>21. CASE StageFails
  BY <1>21 DEF StageFails, IInv, TypeOK
<1>22. CASE ReplaceFile
  <2>1. Source(pc) \in Tree
    BY <1>22, SourceIsTree DEF ReplaceFile
  <2>2. PICK f \in todo : live' = [live EXCEPT ![f] = Source(pc)[f]]
    BY <1>22 DEF ReplaceFile
  <2>3. QED
    BY <2>1, <2>2, Replaced DEF IInv, TypeOK
<1>23. CASE NextPhase
  BY <1>23 DEF NextPhase, IInv, TypeOK
<1>24. CASE ReplaceFails
  BY <1>24 DEF ReplaceFails, IInv, TypeOK
<1>25. CASE UndoFails
  BY <1>25 DEF UndoFails, IInv, TypeOK
<1>26. CASE Reopen
  <2>1. live \in Tree
    BY DEF IInv, TypeOK
  <2>2. [live EXCEPT !.facts = Stored(live)] \in Tree
    BY <2>1, TreeFields, TreeWith DEF Stored
  <2>3. QED
    BY <1>26, <2>1, <2>2 DEF Reopen
<1>27. CASE Stop
  BY <1>27 DEF Stop, IInv, TypeOK
<1>28. CASE PrepareImport
  BY <1>28 DEF PrepareImport, IInv, TypeOK
<1>29. CASE ApplyImport
  BY <1>29 DEF ApplyImport, IInv, TypeOK
<1>30. CASE MergeStep
  <2>1. incoming.key \in Key \cup {None} /\ incoming.rows \subseteq Entry /\ before \in Tree
    BY <1>30 DEF MergeStep, SetKey, SetFingerprint, SetRows, VerifyImport, ImportFails,
       UnsetRows, UnsetFingerprint, UnsetKey, UnmergeFails, Merging, IInv, IncomingSound,
       MergeSound, Bundle
  <2>2. QED
    BY <1>30, <2>1, TreeFields, TreeWith DEF MergeStep, SetKey, SetFingerprint, SetRows,
       VerifyImport, ImportFails, UnsetRows, UnsetFingerprint, UnsetKey, UnmergeFails,
       IInv, TypeOK
<1>31. CASE EndImport
  BY <1>31 DEF EndImport, IInv, TypeOK
<1>32. QED
  BY <1>1, <1>2, <1>3, <1>4, <1>5, <1>6, <1>7, <1>8, <1>9, <1>10, <1>11, <1>12, <1>13,
     <1>14, <1>15, <1>16, <1>17, <1>18, <1>19, <1>20, <1>21, <1>22, <1>23, <1>24, <1>25,
     <1>26, <1>27, <1>28, <1>29, <1>30, <1>31 DEF Next

\* Each action keeps every type.
LEMMA TypeStep ==
  ASSUME IInv, Next
  PROVE  TypeOK'
<1>0. live' \in Tree
  BY LiveStep
<1>1. CASE Start
  BY <1>1, <1>0 DEF Start, IInv, TypeOK, Step, Worker, Modal, Replacing, Removing, Copying,
     Undoing, Merging, InData, InConfig, File, outside, copies, task, save
<1>2. CASE Identify
  BY <1>2, <1>0 DEF Identify, IInv, TypeOK, Step, Worker, Modal, Replacing, Removing,
     Copying, Undoing, Merging, InData, InConfig, File, outside, copies, task, save
<1>3. CASE StoreFingerprint
  BY <1>3, <1>0 DEF StoreFingerprint, IInv, TypeOK, Step, Worker, Modal, Replacing,
     Removing, Copying, Undoing, Merging, InData, InConfig, File, outside, copies, task,
     save
<1>4. ASSUME NEW p \in Job, PrintOne(p)
      PROVE  TypeOK'
  BY <1>4, <1>0 DEF PrintOne, Work, IInv, TypeOK, Step, Worker, Modal, Replacing, Removing,
     Copying, Undoing, Merging, InData, InConfig, File, outside, copies, task, save
<1>5. ASSUME NEW p \in Job, RecoverPrint(p)
      PROVE  TypeOK'
  BY <1>5, <1>0 DEF RecoverPrint, Work, IInv, TypeOK, Step, Worker, Modal, Replacing,
     Removing, Copying, Undoing, Merging, InData, InConfig, File, outside, copies, task,
     save
<1>6. ASSUME NEW p \in Job, DiscardPrint(p)
      PROVE  TypeOK'
  BY <1>6, <1>0 DEF DiscardPrint, Work, IInv, TypeOK, Step, Worker, Modal, Replacing,
     Removing, Copying, Undoing, Merging, InData, InConfig, File, outside, copies, task,
     save
<1>7. CASE LeaveUnsettled
  BY <1>7, <1>0 DEF LeaveUnsettled, Work, IInv, TypeOK, Step, Worker, Modal, Replacing,
     Removing, Copying, Undoing, Merging, InData, InConfig, File, outside, copies, task,
     save
<1>8. CASE Settle
  BY <1>8, <1>0 DEF Settle, Work, IInv, TypeOK, Step, Worker, Modal, Replacing, Removing,
     Copying, Undoing, Merging, InData, InConfig, File, outside, copies, task, save
<1>9. CASE LoseSettings
  BY <1>9, <1>0 DEF LoseSettings, IInv, TypeOK, Step, Worker, Modal, Replacing, Removing,
     Copying, Undoing, Merging, InData, InConfig, File, outside, copies, task, save
<1>10. CASE AdoptPresentSecret
  BY <1>10, <1>0 DEF AdoptPresentSecret, Work, IInv, TypeOK, Step, Worker, Modal,
     Replacing, Removing, Copying, Undoing, Merging, InData, InConfig, File, outside,
     copies, task, save
<1>11. CASE LoadPreferences
  <2>1. saves' \in 0..MaxSaves
    BY <1>11, SavesBound DEF LoadPreferences, IInv, TypeOK
  <2>2. prefs' \in [fp : Key \cup {None}]
    BY <1>11, TreeFields DEF LoadPreferences, IInv, TypeOK
  <2>3. QED
    BY <1>11, <2>1, <2>2 DEF LoadPreferences, IInv, TypeOK, outside, copies, task
<1>12. CASE StorePreferences
  <2>1. prefs' = None /\ UNCHANGED <<outside, copies, task, dbOpen, saves, made>>
    BY <1>12 DEF StorePreferences
  <2>2. QED
    BY <1>0, <2>1 DEF IInv, TypeOK, outside, copies, task
<1>13. CASE CreateBackup
  BY <1>13 DEF CreateBackup, IInv, TypeOK, Step, Worker, Modal, Replacing, Removing,
     Copying, Undoing, Merging, InData, InConfig, File, outside, copies, task, save
<1>14. CASE WriteBackup
  BY <1>14, PortableIsTree DEF WriteBackup, IInv, TypeOK, Step, Worker, Modal, Replacing,
     Removing, Copying, Undoing, Merging, InData, InConfig, File, outside, copies, task,
     save
<1>15. CASE FinishBackup
  BY <1>15 DEF FinishBackup, Validated, IInv, TypeOK, Step, Worker, Modal, Replacing,
     Removing, Copying, Undoing, Merging, InData, InConfig, File, outside, copies, task,
     save
<1>16. CASE ChooseBackup
  BY <1>16, DataRootAssumption DEF ChooseBackup, Backups, IInv, TypeOK, Step, Worker,
     Modal, Replacing, Removing, Copying, Undoing, Merging, InData, InConfig, File,
     outside, copies, task, save
<1>17. CASE AnswerNo
  BY <1>17 DEF AnswerNo, IInv, TypeOK, Step, Worker, Modal, Replacing, Removing, Copying,
     Undoing, Merging, InData, InConfig, File, outside, copies, task, save
<1>18. CASE ConfirmRestore
  BY <1>18 DEF ConfirmRestore, IInv, TypeOK, Step, Worker, Modal, Replacing, Removing,
     Copying, Undoing, Merging, InData, InConfig, File, outside, copies, task, save
<1>19. CASE MigrateToShared
  BY <1>19, PortableIsTree, DataRootAssumption DEF MigrateToShared, IInv, TypeOK, Step,
     Worker, Modal, Replacing, Removing, Copying, Undoing, Merging, InData, InConfig, File,
     outside, copies, task, save
<1>20. CASE Stage
  BY <1>20 DEF Stage, Rollback, IInv, TypeOK, Step, Worker, Modal, Replacing, Removing,
     Copying, Undoing, Merging, InData, InConfig, File, outside, copies, task, save
<1>21. CASE StageFails
  BY <1>21 DEF StageFails, IInv, TypeOK, Step, Worker, Modal, Replacing, Removing, Copying,
     Undoing, Merging, InData, InConfig, File, outside, copies, task, save
<1>22. CASE ReplaceFile
  <2>1. todo' \subseteq todo /\ UNCHANGED <<outside, copies, before, incoming, pc, dbOpen, save, made>>
    BY <1>22 DEF ReplaceFile
  <2>2. QED
    BY <1>0, <2>1 DEF IInv, TypeOK, outside, copies, save
<1>23. CASE NextPhase
  BY <1>23 DEF NextPhase, After, Replacing, Removing, Copying, Undoing, IInv, TypeOK, Step,
     Worker, Modal, Merging, InData, InConfig, File, outside, copies, task, save
<1>24. CASE ReplaceFails
  BY <1>24 DEF ReplaceFails, Removing, Copying, IInv, TypeOK, Step, Worker, Modal,
     Replacing, Undoing, Merging, InData, InConfig, File, outside, copies, task, save
<1>25. CASE UndoFails
  BY <1>25 DEF UndoFails, ReplaceSound, IInv, TypeOK, Step, Worker, Modal, Replacing,
     Removing, Copying, Undoing, Merging, InData, InConfig, File, outside, copies, task,
     save
<1>26. CASE Reopen
  BY <1>26, <1>0 DEF Reopen, IInv, TypeOK, Step, Worker, Modal, Replacing, Removing,
     Copying, Undoing, Merging, InData, InConfig, File, outside, copies, task, save
<1>27. CASE Stop
  BY <1>27 DEF Stop, IInv, TypeOK, Step, Worker, Modal, Replacing, Removing, Copying,
     Undoing, Merging, InData, InConfig, File, outside, copies, task, save
<1>28. CASE PrepareImport
  BY <1>28, DataRootAssumption DEF PrepareImport, IInv, TypeOK, Step, Worker, Modal,
     Replacing, Removing, Copying, Undoing, Merging, InData, InConfig, File, outside,
     copies, task, save
<1>29. CASE ApplyImport
  BY <1>29 DEF ApplyImport, IInv, TypeOK, Step, Worker, Modal, Replacing, Removing,
     Copying, Undoing, Merging, InData, InConfig, File, outside, copies, task, save
<1>30. CASE MergeStep
  <2>1. pc' \in Merging \cup Modal
    BY <1>30 DEF Merging, Modal, MergeStep, SetKey, SetFingerprint, SetRows, VerifyImport,
       ImportFails, UnsetRows, UnsetFingerprint, UnsetKey, UnmergeFails
  <2>2. UNCHANGED <<outside, copies, before, incoming, todo, dbOpen, save, made>>
    BY <1>30 DEF MergeStep
  <2>3. QED
    BY <1>0, <2>1, <2>2 DEF IInv, TypeOK, Step, Worker, outside, copies, save
<1>31. CASE EndImport
  BY <1>31 DEF EndImport, IInv, TypeOK, Step, Worker, Modal, Replacing, Removing, Copying,
     Undoing, Merging, InData, InConfig, File, outside, copies, task, save
<1>32. QED
  BY <1>1, <1>2, <1>3, <1>4, <1>5, <1>6, <1>7, <1>8, <1>9, <1>10, <1>11, <1>12, <1>13,
     <1>14, <1>15, <1>16, <1>17, <1>18, <1>19, <1>20, <1>21, <1>22, <1>23, <1>24, <1>25,
     <1>26, <1>27, <1>28, <1>29, <1>30, <1>31 DEF Next


-----------------------------------------------------------------------------
(* What the steps that touch the tree do to it                             *)

\* The tree in use is a tree.
LEMMA LiveIsTree == ASSUME IInv PROVE live \in Tree
  BY DEF IInv, TypeOK

\* A database that was opened is a set of facts.
LEMMA StoredIsSet ==
  ASSUME NEW t \in Tree
  PROVE  Stored(t) \subseteq Job \cup {Remote} /\ Stored(t) # None
  BY TreeFields, DataRootAssumption DEF Stored

\* A set of facts is not a missing database.
LEMMA SomeFacts ==
  ASSUME NEW S \in SUBSET (Job \cup {Remote})
  PROVE  S # None
  BY DataRootAssumption

\* A step that leaves the key and the rows alone.
SameRows == live'.key = live.key /\ live'.rows = live.rows

\* A step that leaves key, rows, markers and archive alone.
SameData == SameRows /\ live'.markers = live.markers /\ live'.facts = live.facts

\* A row whose print is still in a marker or in the archive holds that print.
LEMMA RowHeld ==
  ASSUME NEW t, NEW p, NEW k \in Key, <<p, k>> \in t.rows,
         p \in t.markers \/ (t.facts # None /\ p \in t.facts)
  PROVE  Holds(t, p)
  BY DEF Holds, Stored

\* What the start of the program changes: the archive is opened or created.
LEMMA StartEffect ==
  ASSUME IInv, Start
  PROVE  /\ SameRows /\ live'.markers = live.markers /\ live'.facts = Stored(live)
         /\ pc = "off" /\ pc' = "identity" /\ dbOpen'
         /\ backup' = backup /\ temp' = temp /\ rollbacks' = rollbacks /\ saved' = saved
         /\ before' = before /\ incoming' = incoming /\ todo' = todo /\ prefs' = prefs
         /\ saves' = saves /\ made' = made
<1>1. live' = [live EXCEPT !.facts = Stored(live)]
  BY DEF Start
<1>2. QED
  BY <1>1, LiveIsTree, OnlyFacts DEF Start, SameRows, outside, copies, save

\* What the identity step changes: a key is replaced only where there are no
\* rows.
LEMMA IdentifyEffect ==
  ASSUME IInv, Identify
  PROVE  /\ live'.rows = live.rows /\ live'.markers = live.markers /\ live'.facts = live.facts
         /\ live'.key = live.key \/ live.rows = {}
         /\ pc \in {"identity", "idle"} /\ pc' \in {"fingerprint", "idle"}
         /\ backup' = backup /\ temp' = temp /\ rollbacks' = rollbacks /\ saved' = saved
         /\ before' = before /\ incoming' = incoming /\ todo' = todo /\ dbOpen' = dbOpen
         /\ prefs' = prefs /\ saves' = saves /\ made' = made
<1>1. /\ pc \in {"identity", "idle"} /\ pc' \in {"fingerprint", "idle"}
      /\ backup' = backup /\ temp' = temp /\ rollbacks' = rollbacks /\ saved' = saved
      /\ before' = before /\ incoming' = incoming /\ todo' = todo /\ dbOpen' = dbOpen
      /\ prefs' = prefs /\ saves' = saves /\ made' = made
  BY DEF Identify, outside, copies, save
<1>2. CASE live' = live
  BY <1>1, <1>2
<1>3. CASE live' = [live EXCEPT !.fp = live.key]
  BY <1>1, <1>3, LiveIsTree, OnlyFp
<1>4. ASSUME NEW k \in Key, live' = [live EXCEPT !.key = k], live.rows = {}
      PROVE  live'.rows = live.rows /\ live'.markers = live.markers /\ live'.facts = live.facts
  BY <1>4, LiveIsTree, OnlyKey
<1>5. QED
  BY <1>1, <1>2, <1>3, <1>4 DEF Identify, MayRotate, outside, copies, save

\* Steps that change nothing but the fingerprint.
LEMMA FingerprintEffect ==
  ASSUME IInv, StoreFingerprint \/ LoseSettings \/ AdoptPresentSecret \/ StorePreferences
  PROVE  /\ SameData
         /\ pc' = pc \/ (pc = "fingerprint" /\ pc' = "idle")
         /\ backup' = backup /\ temp' = temp /\ rollbacks' = rollbacks /\ saved' = saved
         /\ before' = before /\ incoming' = incoming /\ todo' = todo /\ dbOpen' = dbOpen
         /\ made' = made
<1>1. \E x : live' = [live EXCEPT !.fp = x]
  BY DEF StoreFingerprint, LoseSettings, AdoptPresentSecret, StorePreferences, Work
<1>2. SameData
  BY <1>1, LiveIsTree, OnlyFp DEF SameData, SameRows
<1>3. QED
  BY <1>2 DEF StoreFingerprint, LoseSettings, AdoptPresentSecret, StorePreferences, Work,
              outside, copies, task, save

\* A print in one transition adds its row, its marker or its fact.
LEMMA PrintEffect ==
  ASSUME IInv, NEW p \in Job, PrintOne(p) \/ RecoverPrint(p)
  PROVE  /\ live.key \in Key /\ live'.key = live.key
         /\ live.facts # None /\ live'.facts # None /\ live.facts \subseteq live'.facts
         /\ RecoverPrint(p) \/ live.markers \subseteq live'.markers
         /\ live'.rows = live.rows \/ live'.rows = live.rows \cup {<<p, live.key>>}
         /\ \A q \in Job \ {p} : /\ q \in live'.markers <=> q \in live.markers
                                 /\ q \in live'.facts <=> q \in live.facts
         /\ \/ made' = made /\ live'.rows = live.rows /\ live'.facts = live.facts
               /\ live.markers \subseteq live'.markers
            \/ made' = made \cup {p} /\ Holds(live', p)
         /\ pc = "idle" /\ dbOpen /\ backup' = backup /\ temp' = temp /\ rollbacks' = rollbacks /\ saved' = saved
         /\ before' = before /\ incoming' = incoming /\ pc' = pc /\ todo' = todo
         /\ dbOpen' = dbOpen /\ prefs' = prefs /\ saves' = saves
<1>1. /\ live \in Tree /\ pc = "idle" /\ dbOpen
      /\ backup' = backup /\ temp' = temp /\ rollbacks' = rollbacks /\ saved' = saved
      /\ before' = before /\ incoming' = incoming /\ pc' = pc /\ todo' = todo
      /\ dbOpen' = dbOpen /\ prefs' = prefs /\ saves' = saves
  BY LiveIsTree DEF PrintOne, RecoverPrint, Work, outside, copies, task, save
<1>2. live.key \in Key /\ live.facts \in SUBSET (Job \cup {Remote})
  BY <1>1, TreeFields DEF PrintOne, RecoverPrint, Ready, IInv, HandleSound
<1>3. DEFINE e == Entered(live, p)
<1>4. /\ e \in Tree
      /\ e.key = live.key /\ e.rows = live.rows \cup {<<p, live.key>>}
      /\ e.markers = live.markers /\ e.facts = live.facts
  <2>1. live.rows \cup {<<p, live.key>>} \subseteq Entry
    BY <1>1, <1>2, TreeFields DEF Entry
  <2>2. e = [live EXCEPT !.rows = live.rows \cup {<<p, live.key>>}]
    BY DEF Entered
  <2>3. e \in Tree
    BY <1>1, <2>1, <2>2, TreeWith
  <2>4. QED
    BY <1>1, <2>2, <2>3, OnlyRows
<1>5. live.facts \cup {p} \in SUBSET (Job \cup {Remote})
  BY <1>2
<1>6. live.facts # None /\ live.facts \cup {p} # None
  BY <1>2, <1>5, SomeFacts
<1>7. DEFINE n == [e EXCEPT !.facts = @ \cup {p}]
<1>8. /\ n \in Tree
      /\ n.key = live.key /\ n.rows = e.rows /\ n.markers = live.markers
      /\ n.facts = live.facts \cup {p}
  <2>1. n = [e EXCEPT !.facts = live.facts \cup {p}]
    BY <1>4
  <2>2. n \in Tree
    BY <1>4, <1>5, <2>1, TreeWith
  <2>3. /\ n.facts = live.facts \cup {p}
        /\ n.key = e.key /\ n.rows = e.rows /\ n.markers = e.markers
    BY <1>4, <2>1, OnlyFacts
  <2>4. QED
    BY <1>4, <2>2, <2>3
<1>9. CASE PrintOne(p)
  <2>1. CASE live' = [live EXCEPT !.markers = @ \cup {p}] /\ made' = made
    <3>1. /\ live'.key = live.key /\ live'.rows = live.rows /\ live'.facts = live.facts
          /\ live'.markers = live.markers \cup {p}
      BY <1>1, <2>1, OnlyMarkers
    <3>2. QED
      BY <1>1, <1>2, <1>6, <2>1, <3>1
  <2>2. CASE live' = [e EXCEPT !.markers = @ \cup {p}] /\ made' = made \cup {p}
    <3>1. /\ live'.key = live.key /\ live'.rows = e.rows /\ live'.facts = live.facts
          /\ live'.markers = live.markers \cup {p}
      BY <1>4, <2>2, OnlyMarkers
    <3>2. Holds(live', p)
      BY <1>2, <1>4, <3>1, RowHeld
    <3>3. QED
      BY <1>1, <1>2, <1>4, <1>6, <2>2, <3>1, <3>2
  <2>3. CASE live' = n /\ made' = made \cup {p}
    <3>1. Holds(live', p)
      BY <1>2, <1>4, <1>6, <1>8, <2>3, RowHeld
    <3>2. QED
      BY <1>1, <1>2, <1>4, <1>6, <1>8, <2>3, <3>1
  <2>4. QED
    BY <1>9, <2>1, <2>2, <2>3 DEF PrintOne, Work
<1>10. CASE RecoverPrint(p)
  <2>1. live' = [n EXCEPT !.markers = @ \ {p}] /\ made' = made \cup {p}
    BY <1>10 DEF RecoverPrint, Work
  <2>2. /\ live'.key = live.key /\ live'.rows = e.rows /\ live'.facts = live.facts \cup {p}
        /\ live'.markers = live.markers \ {p}
    BY <1>8, <2>1, OnlyMarkers
  <2>3. Holds(live', p)
    BY <1>2, <1>4, <1>6, <2>2, RowHeld
  <2>4. QED
    BY <1>1, <1>2, <1>4, <1>6, <1>10, <2>1, <2>2, <2>3
<1>11. QED
  BY <1>9, <1>10

\* What dropping a prepared job changes: its marker, and it has no row.
LEMMA DiscardEffect ==
  ASSUME IInv, NEW p \in Job, DiscardPrint(p)
  PROVE  /\ SameRows /\ live'.facts = live.facts /\ live'.markers = live.markers \ {p}
         /\ live.rows \cap ({p} \X Key) = {}
         /\ pc = "idle" /\ backup' = backup /\ temp' = temp /\ rollbacks' = rollbacks /\ saved' = saved
         /\ before' = before /\ incoming' = incoming /\ pc' = pc /\ todo' = todo
         /\ dbOpen' = dbOpen /\ prefs' = prefs /\ saves' = saves /\ made' = made
<1>1. live' = [live EXCEPT !.markers = @ \ {p}]
  BY DEF DiscardPrint, Work
<1>2. QED
  BY <1>1, LiveIsTree, OnlyMarkers DEF DiscardPrint, Work, SameRows, outside, copies, task,
     save

\* Creations and requests are no prints.
LEMMA UnsettledEffect ==
  ASSUME IInv, LeaveUnsettled \/ Settle
  PROVE  /\ SameRows /\ live.facts # None /\ live'.facts # None
         /\ \A q \in Job : /\ q \in live'.markers <=> q \in live.markers
                           /\ q \in live'.facts <=> q \in live.facts
         /\ pc = "idle" /\ backup' = backup /\ temp' = temp /\ rollbacks' = rollbacks /\ saved' = saved
         /\ before' = before /\ incoming' = incoming /\ pc' = pc /\ todo' = todo
         /\ dbOpen' = dbOpen /\ prefs' = prefs /\ saves' = saves /\ made' = made
<1>1. pc = "idle" /\ dbOpen /\ backup' = backup /\ temp' = temp /\ rollbacks' = rollbacks /\ saved' = saved
      /\ before' = before /\ incoming' = incoming /\ pc' = pc /\ todo' = todo
      /\ dbOpen' = dbOpen /\ prefs' = prefs /\ saves' = saves /\ made' = made
  BY DEF LeaveUnsettled, Settle, Work, outside, copies, task, save
<1>2. live \in Tree /\ live.facts \in SUBSET (Job \cup {Remote}) /\ live.facts # None
  BY <1>1, LiveIsTree, TreeFields DEF IInv, HandleSound
<1>3. Create \notin Job /\ Remote \notin Job
  BY DataRootAssumption
<1>4. ASSUME NEW x, live' = [live EXCEPT !.markers = x], x \ {Create} = live.markers \ {Create}
      PROVE  /\ SameRows /\ live'.facts = live.facts
             /\ \A q \in Job : q \in live'.markers <=> q \in live.markers
  BY <1>2, <1>3, <1>4, OnlyMarkers DEF SameRows
<1>5. ASSUME NEW x \in SUBSET (Job \cup {Remote}), live' = [live EXCEPT !.facts = x],
             x \ {Remote} = live.facts \ {Remote}
      PROVE  /\ SameRows /\ live'.markers = live.markers /\ live'.facts # None
             /\ \A q \in Job : q \in live'.facts <=> q \in live.facts
  BY <1>2, <1>3, <1>5, OnlyFacts, SomeFacts DEF SameRows
<1>6. \/ \E x : live' = [live EXCEPT !.markers = x] /\ x \ {Create} = live.markers \ {Create}
      \/ \E x \in SUBSET (Job \cup {Remote}) :
            live' = [live EXCEPT !.facts = x] /\ x \ {Remote} = live.facts \ {Remote}
  <2>1. CASE live' = [live EXCEPT !.markers = @ \cup {Create}]
    <3>1. (live.markers \cup {Create}) \ {Create} = live.markers \ {Create}
      OBVIOUS
    <3>2. QED
      BY <2>1, <3>1
  <2>2. CASE live' = [live EXCEPT !.markers = @ \ {Create}]
    <3>1. (live.markers \ {Create}) \ {Create} = live.markers \ {Create}
      OBVIOUS
    <3>2. QED
      BY <2>2, <3>1
  <2>3. CASE live' = [live EXCEPT !.facts = @ \cup {Remote}]
    <3>1. /\ (live.facts \cup {Remote}) \ {Remote} = live.facts \ {Remote}
          /\ live.facts \cup {Remote} \in SUBSET (Job \cup {Remote})
      BY <1>2
    <3>2. QED
      BY <2>3, <3>1
  <2>4. CASE live' = [live EXCEPT !.facts = @ \ {Remote}]
    <3>1. /\ (live.facts \ {Remote}) \ {Remote} = live.facts \ {Remote}
          /\ live.facts \ {Remote} \in SUBSET (Job \cup {Remote})
      BY <1>2
    <3>2. QED
      BY <2>4, <3>1
  <2>5. QED
    BY <2>1, <2>2, <2>3, <2>4 DEF LeaveUnsettled, Settle, Work
<1>7. QED
  BY <1>1, <1>2, <1>4, <1>5, <1>6

\* What the replacement of one file changes: that file, taken from the
\* source.
LEMMA ReplaceEffect ==
  ASSUME IInv, ReplaceFile
  PROVE  /\ pc \in Replacing
         /\ backup' = backup /\ temp' = temp /\ rollbacks' = rollbacks /\ saved' = saved
         /\ before' = before /\ incoming' = incoming /\ pc' = pc /\ dbOpen' = dbOpen
         /\ prefs' = prefs /\ saves' = saves /\ made' = made
         /\ \E f \in todo :
              /\ todo' = todo \ {f} /\ live'[f] = Source(pc)[f]
              /\ \A g \in File \ {f} : live'[g] = live[g]
<1>1. PICK f \in todo : live' = [live EXCEPT ![f] = Source(pc)[f]] /\ todo' = todo \ {f}
  BY DEF ReplaceFile
<1>2. live \in Tree /\ f \in File
  BY DEF IInv, TypeOK
<1>3. Source(pc) \in Tree
  BY SourceIsTree DEF ReplaceFile
<1>4. live'[f] = Source(pc)[f] /\ \A g \in File \ {f} : live'[g] = live[g]
  BY <1>1, <1>2, <1>3, Replaced
<1>5. QED
  BY <1>1, <1>4 DEF ReplaceFile, outside, copies, save

\* What reopening the archive changes: a missing one is created empty.
LEMMA ReopenEffect ==
  ASSUME IInv, Reopen
  PROVE  /\ SameRows /\ live'.markers = live.markers
         /\ \/ dbOpen' /\ live'.facts = Stored(live)
            \/ dbOpen' = dbOpen /\ live'.facts = live.facts
         /\ pc \in {"rolled back", "failed"} /\ pc' = "idle"
         /\ backup' = backup /\ temp' = temp /\ rollbacks' = rollbacks /\ saved' = saved
         /\ todo' = todo /\ prefs' = prefs /\ saves' = saves /\ made' = made
<1>1. CASE live' = [live EXCEPT !.facts = Stored(live)] /\ dbOpen'
  <2>1. SameRows /\ live'.markers = live.markers /\ live'.facts = Stored(live)
    BY <1>1, LiveIsTree, OnlyFacts DEF SameRows
  <2>2. QED
    BY <1>1, <2>1 DEF Reopen, outside, copies, save
<1>2. CASE UNCHANGED <<live, dbOpen>>
  BY <1>2 DEF Reopen, SameRows, outside, copies, save
<1>3. QED
  BY <1>1, <1>2 DEF Reopen

\* An import touches key, fingerprint and rows.
LEMMA MergeEffect ==
  ASSUME IInv, MergeStep
  PROVE  /\ live'.facts = live.facts /\ live'.markers = live.markers
         /\ \/ pc = "set key" /\ pc' = "set fingerprint"
               /\ live'.key = incoming.key /\ live'.rows = live.rows
            \/ pc = "set fingerprint" /\ pc' = "set rows" /\ SameRows
            \/ pc = "set rows" /\ pc' = "verify"
               /\ live'.rows = live.rows \cup incoming.rows /\ live'.key = live.key
            \/ pc = "verify" /\ pc' = "merged" /\ SameRows
            \/ pc \in Merging /\ pc' = "unset rows" /\ SameRows
            \/ pc = "unset rows" /\ pc' = "unset fingerprint"
               /\ live'.rows = before.rows /\ live'.key = live.key
            \/ pc = "unset fingerprint" /\ pc' = "unset key" /\ SameRows
            \/ pc = "unset key" /\ pc' = "unmerged"
               /\ live'.key = before.key /\ live'.rows = live.rows
            \/ pc \in Merging /\ pc' = "unmerged" /\ SameRows
         /\ backup' = backup /\ temp' = temp /\ rollbacks' = rollbacks /\ saved' = saved
         /\ before' = before /\ incoming' = incoming /\ todo' = todo /\ dbOpen' = dbOpen
         /\ prefs' = prefs /\ saves' = saves /\ made' = made
<1>1. backup' = backup /\ temp' = temp /\ rollbacks' = rollbacks /\ saved' = saved
      /\ before' = before /\ incoming' = incoming /\ todo' = todo /\ dbOpen' = dbOpen
      /\ prefs' = prefs /\ saves' = saves /\ made' = made /\ live \in Tree
  BY LiveIsTree DEF MergeStep, outside, copies, save
<1>2. CASE SetKey
  <2>1. live' = [live EXCEPT !.key = incoming.key]
    BY <1>2 DEF SetKey
  <2>2. live'.key = incoming.key /\ live'.rows = live.rows /\ live'.facts = live.facts /\ live'.markers = live.markers
    BY <1>1, <2>1, OnlyKey DEF SameRows
  <2>3. QED
    BY <1>1, <1>2, <2>2 DEF SetKey
<1>3. CASE SetFingerprint
  <2>1. live' = [live EXCEPT !.fp = incoming.key]
    BY <1>3 DEF SetFingerprint
  <2>2. SameRows /\ live'.facts = live.facts /\ live'.markers = live.markers
    BY <1>1, <2>1, OnlyFp DEF SameRows
  <2>3. QED
    BY <1>1, <1>3, <2>2 DEF SetFingerprint
<1>4. CASE SetRows
  <2>1. live' = [live EXCEPT !.rows = live.rows \cup incoming.rows]
    BY <1>4 DEF SetRows
  <2>2. live'.rows = live.rows \cup incoming.rows /\ live'.key = live.key /\ live'.facts = live.facts /\ live'.markers = live.markers
    BY <1>1, <2>1, OnlyRows DEF SameRows
  <2>3. QED
    BY <1>1, <1>4, <2>2 DEF SetRows
<1>5. CASE VerifyImport \/ ImportFails \/ UnmergeFails
  BY <1>1, <1>5 DEF VerifyImport, ImportFails, UnmergeFails, SameRows, Merging
<1>6. CASE UnsetRows
  <2>1. live' = [live EXCEPT !.rows = before.rows]
    BY <1>6 DEF UnsetRows
  <2>2. live'.rows = before.rows /\ live'.key = live.key /\ live'.facts = live.facts /\ live'.markers = live.markers
    BY <1>1, <2>1, OnlyRows DEF SameRows
  <2>3. QED
    BY <1>1, <1>6, <2>2 DEF UnsetRows
<1>7. CASE UnsetFingerprint
  <2>1. live' = [live EXCEPT !.fp = before.fp]
    BY <1>7 DEF UnsetFingerprint
  <2>2. SameRows /\ live'.facts = live.facts /\ live'.markers = live.markers
    BY <1>1, <2>1, OnlyFp DEF SameRows
  <2>3. QED
    BY <1>1, <1>7, <2>2 DEF UnsetFingerprint
<1>8. CASE UnsetKey
  <2>1. live' = [live EXCEPT !.key = before.key]
    BY <1>8 DEF UnsetKey
  <2>2. live'.key = before.key /\ live'.rows = live.rows /\ live'.facts = live.facts /\ live'.markers = live.markers
    BY <1>1, <2>1, OnlyKey DEF SameRows
  <2>3. QED
    BY <1>1, <1>8, <2>2 DEF UnsetKey
<1>9. QED
  BY <1>2, <1>3, <1>4, <1>5, <1>6, <1>7, <1>8 DEF MergeStep

\* Each action keeps the rows under one key.
LEMMA RowsStep ==
  ASSUME IInv, Next
  PROVE  RowsUnderOneKey'
<1>0. RowsUnderOneKey /\ IncomingSound /\ ReplaceSound /\ FilesSound /\ MergeSound /\ todo \subseteq File
  BY DEF IInv, TypeOK
<1>1. CASE Start
  BY <1>1, <1>0, StartEffect DEF RowsUnderOneKey, OneIdentity, SameData, SameRows, outside,
     copies, task, save
<1>2. CASE Identify
  BY <1>2, <1>0, IdentifyEffect DEF RowsUnderOneKey, OneIdentity, SameData, SameRows,
     outside, copies, task, save
<1>3. CASE StoreFingerprint
  BY <1>3, <1>0, FingerprintEffect DEF RowsUnderOneKey, OneIdentity, SameData, SameRows,
     outside, copies, task, save
<1>4. ASSUME NEW p \in Job, PrintOne(p)
      PROVE  RowsUnderOneKey'
  BY <1>4, <1>0, PrintEffect DEF RowsUnderOneKey, OneIdentity, SameData, SameRows, outside,
     copies, task, save
<1>5. ASSUME NEW p \in Job, RecoverPrint(p)
      PROVE  RowsUnderOneKey'
  BY <1>5, <1>0, PrintEffect DEF RowsUnderOneKey, OneIdentity, SameData, SameRows, outside,
     copies, task, save
<1>6. ASSUME NEW p \in Job, DiscardPrint(p)
      PROVE  RowsUnderOneKey'
  BY <1>6, <1>0, DiscardEffect DEF RowsUnderOneKey, OneIdentity, SameData, SameRows,
     outside, copies, task, save
<1>7. CASE LeaveUnsettled
  BY <1>7, <1>0, UnsettledEffect DEF RowsUnderOneKey, OneIdentity, SameData, SameRows,
     outside, copies, task, save
<1>8. CASE Settle
  BY <1>8, <1>0, UnsettledEffect DEF RowsUnderOneKey, OneIdentity, SameData, SameRows,
     outside, copies, task, save
<1>9. CASE LoseSettings
  BY <1>9, <1>0, FingerprintEffect DEF RowsUnderOneKey, OneIdentity, SameData, SameRows,
     outside, copies, task, save
<1>10. CASE AdoptPresentSecret
  BY <1>10, <1>0, FingerprintEffect DEF RowsUnderOneKey, OneIdentity, SameData, SameRows,
     outside, copies, task, save
<1>11. CASE LoadPreferences
  BY <1>11, <1>0 DEF LoadPreferences, RowsUnderOneKey, OneIdentity, outside, copies, task,
     save
<1>12. CASE StorePreferences
  BY <1>12, <1>0, FingerprintEffect DEF RowsUnderOneKey, OneIdentity, SameData, SameRows,
     outside, copies, task, save
<1>13. CASE CreateBackup
  BY <1>13, <1>0 DEF CreateBackup, RowsUnderOneKey, OneIdentity, outside, copies, task, save
<1>14. CASE WriteBackup
  BY <1>14, <1>0 DEF WriteBackup, Portable, RowsUnderOneKey, OneIdentity, outside, copies,
     task, save
<1>15. CASE FinishBackup
  BY <1>15, <1>0 DEF FinishBackup, RowsUnderOneKey, OneIdentity, outside, copies, task, save
<1>16. CASE ChooseBackup
  BY <1>16, <1>0 DEF ChooseBackup, Backups, RowsUnderOneKey, OneIdentity, outside, copies,
     task, save
<1>17. CASE AnswerNo
  BY <1>17, <1>0 DEF AnswerNo, RowsUnderOneKey, OneIdentity, outside, copies, task, save
<1>18. CASE ConfirmRestore
  BY <1>18, <1>0 DEF ConfirmRestore, RowsUnderOneKey, OneIdentity, outside, copies, task,
     save
<1>19. CASE MigrateToShared
  BY <1>19, <1>0 DEF MigrateToShared, Portable, RowsUnderOneKey, OneIdentity, outside,
     copies, task, save
<1>20. CASE Stage
  BY <1>20, <1>0 DEF Stage, Rollback, RowsUnderOneKey, OneIdentity, outside, copies, task,
     save
<1>21. CASE StageFails
  BY <1>21, <1>0 DEF StageFails, RowsUnderOneKey, OneIdentity, outside, copies, task, save
<1>22. CASE ReplaceFile
  <2>1. pc \in Replacing /\ pc' = pc
    BY <1>22, ReplaceEffect
  <2>2. PICK f \in todo : /\ todo' = todo \ {f} /\ live'[f] = Source(pc)[f]
                         /\ \A g \in File \ {f} : live'[g] = live[g]
    BY <1>22, ReplaceEffect
  <2>3. CASE pc \in {"remove config", "copy config", "undo remove config", "undo copy config"}
    BY <1>0, <2>2, <2>3 DEF FilesSound, InConfig, File, RowsUnderOneKey, OneIdentity
  <2>4. CASE pc \in {"remove data", "undo remove data"}
    <3>1. Source(pc) = Gone
      BY <2>4 DEF Source
    <3>2. /\ live'.key = live.key \/ live'.key = None
          /\ live'.rows = live.rows \/ live'.rows = {}
      BY <1>0, <2>2, <3>1 DEF File, Gone
    <3>3. QED
      BY <1>0, <3>2 DEF RowsUnderOneKey, OneIdentity
  <2>5. ASSUME NEW t \in Tree, OneIdentity(t), Source(pc) = t, pc \in {"copy data", "undo copy data"}
        PROVE  RowsUnderOneKey'
    <3>1. /\ \A g \in InData \cap todo : live[g] = Gone[g]
          /\ \A g \in InData \ todo : live[g] = t[g]
      BY <1>0, <2>5 DEF FilesSound
    <3>2. /\ live'.key = None \/ live'.key = t.key
          /\ live'.rows = {} \/ live'.rows = t.rows
      BY <1>0, <2>2, <2>5, <3>1 DEF File, InData, InConfig, Gone
    <3>3. QED
      BY <2>5, <3>2 DEF RowsUnderOneKey, OneIdentity
  <2>6. CASE pc = "copy data"
    BY <1>0, <2>5, <2>6 DEF Source, IncomingSound, Replacing, Copying
  <2>7. CASE pc = "undo copy data"
    BY <1>0, <2>5, <2>7 DEF Source, ReplaceSound, Replacing, Undoing
  <2>8. QED
    BY <2>1, <2>3, <2>4, <2>6, <2>7 DEF Replacing, Removing, Copying, Undoing
<1>23. CASE NextPhase
  BY <1>23, <1>0 DEF NextPhase, After, Replacing, Removing, Copying, Undoing,
     RowsUnderOneKey, OneIdentity, outside, copies, task, save
<1>24. CASE ReplaceFails
  BY <1>24, <1>0 DEF ReplaceFails, Removing, Copying, RowsUnderOneKey, OneIdentity,
     outside, copies, task, save
<1>25. CASE UndoFails
  BY <1>25, <1>0 DEF UndoFails, Undoing, RowsUnderOneKey, OneIdentity, outside, copies,
     task, save
<1>26. CASE Reopen
  BY <1>26, <1>0, ReopenEffect DEF RowsUnderOneKey, OneIdentity, SameData, SameRows,
     outside, copies, task, save
<1>27. CASE Stop
  BY <1>27, <1>0 DEF Stop, RowsUnderOneKey, OneIdentity, outside, copies, task, save
<1>28. CASE PrepareImport
  BY <1>28, <1>0 DEF PrepareImport, RowsUnderOneKey, OneIdentity, outside, copies, task,
     save
<1>29. CASE ApplyImport
  BY <1>29, <1>0 DEF ApplyImport, RowsUnderOneKey, OneIdentity, outside, copies, task, save
<1>30. CASE MergeStep
  BY <1>30, <1>0, MergeEffect DEF RowsUnderOneKey, OneIdentity, SameRows, IncomingSound,
     MergeSound, Merging
<1>31. CASE EndImport
  BY <1>31, <1>0 DEF EndImport, RowsUnderOneKey, OneIdentity, outside, copies, task, save
<1>32. QED
  BY <1>1, <1>2, <1>3, <1>4, <1>5, <1>6, <1>7, <1>8, <1>9, <1>10, <1>11, <1>12, <1>13,
     <1>14, <1>15, <1>16, <1>17, <1>18, <1>19, <1>20, <1>21, <1>22, <1>23, <1>24, <1>25,
     <1>26, <1>27, <1>28, <1>29, <1>30, <1>31 DEF Next

\* Each action keeps the handle of the Tk thread sound.
LEMMA HandleStep ==
  ASSUME IInv, Next
  PROVE  HandleSound'
<1>0. HandleSound /\ dbOpen \in BOOLEAN /\ dbOpen' \in BOOLEAN
  BY TypeStep DEF IInv, TypeOK
<1>1. CASE Start
  BY <1>1, <1>0, StartEffect, StoredIsSet, LiveIsTree DEF HandleSound, Replacing, Removing,
     Copying, Undoing, Merging, SameData, SameRows, outside, copies, task, save
<1>2. CASE Identify
  BY <1>2, <1>0, IdentifyEffect, StoredIsSet, LiveIsTree DEF HandleSound, Replacing,
     Removing, Copying, Undoing, Merging, SameData, SameRows, outside, copies, task, save
<1>3. CASE StoreFingerprint
  BY <1>3, <1>0, FingerprintEffect, StoredIsSet, LiveIsTree DEF HandleSound, Replacing,
     Removing, Copying, Undoing, Merging, SameData, SameRows, outside, copies, task, save
<1>4. ASSUME NEW p \in Job, PrintOne(p)
      PROVE  HandleSound'
  BY <1>4, <1>0, PrintEffect, StoredIsSet, LiveIsTree DEF HandleSound, Replacing, Removing,
     Copying, Undoing, Merging, SameData, SameRows, outside, copies, task, save
<1>5. ASSUME NEW p \in Job, RecoverPrint(p)
      PROVE  HandleSound'
  BY <1>5, <1>0, PrintEffect, StoredIsSet, LiveIsTree DEF HandleSound, Replacing, Removing,
     Copying, Undoing, Merging, SameData, SameRows, outside, copies, task, save
<1>6. ASSUME NEW p \in Job, DiscardPrint(p)
      PROVE  HandleSound'
  BY <1>6, <1>0, DiscardEffect, StoredIsSet, LiveIsTree DEF HandleSound, Replacing,
     Removing, Copying, Undoing, Merging, SameData, SameRows, outside, copies, task, save
<1>7. CASE LeaveUnsettled
  BY <1>7, <1>0, UnsettledEffect, StoredIsSet, LiveIsTree DEF HandleSound, Replacing,
     Removing, Copying, Undoing, Merging, SameData, SameRows, outside, copies, task, save
<1>8. CASE Settle
  BY <1>8, <1>0, UnsettledEffect, StoredIsSet, LiveIsTree DEF HandleSound, Replacing,
     Removing, Copying, Undoing, Merging, SameData, SameRows, outside, copies, task, save
<1>9. CASE LoseSettings
  BY <1>9, <1>0, FingerprintEffect, StoredIsSet, LiveIsTree DEF HandleSound, Replacing,
     Removing, Copying, Undoing, Merging, SameData, SameRows, outside, copies, task, save
<1>10. CASE AdoptPresentSecret
  BY <1>10, <1>0, FingerprintEffect, StoredIsSet, LiveIsTree DEF HandleSound, Replacing,
     Removing, Copying, Undoing, Merging, SameData, SameRows, outside, copies, task, save
<1>11. CASE LoadPreferences
  BY <1>11, <1>0 DEF LoadPreferences, HandleSound, Replacing, Removing, Copying, Undoing,
     Merging, outside, copies, task, save
<1>12. CASE StorePreferences
  BY <1>12, <1>0, FingerprintEffect, StoredIsSet, LiveIsTree DEF HandleSound, Replacing,
     Removing, Copying, Undoing, Merging, SameData, SameRows, outside, copies, task, save
<1>13. CASE CreateBackup
  BY <1>13, <1>0 DEF CreateBackup, HandleSound, Replacing, Removing, Copying, Undoing,
     Merging, outside, copies, task, save
<1>14. CASE WriteBackup
  BY <1>14, <1>0 DEF WriteBackup, Portable, HandleSound, Replacing, Removing, Copying,
     Undoing, Merging, outside, copies, task, save
<1>15. CASE FinishBackup
  BY <1>15, <1>0 DEF FinishBackup, HandleSound, Replacing, Removing, Copying, Undoing,
     Merging, outside, copies, task, save
<1>16. CASE ChooseBackup
  BY <1>16, <1>0 DEF ChooseBackup, Backups, HandleSound, Replacing, Removing, Copying,
     Undoing, Merging, outside, copies, task, save
<1>17. CASE AnswerNo
  BY <1>17, <1>0 DEF AnswerNo, HandleSound, Replacing, Removing, Copying, Undoing, Merging,
     outside, copies, task, save
<1>18. CASE ConfirmRestore
  BY <1>18, <1>0 DEF ConfirmRestore, HandleSound, Replacing, Removing, Copying, Undoing,
     Merging, outside, copies, task, save
<1>19. CASE MigrateToShared
  BY <1>19, <1>0 DEF MigrateToShared, Portable, HandleSound, Replacing, Removing, Copying,
     Undoing, Merging, outside, copies, task, save
<1>20. CASE Stage
  BY <1>20, <1>0 DEF Stage, Rollback, HandleSound, Replacing, Removing, Copying, Undoing,
     Merging, outside, copies, task, save
<1>21. CASE StageFails
  BY <1>21, <1>0 DEF StageFails, HandleSound, Replacing, Removing, Copying, Undoing,
     Merging, outside, copies, task, save
<1>22. CASE ReplaceFile
  BY <1>22, <1>0, ReplaceEffect, StoredIsSet, LiveIsTree DEF HandleSound, Replacing,
     Removing, Copying, Undoing, Merging, SameData, SameRows, outside, copies, task, save
<1>23. CASE NextPhase
  BY <1>23, <1>0 DEF NextPhase, After, Replacing, Removing, Copying, Undoing, HandleSound,
     Merging, outside, copies, task, save
<1>24. CASE ReplaceFails
  BY <1>24, <1>0 DEF ReplaceFails, Removing, Copying, HandleSound, Replacing, Undoing,
     Merging, outside, copies, task, save
<1>25. CASE UndoFails
  BY <1>25, <1>0 DEF UndoFails, Undoing, HandleSound, Replacing, Removing, Copying,
     Merging, outside, copies, task, save
<1>26. CASE Reopen
  BY <1>26, <1>0, ReopenEffect, StoredIsSet, LiveIsTree DEF HandleSound, Replacing,
     Removing, Copying, Undoing, Merging, SameData, SameRows, outside, copies, task, save
<1>27. CASE Stop
  BY <1>27, <1>0 DEF Stop, HandleSound, Replacing, Removing, Copying, Undoing, Merging,
     outside, copies, task, save
<1>28. CASE PrepareImport
  BY <1>28, <1>0 DEF PrepareImport, HandleSound, Replacing, Removing, Copying, Undoing,
     Merging, outside, copies, task, save
<1>29. CASE ApplyImport
  BY <1>29, <1>0 DEF ApplyImport, HandleSound, Replacing, Removing, Copying, Undoing,
     Merging, outside, copies, task, save
<1>30. CASE MergeStep
  BY <1>30, <1>0, MergeEffect, StoredIsSet, LiveIsTree DEF HandleSound, Replacing,
     Removing, Copying, Undoing, Merging, SameData, SameRows, outside, copies, task, save
<1>31. CASE EndImport
  BY <1>31, <1>0 DEF EndImport, HandleSound, Replacing, Removing, Copying, Undoing,
     Merging, outside, copies, task, save
<1>32. QED
  BY <1>1, <1>2, <1>3, <1>4, <1>5, <1>6, <1>7, <1>8, <1>9, <1>10, <1>11, <1>12, <1>13,
     <1>14, <1>15, <1>16, <1>17, <1>18, <1>19, <1>20, <1>21, <1>22, <1>23, <1>24, <1>25,
     <1>26, <1>27, <1>28, <1>29, <1>30, <1>31 DEF Next


-----------------------------------------------------------------------------
(* What comes in from outside                                              *)

\* Every backup that can be chosen is a tree of one identity.
LEMMA BackupsSound ==
  ASSUME IInv, NEW t \in Backups
  PROVE  t \in Tree /\ OneIdentity(t)
<1>1. CASE t \in Elsewhere
  BY <1>1, DataRootAssumption
<1>2. CASE t = backup /\ backup # None
  BY <1>2 DEF IInv, TypeOK, OutsideSound
<1>3. QED
  BY <1>1, <1>2 DEF Backups

\* Every package that is admitted is of one identity.
LEMMA PackagesSound ==
  ASSUME NEW b \in Package
  PROVE  b \in Bundle /\ OneIdentity(b)
  BY DataRootAssumption

\* The tree of the user is of one identity.
LEMMA PerUserSound == PerUser \in Tree /\ OneIdentity(PerUser)
  BY DataRootAssumption

\* What a backup keeps of a tree of one identity is of one identity, and
\* settles nothing.
LEMMA PortableSound ==
  ASSUME NEW t \in Tree, OneIdentity(t)
  PROVE  /\ OneIdentity(Portable(t)) /\ Unsettled(Portable(t)) \subseteq Unsettled(t)
<1>1. PICK s : s = Portable(t)
  OBVIOUS
<1>2. s = [t EXCEPT !.markers = {}]
  BY <1>1 DEF Portable
<1>3. s.key = t.key /\ s.rows = t.rows /\ s.markers = {} /\ s.facts = t.facts
  BY <1>2, OnlyMarkers
<1>4. QED
  BY <1>1, <1>3 DEF OneIdentity, Unsettled, Stored

\* A step that leaves the data alone leaves what is unsettled alone.
LEMMA SameDataSame ==
  ASSUME SameData
  PROVE  Unsettled(live') = Unsettled(live) /\ \A f \in InData : live'[f] = live[f]
  BY DEF SameData, SameRows, Unsettled, Stored, InData, InConfig, File

\* Each action keeps what is about to be restored or imported sound.
LEMMA IncomingStep ==
  ASSUME IInv, Next
  PROVE  IncomingSound'
<1>0. IncomingSound
  BY DEF IInv
<1>1. CASE Start
  BY <1>1, <1>0, StartEffect DEF IncomingSound, Replacing, Removing, Copying, Undoing,
     Merging, SameData, SameRows, outside, copies, task, save
<1>2. CASE Identify
  BY <1>2, <1>0, IdentifyEffect DEF IncomingSound, Replacing, Removing, Copying, Undoing,
     Merging, SameData, SameRows, outside, copies, task, save
<1>3. CASE StoreFingerprint
  BY <1>3, <1>0, FingerprintEffect DEF IncomingSound, Replacing, Removing, Copying,
     Undoing, Merging, SameData, SameRows, outside, copies, task, save
<1>4. ASSUME NEW p \in Job, PrintOne(p)
      PROVE  IncomingSound'
  BY <1>4, <1>0, PrintEffect DEF IncomingSound, Replacing, Removing, Copying, Undoing,
     Merging, SameData, SameRows, outside, copies, task, save
<1>5. ASSUME NEW p \in Job, RecoverPrint(p)
      PROVE  IncomingSound'
  BY <1>5, <1>0, PrintEffect DEF IncomingSound, Replacing, Removing, Copying, Undoing,
     Merging, SameData, SameRows, outside, copies, task, save
<1>6. ASSUME NEW p \in Job, DiscardPrint(p)
      PROVE  IncomingSound'
  BY <1>6, <1>0, DiscardEffect DEF IncomingSound, Replacing, Removing, Copying, Undoing,
     Merging, SameData, SameRows, outside, copies, task, save
<1>7. CASE LeaveUnsettled
  BY <1>7, <1>0, UnsettledEffect DEF IncomingSound, Replacing, Removing, Copying, Undoing,
     Merging, SameData, SameRows, outside, copies, task, save
<1>8. CASE Settle
  BY <1>8, <1>0, UnsettledEffect DEF IncomingSound, Replacing, Removing, Copying, Undoing,
     Merging, SameData, SameRows, outside, copies, task, save
<1>9. CASE LoseSettings
  BY <1>9, <1>0, FingerprintEffect DEF IncomingSound, Replacing, Removing, Copying,
     Undoing, Merging, SameData, SameRows, outside, copies, task, save
<1>10. CASE AdoptPresentSecret
  BY <1>10, <1>0, FingerprintEffect DEF IncomingSound, Replacing, Removing, Copying,
     Undoing, Merging, SameData, SameRows, outside, copies, task, save
<1>11. CASE LoadPreferences
  BY <1>11, <1>0 DEF LoadPreferences, IncomingSound, Replacing, Removing, Copying, Undoing,
     Merging, outside, copies, task, save
<1>12. CASE StorePreferences
  BY <1>12, <1>0, FingerprintEffect DEF IncomingSound, Replacing, Removing, Copying,
     Undoing, Merging, SameData, SameRows, outside, copies, task, save
<1>13. CASE CreateBackup
  BY <1>13, <1>0 DEF CreateBackup, IncomingSound, Replacing, Removing, Copying, Undoing,
     Merging, outside, copies, task, save
<1>14. CASE WriteBackup
  BY <1>14, <1>0 DEF WriteBackup, Portable, IncomingSound, Replacing, Removing, Copying,
     Undoing, Merging, outside, copies, task, save
<1>15. CASE FinishBackup
  BY <1>15, <1>0 DEF FinishBackup, IncomingSound, Replacing, Removing, Copying, Undoing,
     Merging, outside, copies, task, save
<1>16. CASE ChooseBackup
  <2>1. PICK t \in Backups : Validated(t) /\ incoming' = t /\ pc' = "confirm"
    BY <1>16 DEF ChooseBackup
  <2>2. QED
    BY <2>1, BackupsSound DEF Validated, IncomingSound, Merging
<1>17. CASE AnswerNo
  BY <1>17, <1>0 DEF AnswerNo, IncomingSound, Replacing, Removing, Copying, Undoing,
     Merging, outside, copies, task, save
<1>18. CASE ConfirmRestore
  BY <1>18, <1>0 DEF ConfirmRestore, IncomingSound, Replacing, Removing, Copying, Undoing,
     Merging, outside, copies, task, save
<1>19. CASE MigrateToShared
  <2>1. MayCopy(PerUser) /\ incoming' = Portable(PerUser) /\ pc' = "stage"
    BY <1>19 DEF MigrateToShared
  <2>2. QED
    BY <2>1, PerUserSound, PortableIsTree, PortableSound DEF MayCopy, IncomingSound, Merging
<1>20. CASE Stage
  BY <1>20, <1>0 DEF Stage, Rollback, IncomingSound, Replacing, Removing, Copying, Undoing,
     Merging, outside, copies, task, save
<1>21. CASE StageFails
  BY <1>21, <1>0 DEF StageFails, IncomingSound, Replacing, Removing, Copying, Undoing,
     Merging, outside, copies, task, save
<1>22. CASE ReplaceFile
  BY <1>22, <1>0, ReplaceEffect DEF IncomingSound, Replacing, Removing, Copying, Undoing,
     Merging, SameData, SameRows, outside, copies, task, save
<1>23. CASE NextPhase
  BY <1>23, <1>0 DEF NextPhase, After, Replacing, Removing, Copying, Undoing,
     IncomingSound, Merging, outside, copies, task, save
<1>24. CASE ReplaceFails
  BY <1>24, <1>0 DEF ReplaceFails, Removing, Copying, IncomingSound, Replacing, Undoing,
     Merging, outside, copies, task, save
<1>25. CASE UndoFails
  BY <1>25, <1>0 DEF UndoFails, Undoing, IncomingSound, Replacing, Removing, Copying,
     Merging, outside, copies, task, save
<1>26. CASE Reopen
  BY <1>26, <1>0, ReopenEffect DEF IncomingSound, Replacing, Removing, Copying, Undoing,
     Merging, SameData, SameRows, outside, copies, task, save
<1>27. CASE Stop
  BY <1>27, <1>0 DEF Stop, IncomingSound, Replacing, Removing, Copying, Undoing, Merging,
     outside, copies, task, save
<1>28. CASE PrepareImport
  <2>1. incoming' \in Package /\ pc' = "preview"
    BY <1>28 DEF PrepareImport
  <2>2. QED
    BY <2>1, PackagesSound DEF IncomingSound, Replacing, Removing, Copying, Undoing
<1>29. CASE ApplyImport
  BY <1>29, <1>0 DEF ApplyImport, IncomingSound, Replacing, Removing, Copying, Undoing,
     Merging, outside, copies, task, save
<1>30. CASE MergeStep
  BY <1>30, <1>0, MergeEffect DEF IncomingSound, Replacing, Removing, Copying, Undoing,
     Merging, SameData, SameRows, outside, copies, task, save
<1>31. CASE EndImport
  BY <1>31, <1>0 DEF EndImport, IncomingSound, Replacing, Removing, Copying, Undoing,
     Merging, outside, copies, task, save
<1>32. QED
  BY <1>1, <1>2, <1>3, <1>4, <1>5, <1>6, <1>7, <1>8, <1>9, <1>10, <1>11, <1>12, <1>13,
     <1>14, <1>15, <1>16, <1>17, <1>18, <1>19, <1>20, <1>21, <1>22, <1>23, <1>24, <1>25,
     <1>26, <1>27, <1>28, <1>29, <1>30, <1>31 DEF Next

\* Each action keeps the backups, the temporary file and the rollback folders
\* sound.
LEMMA OutsideStep ==
  ASSUME IInv, Next
  PROVE  OutsideSound'
<1>0. OutsideSound
  BY DEF IInv
<1>1. CASE Start
  BY <1>1, <1>0, StartEffect DEF OutsideSound, Replacing, Removing, Copying, Undoing,
     Merging, SameData, SameRows, outside, copies, task, save
<1>2. CASE Identify
  BY <1>2, <1>0, IdentifyEffect DEF OutsideSound, Replacing, Removing, Copying, Undoing,
     Merging, SameData, SameRows, outside, copies, task, save
<1>3. CASE StoreFingerprint
  BY <1>3, <1>0, FingerprintEffect DEF OutsideSound, Replacing, Removing, Copying, Undoing,
     Merging, SameData, SameRows, outside, copies, task, save
<1>4. ASSUME NEW p \in Job, PrintOne(p)
      PROVE  OutsideSound'
  BY <1>4, <1>0, PrintEffect DEF OutsideSound, Replacing, Removing, Copying, Undoing,
     Merging, SameData, SameRows, outside, copies, task, save
<1>5. ASSUME NEW p \in Job, RecoverPrint(p)
      PROVE  OutsideSound'
  BY <1>5, <1>0, PrintEffect DEF OutsideSound, Replacing, Removing, Copying, Undoing,
     Merging, SameData, SameRows, outside, copies, task, save
<1>6. ASSUME NEW p \in Job, DiscardPrint(p)
      PROVE  OutsideSound'
  BY <1>6, <1>0, DiscardEffect DEF OutsideSound, Replacing, Removing, Copying, Undoing,
     Merging, SameData, SameRows, outside, copies, task, save
<1>7. CASE LeaveUnsettled
  BY <1>7, <1>0, UnsettledEffect DEF OutsideSound, Replacing, Removing, Copying, Undoing,
     Merging, SameData, SameRows, outside, copies, task, save
<1>8. CASE Settle
  BY <1>8, <1>0, UnsettledEffect DEF OutsideSound, Replacing, Removing, Copying, Undoing,
     Merging, SameData, SameRows, outside, copies, task, save
<1>9. CASE LoseSettings
  BY <1>9, <1>0, FingerprintEffect DEF OutsideSound, Replacing, Removing, Copying, Undoing,
     Merging, SameData, SameRows, outside, copies, task, save
<1>10. CASE AdoptPresentSecret
  BY <1>10, <1>0, FingerprintEffect DEF OutsideSound, Replacing, Removing, Copying,
     Undoing, Merging, SameData, SameRows, outside, copies, task, save
<1>11. CASE LoadPreferences
  BY <1>11, <1>0 DEF LoadPreferences, OutsideSound, Replacing, Removing, Copying, Undoing,
     Merging, outside, copies, task, save
<1>12. CASE StorePreferences
  BY <1>12, <1>0, FingerprintEffect DEF OutsideSound, Replacing, Removing, Copying,
     Undoing, Merging, SameData, SameRows, outside, copies, task, save
<1>13. CASE CreateBackup
  BY <1>13, <1>0 DEF CreateBackup, OutsideSound, Replacing, Removing, Copying, Undoing,
     Merging, outside, copies, task, save
<1>14. CASE WriteBackup
  <2>1. OneIdentity(live) /\ backup' = backup /\ temp' \in {Portable(live), Torn}
    BY <1>14 DEF WriteBackup, IInv, RowsUnderOneKey, copies, save
  <2>2. QED
    BY <1>0, <2>1, LiveIsTree, PortableSound DEF OutsideSound
<1>15. CASE FinishBackup
  <2>1. temp' = None /\ (backup' = backup \/ (Validated(temp) /\ backup' = temp))
    BY <1>15 DEF FinishBackup
  <2>2. QED
    BY <1>0, <2>1 DEF OutsideSound, Validated
<1>16. CASE ChooseBackup
  BY <1>16, <1>0 DEF ChooseBackup, Backups, OutsideSound, Replacing, Removing, Copying,
     Undoing, Merging, outside, copies, task, save
<1>17. CASE AnswerNo
  BY <1>17, <1>0 DEF AnswerNo, OutsideSound, Replacing, Removing, Copying, Undoing,
     Merging, outside, copies, task, save
<1>18. CASE ConfirmRestore
  BY <1>18, <1>0 DEF ConfirmRestore, OutsideSound, Replacing, Removing, Copying, Undoing,
     Merging, outside, copies, task, save
<1>19. CASE MigrateToShared
  BY <1>19, <1>0 DEF MigrateToShared, Portable, OutsideSound, Replacing, Removing, Copying,
     Undoing, Merging, outside, copies, task, save
<1>20. CASE Stage
  BY <1>20, <1>0 DEF Stage, Rollback, OutsideSound, Replacing, Removing, Copying, Undoing,
     Merging, outside, copies, task, save
<1>21. CASE StageFails
  BY <1>21, <1>0 DEF StageFails, OutsideSound, Replacing, Removing, Copying, Undoing,
     Merging, outside, copies, task, save
<1>22. CASE ReplaceFile
  BY <1>22, <1>0, ReplaceEffect DEF OutsideSound, Replacing, Removing, Copying, Undoing,
     Merging, SameData, SameRows, outside, copies, task, save
<1>23. CASE NextPhase
  BY <1>23, <1>0 DEF NextPhase, After, Replacing, Removing, Copying, Undoing, OutsideSound,
     Merging, outside, copies, task, save
<1>24. CASE ReplaceFails
  BY <1>24, <1>0 DEF ReplaceFails, Removing, Copying, OutsideSound, Replacing, Undoing,
     Merging, outside, copies, task, save
<1>25. CASE UndoFails
  BY <1>25, <1>0 DEF UndoFails, Undoing, OutsideSound, Replacing, Removing, Copying,
     Merging, outside, copies, task, save
<1>26. CASE Reopen
  BY <1>26, <1>0, ReopenEffect DEF OutsideSound, Replacing, Removing, Copying, Undoing,
     Merging, SameData, SameRows, outside, copies, task, save
<1>27. CASE Stop
  BY <1>27, <1>0 DEF Stop, OutsideSound, Replacing, Removing, Copying, Undoing, Merging,
     outside, copies, task, save
<1>28. CASE PrepareImport
  BY <1>28, <1>0 DEF PrepareImport, OutsideSound, Replacing, Removing, Copying, Undoing,
     Merging, outside, copies, task, save
<1>29. CASE ApplyImport
  BY <1>29, <1>0 DEF ApplyImport, OutsideSound, Replacing, Removing, Copying, Undoing,
     Merging, outside, copies, task, save
<1>30. CASE MergeStep
  BY <1>30, <1>0, MergeEffect DEF OutsideSound, Replacing, Removing, Copying, Undoing,
     Merging, SameData, SameRows, outside, copies, task, save
<1>31. CASE EndImport
  BY <1>31, <1>0 DEF EndImport, OutsideSound, Replacing, Removing, Copying, Undoing,
     Merging, outside, copies, task, save
<1>32. QED
  BY <1>1, <1>2, <1>3, <1>4, <1>5, <1>6, <1>7, <1>8, <1>9, <1>10, <1>11, <1>12, <1>13,
     <1>14, <1>15, <1>16, <1>17, <1>18, <1>19, <1>20, <1>21, <1>22, <1>23, <1>24, <1>25,
     <1>26, <1>27, <1>28, <1>29, <1>30, <1>31 DEF Next

\* Each action keeps what the replacement relies on: the saved tree and the
\* source.
LEMMA ReplaceSoundStep ==
  ASSUME IInv, Next
  PROVE  ReplaceSound'
<1>0. ReplaceSound /\ IncomingSound
  BY DEF IInv
<1>1. CASE Start
  BY <1>1, <1>0, StartEffect DEF ReplaceSound, Replacing, Removing, Copying, Undoing,
     Merging, SameData, SameRows, outside, copies, task, save
<1>2. CASE Identify
  BY <1>2, <1>0, IdentifyEffect DEF ReplaceSound, Replacing, Removing, Copying, Undoing,
     Merging, SameData, SameRows, outside, copies, task, save
<1>3. CASE StoreFingerprint
  <2>1. saved' = saved /\ before' = before /\ incoming' = incoming /\ SameData
        /\ (pc' = pc \/ pc' = "idle")
    BY <1>3, FingerprintEffect
  <2>2. QED
    BY <1>0, <2>1, SameDataSame DEF ReplaceSound, Replacing, Removing, Copying, Undoing
<1>4. ASSUME NEW p \in Job, PrintOne(p)
      PROVE  ReplaceSound'
  BY <1>4, <1>0, PrintEffect DEF ReplaceSound, Replacing, Removing, Copying, Undoing,
     Merging, SameData, SameRows, outside, copies, task, save
<1>5. ASSUME NEW p \in Job, RecoverPrint(p)
      PROVE  ReplaceSound'
  BY <1>5, <1>0, PrintEffect DEF ReplaceSound, Replacing, Removing, Copying, Undoing,
     Merging, SameData, SameRows, outside, copies, task, save
<1>6. ASSUME NEW p \in Job, DiscardPrint(p)
      PROVE  ReplaceSound'
  BY <1>6, <1>0, DiscardEffect DEF ReplaceSound, Replacing, Removing, Copying, Undoing,
     Merging, SameData, SameRows, outside, copies, task, save
<1>7. CASE LeaveUnsettled
  BY <1>7, <1>0, UnsettledEffect DEF ReplaceSound, Replacing, Removing, Copying, Undoing,
     Merging, SameData, SameRows, outside, copies, task, save
<1>8. CASE Settle
  BY <1>8, <1>0, UnsettledEffect DEF ReplaceSound, Replacing, Removing, Copying, Undoing,
     Merging, SameData, SameRows, outside, copies, task, save
<1>9. CASE LoseSettings
  <2>1. saved' = saved /\ before' = before /\ incoming' = incoming /\ SameData
        /\ (pc' = pc \/ pc' = "idle")
    BY <1>9, FingerprintEffect
  <2>2. QED
    BY <1>0, <2>1, SameDataSame DEF ReplaceSound, Replacing, Removing, Copying, Undoing
<1>10. CASE AdoptPresentSecret
  <2>1. saved' = saved /\ before' = before /\ incoming' = incoming /\ SameData
        /\ (pc' = pc \/ pc' = "idle")
    BY <1>10, FingerprintEffect
  <2>2. QED
    BY <1>0, <2>1, SameDataSame DEF ReplaceSound, Replacing, Removing, Copying, Undoing
<1>11. CASE LoadPreferences
  BY <1>11, <1>0 DEF LoadPreferences, ReplaceSound, Replacing, Removing, Copying, Undoing,
     Merging, outside, copies, task, save
<1>12. CASE StorePreferences
  <2>1. saved' = saved /\ before' = before /\ incoming' = incoming /\ SameData
        /\ (pc' = pc \/ pc' = "idle")
    BY <1>12, FingerprintEffect
  <2>2. QED
    BY <1>0, <2>1, SameDataSame DEF ReplaceSound, Replacing, Removing, Copying, Undoing
<1>13. CASE CreateBackup
  BY <1>13, <1>0 DEF CreateBackup, ReplaceSound, Replacing, Removing, Copying, Undoing,
     Merging, outside, copies, task, save
<1>14. CASE WriteBackup
  BY <1>14, <1>0 DEF WriteBackup, Portable, ReplaceSound, Replacing, Removing, Copying,
     Undoing, Merging, outside, copies, task, save
<1>15. CASE FinishBackup
  BY <1>15, <1>0 DEF FinishBackup, ReplaceSound, Replacing, Removing, Copying, Undoing,
     Merging, outside, copies, task, save
<1>16. CASE ChooseBackup
  BY <1>16, <1>0 DEF ChooseBackup, Backups, ReplaceSound, Replacing, Removing, Copying,
     Undoing, Merging, outside, copies, task, save
<1>17. CASE AnswerNo
  BY <1>17, <1>0 DEF AnswerNo, ReplaceSound, Replacing, Removing, Copying, Undoing,
     Merging, outside, copies, task, save
<1>18. CASE ConfirmRestore
  BY <1>18, <1>0 DEF ConfirmRestore, ReplaceSound, Replacing, Removing, Copying, Undoing,
     Merging, outside, copies, task, save
<1>19. CASE MigrateToShared
  BY <1>19, <1>0 DEF MigrateToShared, Portable, ReplaceSound, Replacing, Removing, Copying,
     Undoing, Merging, outside, copies, task, save
<1>20. CASE Stage
  <2>1. /\ Unsettled(live) = {} /\ Restorable(incoming) /\ OneIdentity(live)
        /\ saved' = live /\ before' = live /\ live' = live /\ incoming' = incoming
    BY <1>20 DEF Stage, MayCopy, Rollback, IInv, RowsUnderOneKey
  <2>2. QED
    BY <2>1, LiveIsTree DEF ReplaceSound
<1>21. CASE StageFails
  BY <1>21, <1>0 DEF StageFails, ReplaceSound, Replacing, Removing, Copying, Undoing,
     Merging, outside, copies, task, save
<1>22. CASE ReplaceFile
  <2>1. pc \in Replacing /\ pc' = pc
    BY <1>22, ReplaceEffect
  <2>2. PICK f \in todo : /\ todo' = todo \ {f} /\ live'[f] = Source(pc)[f]
                         /\ \A g \in File \ {f} : live'[g] = live[g]
    BY <1>22, ReplaceEffect
  <2>3. /\ saved' = saved /\ before' = before /\ incoming' = incoming
        /\ Unsettled(Source(pc)) = {}
    <3>1. saved' = saved /\ before' = before /\ incoming' = incoming
      BY <1>22, ReplaceEffect
    <3>2. Unsettled(Gone) = {}
      BY DEF Unsettled, Stored, Gone
    <3>3. QED
      BY <1>0, <2>1, <3>1, <3>2 DEF Source, ReplaceSound, IncomingSound
  <2>4. Unsettled(live') = {}
    <3>1. /\ live'.markers = live.markers \/ live'.markers = Source(pc).markers
          /\ live'.facts = live.facts \/ live'.facts = Source(pc).facts
      BY <2>2 DEF File
    <3>2. QED
      BY <1>0, <2>1, <2>3, <3>1 DEF ReplaceSound, Unsettled, Stored
  <2>5. QED
    BY <1>0, <2>1, <2>3, <2>4 DEF ReplaceSound
<1>23. CASE NextPhase
  BY <1>23, <1>0 DEF NextPhase, After, Replacing, Removing, Copying, Undoing, ReplaceSound,
     Merging, outside, copies, task, save
<1>24. CASE ReplaceFails
  BY <1>24, <1>0 DEF ReplaceFails, Removing, Copying, ReplaceSound, Replacing, Undoing,
     Merging, outside, copies, task, save
<1>25. CASE UndoFails
  BY <1>25, <1>0 DEF UndoFails, Undoing, ReplaceSound, Replacing, Removing, Copying,
     Merging, outside, copies, task, save
<1>26. CASE Reopen
  BY <1>26, <1>0, ReopenEffect DEF ReplaceSound, Replacing, Removing, Copying, Undoing,
     Merging, SameData, SameRows, outside, copies, task, save
<1>27. CASE Stop
  BY <1>27, <1>0 DEF Stop, ReplaceSound, Replacing, Removing, Copying, Undoing, Merging,
     outside, copies, task, save
<1>28. CASE PrepareImport
  BY <1>28, <1>0 DEF PrepareImport, ReplaceSound, Replacing, Removing, Copying, Undoing,
     Merging, outside, copies, task, save
<1>29. CASE ApplyImport
  BY <1>29, <1>0 DEF ApplyImport, ReplaceSound, Replacing, Removing, Copying, Undoing,
     Merging, outside, copies, task, save
<1>30. CASE MergeStep
  BY <1>30, <1>0, MergeEffect DEF ReplaceSound, Replacing, Removing, Copying, Undoing,
     Merging, SameData, SameRows, outside, copies, task, save
<1>31. CASE EndImport
  BY <1>31, <1>0 DEF EndImport, ReplaceSound, Replacing, Removing, Copying, Undoing,
     Merging, outside, copies, task, save
<1>32. QED
  BY <1>1, <1>2, <1>3, <1>4, <1>5, <1>6, <1>7, <1>8, <1>9, <1>10, <1>11, <1>12, <1>13,
     <1>14, <1>15, <1>16, <1>17, <1>18, <1>19, <1>20, <1>21, <1>22, <1>23, <1>24, <1>25,
     <1>26, <1>27, <1>28, <1>29, <1>30, <1>31 DEF Next

\* Each action keeps, file by file, which of the two trees a replaced file is
\* from.
LEMMA FilesStep ==
  ASSUME IInv, Next
  PROVE  FilesSound'
<1>0. FilesSound /\ ReplaceSound /\ todo \subseteq File
  BY DEF IInv, TypeOK
<1>1. CASE Start
  BY <1>1, <1>0, StartEffect DEF FilesSound, Replacing, Removing, Copying, Undoing,
     Merging, InData, File, InConfig, SameData, SameRows, outside, copies, task, save
<1>2. CASE Identify
  BY <1>2, <1>0, IdentifyEffect DEF FilesSound, Replacing, Removing, Copying, Undoing,
     Merging, InData, File, InConfig, SameData, SameRows, outside, copies, task, save
<1>3. CASE StoreFingerprint
  <2>1. before' = before /\ incoming' = incoming /\ saved' = saved /\ todo' = todo /\ SameData
        /\ (pc' = pc \/ pc' = "idle")
    BY <1>3, FingerprintEffect
  <2>2. \A f \in InData : live'[f] = live[f]
    BY <2>1, SameDataSame
  <2>3. QED
    BY <1>0, <2>1, <2>2 DEF FilesSound, Source
<1>4. ASSUME NEW p \in Job, PrintOne(p)
      PROVE  FilesSound'
  BY <1>4, <1>0, PrintEffect DEF FilesSound, Replacing, Removing, Copying, Undoing,
     Merging, InData, File, InConfig, SameData, SameRows, outside, copies, task, save
<1>5. ASSUME NEW p \in Job, RecoverPrint(p)
      PROVE  FilesSound'
  BY <1>5, <1>0, PrintEffect DEF FilesSound, Replacing, Removing, Copying, Undoing,
     Merging, InData, File, InConfig, SameData, SameRows, outside, copies, task, save
<1>6. ASSUME NEW p \in Job, DiscardPrint(p)
      PROVE  FilesSound'
  BY <1>6, <1>0, DiscardEffect DEF FilesSound, Replacing, Removing, Copying, Undoing,
     Merging, InData, File, InConfig, SameData, SameRows, outside, copies, task, save
<1>7. CASE LeaveUnsettled
  BY <1>7, <1>0, UnsettledEffect DEF FilesSound, Replacing, Removing, Copying, Undoing,
     Merging, InData, File, InConfig, SameData, SameRows, outside, copies, task, save
<1>8. CASE Settle
  BY <1>8, <1>0, UnsettledEffect DEF FilesSound, Replacing, Removing, Copying, Undoing,
     Merging, InData, File, InConfig, SameData, SameRows, outside, copies, task, save
<1>9. CASE LoseSettings
  <2>1. before' = before /\ incoming' = incoming /\ saved' = saved /\ todo' = todo /\ SameData
        /\ (pc' = pc \/ pc' = "idle")
    BY <1>9, FingerprintEffect
  <2>2. \A f \in InData : live'[f] = live[f]
    BY <2>1, SameDataSame
  <2>3. QED
    BY <1>0, <2>1, <2>2 DEF FilesSound, Source
<1>10. CASE AdoptPresentSecret
  <2>1. before' = before /\ incoming' = incoming /\ saved' = saved /\ todo' = todo /\ SameData
        /\ (pc' = pc \/ pc' = "idle")
    BY <1>10, FingerprintEffect
  <2>2. \A f \in InData : live'[f] = live[f]
    BY <2>1, SameDataSame
  <2>3. QED
    BY <1>0, <2>1, <2>2 DEF FilesSound, Source
<1>11. CASE LoadPreferences
  <2>1. /\ live' = live /\ before' = before /\ incoming' = incoming /\ saved' = saved
        /\ todo' = todo /\ pc' = pc
    BY <1>11 DEF LoadPreferences, copies, task
  <2>2. QED
    BY <1>0, <2>1 DEF FilesSound, Source
<1>12. CASE StorePreferences
  <2>1. before' = before /\ incoming' = incoming /\ saved' = saved /\ todo' = todo /\ SameData
        /\ (pc' = pc \/ pc' = "idle")
    BY <1>12, FingerprintEffect
  <2>2. \A f \in InData : live'[f] = live[f]
    BY <2>1, SameDataSame
  <2>3. QED
    BY <1>0, <2>1, <2>2 DEF FilesSound, Source
<1>13. CASE CreateBackup
  BY <1>13, <1>0 DEF CreateBackup, FilesSound, Replacing, Removing, Copying, Undoing,
     Merging, InData, File, InConfig, outside, copies, task, save
<1>14. CASE WriteBackup
  BY <1>14, <1>0 DEF WriteBackup, Portable, FilesSound, Replacing, Removing, Copying,
     Undoing, Merging, InData, File, InConfig, outside, copies, task, save
<1>15. CASE FinishBackup
  BY <1>15, <1>0 DEF FinishBackup, FilesSound, Replacing, Removing, Copying, Undoing,
     Merging, InData, File, InConfig, outside, copies, task, save
<1>16. CASE ChooseBackup
  BY <1>16, <1>0 DEF ChooseBackup, Backups, FilesSound, Replacing, Removing, Copying,
     Undoing, Merging, InData, File, InConfig, outside, copies, task, save
<1>17. CASE AnswerNo
  BY <1>17, <1>0 DEF AnswerNo, FilesSound, Replacing, Removing, Copying, Undoing, Merging,
     InData, File, InConfig, outside, copies, task, save
<1>18. CASE ConfirmRestore
  BY <1>18, <1>0 DEF ConfirmRestore, FilesSound, Replacing, Removing, Copying, Undoing,
     Merging, InData, File, InConfig, outside, copies, task, save
<1>19. CASE MigrateToShared
  BY <1>19, <1>0 DEF MigrateToShared, Portable, FilesSound, Replacing, Removing, Copying,
     Undoing, Merging, InData, File, InConfig, outside, copies, task, save
<1>20. CASE Stage
  BY <1>20, <1>0 DEF Stage, Rollback, FilesSound, Replacing, Removing, Copying, Undoing,
     Merging, InData, File, InConfig, outside, copies, task, save
<1>21. CASE StageFails
  BY <1>21, <1>0 DEF StageFails, FilesSound, Replacing, Removing, Copying, Undoing,
     Merging, InData, File, InConfig, outside, copies, task, save
<1>22. CASE ReplaceFile
  <2>1. pc \in Replacing /\ pc' = pc
    BY <1>22, ReplaceEffect
  <2>2. PICK f \in todo : /\ todo' = todo \ {f} /\ live'[f] = Source(pc)[f]
                         /\ \A g \in File \ {f} : live'[g] = live[g]
    BY <1>22, ReplaceEffect
  <2>3. saved' = saved /\ before' = before /\ incoming' = incoming
    BY <1>22, ReplaceEffect
  <2>4. \A g \in InData \ {f} : live'[g] = live[g]
    BY <2>2 DEF InData
  <2>5. Source(pc)' = Source(pc)
    BY <2>1, <2>3 DEF Source
  <2>6. f \in File /\ pc # "restored" /\ pc # "rolled back"
    BY <1>0, <2>1 DEF Replacing, Removing, Copying, Undoing
  <2>7. pc \in {"remove data", "undo remove data"} => Source(pc) = Gone
    BY DEF Source
  <2>8. QED
    BY <1>0, <2>1, <2>2, <2>4, <2>5, <2>6, <2>7 DEF FilesSound
<1>23. CASE NextPhase
  <2>1. /\ pc \in Replacing /\ todo = {} /\ pc' = After(pc)[1] /\ todo' = After(pc)[2]
        /\ live' = live /\ before' = before /\ incoming' = incoming
    BY <1>23 DEF NextPhase
  <2>2. CASE pc \in {"remove config", "copy config", "undo remove config", "undo copy config"}
    BY <2>1, <2>2 DEF After, FilesSound
  <2>3. CASE pc \in {"remove data", "undo remove data"}
    BY <1>0, <2>1, <2>3 DEF After, FilesSound
  <2>4. CASE pc = "copy data"
    BY <1>0, <2>1, <2>4 DEF After, FilesSound, Source
  <2>5. CASE pc = "undo copy data"
    BY <1>0, <2>1, <2>5 DEF After, FilesSound, Source, ReplaceSound, Replacing, Undoing
  <2>6. QED
    BY <2>1, <2>2, <2>3, <2>4, <2>5 DEF Replacing, Removing, Copying, Undoing
<1>24. CASE ReplaceFails
  BY <1>24, <1>0 DEF ReplaceFails, Removing, Copying, FilesSound, Replacing, Undoing,
     Merging, InData, File, InConfig, outside, copies, task, save
<1>25. CASE UndoFails
  BY <1>25, <1>0 DEF UndoFails, Undoing, FilesSound, Replacing, Removing, Copying, Merging,
     InData, File, InConfig, outside, copies, task, save
<1>26. CASE Reopen
  BY <1>26, <1>0, ReopenEffect DEF FilesSound, Replacing, Removing, Copying, Undoing,
     Merging, InData, File, InConfig, SameData, SameRows, outside, copies, task, save
<1>27. CASE Stop
  BY <1>27, <1>0 DEF Stop, FilesSound, Replacing, Removing, Copying, Undoing, Merging,
     InData, File, InConfig, outside, copies, task, save
<1>28. CASE PrepareImport
  BY <1>28, <1>0 DEF PrepareImport, FilesSound, Replacing, Removing, Copying, Undoing,
     Merging, InData, File, InConfig, outside, copies, task, save
<1>29. CASE ApplyImport
  BY <1>29, <1>0 DEF ApplyImport, FilesSound, Replacing, Removing, Copying, Undoing,
     Merging, InData, File, InConfig, outside, copies, task, save
<1>30. CASE MergeStep
  BY <1>30, <1>0, MergeEffect DEF FilesSound, Replacing, Removing, Copying, Undoing,
     Merging, InData, File, InConfig, SameData, SameRows, outside, copies, task, save
<1>31. CASE EndImport
  BY <1>31, <1>0 DEF EndImport, FilesSound, Replacing, Removing, Copying, Undoing, Merging,
     InData, File, InConfig, outside, copies, task, save
<1>32. QED
  BY <1>1, <1>2, <1>3, <1>4, <1>5, <1>6, <1>7, <1>8, <1>9, <1>10, <1>11, <1>12, <1>13,
     <1>14, <1>15, <1>16, <1>17, <1>18, <1>19, <1>20, <1>21, <1>22, <1>23, <1>24, <1>25,
     <1>26, <1>27, <1>28, <1>29, <1>30, <1>31 DEF Next

\* Each action keeps what the import relies on: the tree before it and the
\* rows it brings.
LEMMA MergeSoundStep ==
  ASSUME IInv, Next
  PROVE  MergeSound'
<1>0. MergeSound /\ IncomingSound
  BY DEF IInv
<1>1. CASE Start
  BY <1>1, <1>0, StartEffect DEF MergeSound, Replacing, Removing, Copying, Undoing,
     Merging, SameData, SameRows, outside, copies, task, save
<1>2. CASE Identify
  BY <1>2, <1>0, IdentifyEffect DEF MergeSound, Replacing, Removing, Copying, Undoing,
     Merging, SameData, SameRows, outside, copies, task, save
<1>3. CASE StoreFingerprint
  BY <1>3, <1>0, FingerprintEffect DEF MergeSound, Replacing, Removing, Copying, Undoing,
     Merging, SameData, SameRows, outside, copies, task, save
<1>4. ASSUME NEW p \in Job, PrintOne(p)
      PROVE  MergeSound'
  BY <1>4, <1>0, PrintEffect DEF MergeSound, Replacing, Removing, Copying, Undoing,
     Merging, SameData, SameRows, outside, copies, task, save
<1>5. ASSUME NEW p \in Job, RecoverPrint(p)
      PROVE  MergeSound'
  BY <1>5, <1>0, PrintEffect DEF MergeSound, Replacing, Removing, Copying, Undoing,
     Merging, SameData, SameRows, outside, copies, task, save
<1>6. ASSUME NEW p \in Job, DiscardPrint(p)
      PROVE  MergeSound'
  BY <1>6, <1>0, DiscardEffect DEF MergeSound, Replacing, Removing, Copying, Undoing,
     Merging, SameData, SameRows, outside, copies, task, save
<1>7. CASE LeaveUnsettled
  BY <1>7, <1>0, UnsettledEffect DEF MergeSound, Replacing, Removing, Copying, Undoing,
     Merging, SameData, SameRows, outside, copies, task, save
<1>8. CASE Settle
  BY <1>8, <1>0, UnsettledEffect DEF MergeSound, Replacing, Removing, Copying, Undoing,
     Merging, SameData, SameRows, outside, copies, task, save
<1>9. CASE LoseSettings
  BY <1>9, <1>0, FingerprintEffect DEF MergeSound, Replacing, Removing, Copying, Undoing,
     Merging, SameData, SameRows, outside, copies, task, save
<1>10. CASE AdoptPresentSecret
  BY <1>10, <1>0, FingerprintEffect DEF MergeSound, Replacing, Removing, Copying, Undoing,
     Merging, SameData, SameRows, outside, copies, task, save
<1>11. CASE LoadPreferences
  BY <1>11, <1>0 DEF LoadPreferences, MergeSound, Replacing, Removing, Copying, Undoing,
     Merging, outside, copies, task, save
<1>12. CASE StorePreferences
  BY <1>12, <1>0, FingerprintEffect DEF MergeSound, Replacing, Removing, Copying, Undoing,
     Merging, SameData, SameRows, outside, copies, task, save
<1>13. CASE CreateBackup
  BY <1>13, <1>0 DEF CreateBackup, MergeSound, Replacing, Removing, Copying, Undoing,
     Merging, outside, copies, task, save
<1>14. CASE WriteBackup
  BY <1>14, <1>0 DEF WriteBackup, Portable, MergeSound, Replacing, Removing, Copying,
     Undoing, Merging, outside, copies, task, save
<1>15. CASE FinishBackup
  BY <1>15, <1>0 DEF FinishBackup, MergeSound, Replacing, Removing, Copying, Undoing,
     Merging, outside, copies, task, save
<1>16. CASE ChooseBackup
  BY <1>16, <1>0 DEF ChooseBackup, Backups, MergeSound, Replacing, Removing, Copying,
     Undoing, Merging, outside, copies, task, save
<1>17. CASE AnswerNo
  BY <1>17, <1>0 DEF AnswerNo, MergeSound, Replacing, Removing, Copying, Undoing, Merging,
     outside, copies, task, save
<1>18. CASE ConfirmRestore
  BY <1>18, <1>0 DEF ConfirmRestore, MergeSound, Replacing, Removing, Copying, Undoing,
     Merging, outside, copies, task, save
<1>19. CASE MigrateToShared
  BY <1>19, <1>0 DEF MigrateToShared, Portable, MergeSound, Replacing, Removing, Copying,
     Undoing, Merging, outside, copies, task, save
<1>20. CASE Stage
  BY <1>20, <1>0 DEF Stage, Rollback, MergeSound, Replacing, Removing, Copying, Undoing,
     Merging, outside, copies, task, save
<1>21. CASE StageFails
  BY <1>21, <1>0 DEF StageFails, MergeSound, Replacing, Removing, Copying, Undoing,
     Merging, outside, copies, task, save
<1>22. CASE ReplaceFile
  BY <1>22, <1>0, ReplaceEffect DEF MergeSound, Replacing, Removing, Copying, Undoing,
     Merging, SameData, SameRows, outside, copies, task, save
<1>23. CASE NextPhase
  BY <1>23, <1>0 DEF NextPhase, After, Replacing, Removing, Copying, Undoing, MergeSound,
     Merging, outside, copies, task, save
<1>24. CASE ReplaceFails
  BY <1>24, <1>0 DEF ReplaceFails, Removing, Copying, MergeSound, Replacing, Undoing,
     Merging, outside, copies, task, save
<1>25. CASE UndoFails
  BY <1>25, <1>0 DEF UndoFails, Undoing, MergeSound, Replacing, Removing, Copying, Merging,
     outside, copies, task, save
<1>26. CASE Reopen
  BY <1>26, <1>0, ReopenEffect DEF MergeSound, Replacing, Removing, Copying, Undoing,
     Merging, SameData, SameRows, outside, copies, task, save
<1>27. CASE Stop
  BY <1>27, <1>0 DEF Stop, MergeSound, Replacing, Removing, Copying, Undoing, Merging,
     outside, copies, task, save
<1>28. CASE PrepareImport
  BY <1>28, <1>0 DEF PrepareImport, MergeSound, Replacing, Removing, Copying, Undoing,
     Merging, outside, copies, task, save
<1>29. CASE ApplyImport
  <2>1. /\ live' = live /\ incoming' = incoming /\ OneIdentity(live)
        /\ \/ pc' = "unmerged"
           \/ before' = live /\ pc' = "set rows" /\ live.key = incoming.key
           \/ before' = live /\ pc' = "set key" /\ live.rows = {}
    BY <1>29 DEF ApplyImport, Admits, IInv, RowsUnderOneKey
  <2>2. QED
    BY <2>1, LiveIsTree DEF MergeSound, Merging
<1>30. CASE MergeStep
  BY <1>30, <1>0, MergeEffect DEF MergeSound, Replacing, Removing, Copying, Undoing,
     Merging, SameData, SameRows, outside, copies, task, save
<1>31. CASE EndImport
  BY <1>31, <1>0 DEF EndImport, MergeSound, Replacing, Removing, Copying, Undoing, Merging,
     outside, copies, task, save
<1>32. QED
  BY <1>1, <1>2, <1>3, <1>4, <1>5, <1>6, <1>7, <1>8, <1>9, <1>10, <1>11, <1>12, <1>13,
     <1>14, <1>15, <1>16, <1>17, <1>18, <1>19, <1>20, <1>21, <1>22, <1>23, <1>24, <1>25,
     <1>26, <1>27, <1>28, <1>29, <1>30, <1>31 DEF Next


-----------------------------------------------------------------------------
(* What holds a print                                                      *)

\* A tree that holds no less than another holds its prints.
LEMMA HoldsFrom ==
  ASSUME NEW s, NEW t, NEW p, Holds(s, p), s.rows \subseteq t.rows,
         p \in s.markers => p \in t.markers,
         s.facts # None /\ p \in s.facts => t.facts # None /\ p \in t.facts
  PROVE  Holds(t, p)
  BY DEF Holds, Stored

\* No print is lost by a step after which each is still held somewhere.
LEMMA LossKept ==
  ASSUME LossSound, made' = made, rollbacks \subseteq rollbacks',
         \A p \in made : Holds(Holder, p) =>
            Holds(Holder', p) \/ \E t \in rollbacks' : Holds(t, p)
  PROVE  LossSound'
  BY DEF LossSound

\* Outside a replacement and an import the tree in use is the holder.
LEMMA LiveHolds ==
  ASSUME LossSound, made' = made, rollbacks' = rollbacks, Holder = live, Holder' = live',
         \A p \in made : Holds(live, p) => Holds(live', p)
  PROVE  LossSound'
  BY LossKept

\* A tree is never the absence of a tree.
LEMMA TreeIsSome == ASSUME NEW t \in Tree PROVE t # None
  BY DataRootAssumption

\* Each action keeps every print that was made.
LEMMA LossStep ==
  ASSUME IInv, Next
  PROVE  LossSound'
<1>0. LossSound /\ ReplaceSound /\ MergeSound /\ made \subseteq Job
  BY DEF IInv, TypeOK
<1>1. CASE Start
  <2>1. made' = made /\ rollbacks' = rollbacks /\ Holder = live /\ Holder' = live'
    BY <1>1, StartEffect DEF Holder, Replacing, Removing, Copying, Undoing, Merging
  <2>2. ASSUME NEW q \in made, Holds(live, q)
        PROVE  Holds(live', q)
    BY <1>1, StartEffect, <1>0, <2>2, HoldsFrom, StoredIsSet, LiveIsTree DEF SameRows,
       Stored
  <2>3. QED
    BY <1>0, <2>1, <2>2, LiveHolds
<1>2. CASE Identify
  <2>1. made' = made /\ rollbacks' = rollbacks /\ Holder = live /\ Holder' = live'
    BY <1>2, IdentifyEffect DEF Holder, Replacing, Removing, Copying, Undoing, Merging
  <2>2. ASSUME NEW q \in made, Holds(live, q)
        PROVE  Holds(live', q)
    BY <1>2, IdentifyEffect, <1>0, <2>2, HoldsFrom
  <2>3. QED
    BY <1>0, <2>1, <2>2, LiveHolds
<1>3. CASE StoreFingerprint
  <2>1. /\ SameData /\ made' = made /\ rollbacks' = rollbacks /\ saved' = saved
        /\ before' = before /\ (pc' = pc \/ (pc = "fingerprint" /\ pc' = "idle"))
    BY <1>3, FingerprintEffect
  <2>2. \A q : Holds(live, q) => Holds(live', q)
    BY <2>1, HoldsFrom DEF SameData, SameRows
  <2>3. Holder' = Holder \/ (Holder = live /\ Holder' = live')
    BY <2>1 DEF Holder, Replacing, Removing, Copying, Undoing, Merging
  <2>4. QED
    BY <1>0, <2>1, <2>2, <2>3, LossKept
<1>4. ASSUME NEW p \in Job, PrintOne(p)
      PROVE  LossSound'
  <2>1. /\ rollbacks' = rollbacks /\ Holder = live /\ Holder' = live'
        /\ made' = made \/ (made' = made \cup {p} /\ Holds(live', p))
    BY <1>4, PrintEffect DEF Holder, Replacing, Removing, Copying, Undoing, Merging
  <2>2. ASSUME NEW q \in made, Holds(live, q)
        PROVE  Holds(live', q)
    <3>1. CASE q = p /\ made' # made
      BY <2>1, <3>1
    <3>2. CASE q = p /\ made' = made
      <4>1. p \in made /\ ((live'.facts = live.facts /\ live.markers \subseteq live'.markers) \/ Holds(live', p))
        BY <1>4, <2>2, <3>2, PrintEffect
      <4>2. live.rows \subseteq live'.rows /\ live'.facts # None
        BY <1>4, PrintEffect
      <4>3. QED
        BY <2>2, <3>2, <4>1, <4>2, HoldsFrom
    <3>3. CASE q # p
      BY <1>4, <1>0, <2>2, <3>3, PrintEffect, HoldsFrom
    <3>4. QED
      BY <3>1, <3>2, <3>3
  <2>3. QED
    BY <1>0, <2>1, <2>2 DEF LossSound
<1>5. ASSUME NEW p \in Job, RecoverPrint(p)
      PROVE  LossSound'
  <2>1. /\ rollbacks' = rollbacks /\ Holder = live /\ Holder' = live'
        /\ made' = made \/ (made' = made \cup {p} /\ Holds(live', p))
    BY <1>5, PrintEffect DEF Holder, Replacing, Removing, Copying, Undoing, Merging
  <2>2. ASSUME NEW q \in made, Holds(live, q)
        PROVE  Holds(live', q)
    <3>1. CASE q = p /\ made' # made
      BY <2>1, <3>1
    <3>2. CASE q = p /\ made' = made
      <4>1. p \in made /\ ((live'.facts = live.facts /\ live.markers \subseteq live'.markers) \/ Holds(live', p))
        BY <1>5, <2>2, <3>2, PrintEffect
      <4>2. live.rows \subseteq live'.rows /\ live'.facts # None
        BY <1>5, PrintEffect
      <4>3. QED
        BY <2>2, <3>2, <4>1, <4>2, HoldsFrom
    <3>3. CASE q # p
      BY <1>5, <1>0, <2>2, <3>3, PrintEffect, HoldsFrom
    <3>4. QED
      BY <3>1, <3>2, <3>3
  <2>3. QED
    BY <1>0, <2>1, <2>2 DEF LossSound
<1>6. ASSUME NEW p \in Job, DiscardPrint(p)
      PROVE  LossSound'
  <2>1. made' = made /\ rollbacks' = rollbacks /\ Holder = live /\ Holder' = live'
    BY <1>6, DiscardEffect DEF Holder, Replacing, Removing, Copying, Undoing, Merging
  <2>2. ASSUME NEW q \in made, Holds(live, q)
        PROVE  Holds(live', q)
    BY <1>6, DiscardEffect, <1>0, <2>2, HoldsFrom DEF SameRows, Holds
  <2>3. QED
    BY <1>0, <2>1, <2>2, LiveHolds
<1>7. CASE LeaveUnsettled
  <2>1. made' = made /\ rollbacks' = rollbacks /\ Holder = live /\ Holder' = live'
    BY <1>7, UnsettledEffect DEF Holder, Replacing, Removing, Copying, Undoing, Merging
  <2>2. ASSUME NEW q \in made, Holds(live, q)
        PROVE  Holds(live', q)
    BY <1>7, UnsettledEffect, <1>0, <2>2, HoldsFrom DEF SameRows
  <2>3. QED
    BY <1>0, <2>1, <2>2, LiveHolds
<1>8. CASE Settle
  <2>1. made' = made /\ rollbacks' = rollbacks /\ Holder = live /\ Holder' = live'
    BY <1>8, UnsettledEffect DEF Holder, Replacing, Removing, Copying, Undoing, Merging
  <2>2. ASSUME NEW q \in made, Holds(live, q)
        PROVE  Holds(live', q)
    BY <1>8, UnsettledEffect, <1>0, <2>2, HoldsFrom DEF SameRows
  <2>3. QED
    BY <1>0, <2>1, <2>2, LiveHolds
<1>9. CASE LoseSettings
  <2>1. /\ SameData /\ made' = made /\ rollbacks' = rollbacks /\ saved' = saved
        /\ before' = before /\ (pc' = pc \/ (pc = "fingerprint" /\ pc' = "idle"))
    BY <1>9, FingerprintEffect
  <2>2. \A q : Holds(live, q) => Holds(live', q)
    BY <2>1, HoldsFrom DEF SameData, SameRows
  <2>3. Holder' = Holder \/ (Holder = live /\ Holder' = live')
    BY <2>1 DEF Holder, Replacing, Removing, Copying, Undoing, Merging
  <2>4. QED
    BY <1>0, <2>1, <2>2, <2>3, LossKept
<1>10. CASE AdoptPresentSecret
  <2>1. /\ SameData /\ made' = made /\ rollbacks' = rollbacks /\ saved' = saved
        /\ before' = before /\ (pc' = pc \/ (pc = "fingerprint" /\ pc' = "idle"))
    BY <1>10, FingerprintEffect
  <2>2. \A q : Holds(live, q) => Holds(live', q)
    BY <2>1, HoldsFrom DEF SameData, SameRows
  <2>3. Holder' = Holder \/ (Holder = live /\ Holder' = live')
    BY <2>1 DEF Holder, Replacing, Removing, Copying, Undoing, Merging
  <2>4. QED
    BY <1>0, <2>1, <2>2, <2>3, LossKept
<1>11. CASE LoadPreferences
  BY <1>11, <1>0 DEF LoadPreferences, LossSound, Replacing, Removing, Copying, Undoing,
     Merging, Holder, outside, copies, task, save
<1>12. CASE StorePreferences
  <2>1. /\ SameData /\ made' = made /\ rollbacks' = rollbacks /\ saved' = saved
        /\ before' = before /\ (pc' = pc \/ (pc = "fingerprint" /\ pc' = "idle"))
    BY <1>12, FingerprintEffect
  <2>2. \A q : Holds(live, q) => Holds(live', q)
    BY <2>1, HoldsFrom DEF SameData, SameRows
  <2>3. Holder' = Holder \/ (Holder = live /\ Holder' = live')
    BY <2>1 DEF Holder, Replacing, Removing, Copying, Undoing, Merging
  <2>4. QED
    BY <1>0, <2>1, <2>2, <2>3, LossKept
<1>13. CASE CreateBackup
  BY <1>13, <1>0 DEF CreateBackup, LossSound, Replacing, Removing, Copying, Undoing,
     Merging, Holder, outside, copies, task, save
<1>14. CASE WriteBackup
  BY <1>14, <1>0 DEF WriteBackup, Portable, LossSound, Replacing, Removing, Copying,
     Undoing, Merging, Holder, outside, copies, task, save
<1>15. CASE FinishBackup
  BY <1>15, <1>0 DEF FinishBackup, LossSound, Replacing, Removing, Copying, Undoing,
     Merging, Holder, outside, copies, task, save
<1>16. CASE ChooseBackup
  BY <1>16, <1>0 DEF ChooseBackup, Backups, LossSound, Replacing, Removing, Copying,
     Undoing, Merging, Holder, outside, copies, task, save
<1>17. CASE AnswerNo
  BY <1>17, <1>0 DEF AnswerNo, LossSound, Replacing, Removing, Copying, Undoing, Merging,
     Holder, outside, copies, task, save
<1>18. CASE ConfirmRestore
  BY <1>18, <1>0 DEF ConfirmRestore, LossSound, Replacing, Removing, Copying, Undoing,
     Merging, Holder, outside, copies, task, save
<1>19. CASE MigrateToShared
  BY <1>19, <1>0 DEF MigrateToShared, Portable, LossSound, Replacing, Removing, Copying,
     Undoing, Merging, Holder, outside, copies, task, save
<1>20. CASE Stage
  BY <1>20, <1>0 DEF Stage, Rollback, LossSound, Replacing, Removing, Copying, Undoing,
     Merging, Holder, outside, copies, task, save
<1>21. CASE StageFails
  BY <1>21, <1>0 DEF StageFails, LossSound, Replacing, Removing, Copying, Undoing, Merging,
     Holder, outside, copies, task, save
<1>22. CASE ReplaceFile
  BY <1>22, <1>0, ReplaceEffect DEF LossSound, Replacing, Removing, Copying, Undoing,
     Merging, Holder, SameData, SameRows, outside, copies, task, save
<1>23. CASE NextPhase
  <2>1. /\ pc \in Replacing /\ made' = made /\ rollbacks' = rollbacks /\ live' = live
        /\ before' = before
        /\ saved' = IF pc' = "rolled back" THEN None ELSE saved
    BY <1>23 DEF NextPhase
  <2>2. Holder = saved /\ saved = before
    BY <1>0, <2>1 DEF Holder, ReplaceSound
  <2>3. CASE pc' = "rolled back"
    <3>1. /\ live'.rows = before.rows /\ live'.markers = before.markers
          /\ live'.facts = before.facts
      BY <2>1, <2>3, FilesStep DEF FilesSound, InData, InConfig, File
    <3>2. Holder' = live'
      BY <2>3 DEF Holder, Replacing, Removing, Copying, Undoing, Merging
    <3>3. \A q : Holds(before, q) => Holds(live', q)
      BY <3>1, HoldsFrom
    <3>4. QED
      BY <1>0, <2>1, <2>2, <3>2, <3>3, LossKept
  <2>4. CASE pc' # "rolled back"
    <3>1. Holder' = saved
      BY <1>23, <2>1, <2>4 DEF NextPhase, After, Holder, Replacing, Removing, Copying,
         Undoing
    <3>2. QED
      BY <1>0, <2>1, <2>2, <3>1, LossKept
  <2>5. QED
    BY <2>3, <2>4
<1>24. CASE ReplaceFails
  BY <1>24, <1>0 DEF ReplaceFails, Removing, Copying, LossSound, Replacing, Undoing,
     Merging, Holder, outside, copies, task, save
<1>25. CASE UndoFails
  BY <1>25, <1>0 DEF UndoFails, Undoing, LossSound, Replacing, Removing, Copying, Merging,
     Holder, outside, copies, task, save
<1>26. CASE Reopen
  <2>1. made' = made /\ rollbacks' = rollbacks /\ Holder = live /\ Holder' = live'
    BY <1>26, ReopenEffect DEF Holder, Replacing, Removing, Copying, Undoing, Merging
  <2>2. ASSUME NEW q \in made, Holds(live, q)
        PROVE  Holds(live', q)
    BY <1>26, ReopenEffect, <1>0, <2>2, HoldsFrom, StoredIsSet, LiveIsTree DEF SameRows,
       Stored
  <2>3. QED
    BY <1>0, <2>1, <2>2, LiveHolds
<1>27. CASE Stop
  <2>1. /\ made' = made /\ rollbacks' = rollbacks \cup ({saved} \ {None}) /\ live' = live
        /\ Holder' = live
    BY <1>27 DEF Stop, Holder, Replacing, Removing, Copying, Undoing, Merging
  <2>2. CASE pc \in {"restored"} \cup Replacing
    <3>1. Holder = saved /\ saved \in rollbacks'
      BY <1>0, <2>1, <2>2, TreeIsSome DEF Holder, ReplaceSound
    <3>2. QED
      BY <1>0, <2>1, <3>1, LossKept
  <2>3. CASE pc \in Merging
    <3>1. \A q : Holds(before, q) => Holds(live, q)
      BY <1>0, <2>3, HoldsFrom DEF MergeSound
    <3>2. Holder = before
      BY <2>3 DEF Holder, Replacing, Removing, Copying, Undoing, Merging
    <3>3. QED
      BY <1>0, <2>1, <3>1, <3>2, LossKept
  <2>4. CASE pc \notin {"restored"} \cup Replacing \cup Merging
    BY <1>0, <2>1, <2>4, LossKept DEF Holder
  <2>5. QED
    BY <2>2, <2>3, <2>4
<1>28. CASE PrepareImport
  BY <1>28, <1>0 DEF PrepareImport, LossSound, Replacing, Removing, Copying, Undoing,
     Merging, Holder, outside, copies, task, save
<1>29. CASE ApplyImport
  BY <1>29, <1>0 DEF ApplyImport, LossSound, Replacing, Removing, Copying, Undoing,
     Merging, Holder, outside, copies, task, save
<1>30. CASE MergeStep
  <2>1. /\ pc \in Merging /\ pc' \in Merging \cup {"merged", "unmerged"} /\ Holder = before
        /\ made' = made /\ rollbacks' = rollbacks /\ before' = before
    BY <1>30, MergeEffect DEF Holder, Replacing, Removing, Copying, Undoing, Merging
  <2>2. CASE pc' \in Merging
    <3>1. Holder' = before
      BY <2>1, <2>2 DEF Holder, Replacing, Removing, Copying, Undoing, Merging
    <3>2. QED
      BY <1>0, <2>1, <3>1, LossKept
  <2>3. CASE pc' \in {"merged", "unmerged"}
    <3>1. Holder' = live'
      BY <2>3 DEF Holder, Replacing, Removing, Copying, Undoing, Merging
    <3>2. /\ before.rows \subseteq live'.rows /\ before.markers = live'.markers
          /\ before.facts = live'.facts
      BY <1>30, <1>0, <2>1, <2>3, MergeEffect DEF MergeSound, SameRows
    <3>3. \A q : Holds(before, q) => Holds(live', q)
      BY <3>2, HoldsFrom
    <3>4. QED
      BY <1>0, <2>1, <3>1, <3>3, LossKept
  <2>4. QED
    BY <2>1, <2>2, <2>3
<1>31. CASE EndImport
  BY <1>31, <1>0 DEF EndImport, LossSound, Replacing, Removing, Copying, Undoing, Merging,
     Holder, outside, copies, task, save
<1>32. QED
  BY <1>1, <1>2, <1>3, <1>4, <1>5, <1>6, <1>7, <1>8, <1>9, <1>10, <1>11, <1>12, <1>13,
     <1>14, <1>15, <1>16, <1>17, <1>18, <1>19, <1>20, <1>21, <1>22, <1>23, <1>24, <1>25,
     <1>26, <1>27, <1>28, <1>29, <1>30, <1>31 DEF Next


-----------------------------------------------------------------------------
(* The invariant and the properties                                        *)

\* The initial state satisfies the invariant.
LEMMA InitHolds == ASSUME Init PROVE IInv
<1>1. TypeOK
  <2>1. "off" \in Step /\ 0 \in 0..MaxSaves
    BY SavesBound DEF Step
  <2>2. QED
    BY <2>1, GoneIsTree DEF Init, TypeOK
<1>2. RowsUnderOneKey /\ IncomingSound /\ OutsideSound /\ ReplaceSound
  BY DEF Init, RowsUnderOneKey, OneIdentity, Gone, IncomingSound, OutsideSound, ReplaceSound,
         Replacing, Removing, Copying, Undoing, Merging
<1>3. FilesSound /\ MergeSound /\ HandleSound /\ LossSound
  BY DEF Init, FilesSound, MergeSound, HandleSound, LossSound,
         Replacing, Removing, Copying, Undoing, Merging
<1>4. QED
  BY <1>1, <1>2, <1>3 DEF IInv

\* Each action preserves the invariant.
LEMMA NextHolds == ASSUME IInv, Next PROVE IInv'
  BY TypeStep, RowsStep, IncomingStep, OutsideStep, ReplaceSoundStep, FilesStep,
     MergeSoundStep, HandleStep, LossStep DEF IInv

\* A stuttering step preserves the invariant.
LEMMA StutterHolds == ASSUME IInv, UNCHANGED vars PROVE IInv'
  <1>1. /\ live' = live /\ backup' = backup /\ temp' = temp /\ rollbacks' = rollbacks
        /\ saved' = saved /\ before' = before /\ incoming' = incoming /\ pc' = pc
        /\ todo' = todo /\ dbOpen' = dbOpen /\ prefs' = prefs /\ saves' = saves /\ made' = made
    BY DEF vars, outside, copies, task, save
  <1>2. /\ TypeOK' /\ RowsUnderOneKey' /\ IncomingSound' /\ OutsideSound'
    BY <1>1 DEF IInv, TypeOK, RowsUnderOneKey, IncomingSound, OutsideSound
  <1>3. ReplaceSound' /\ MergeSound' /\ HandleSound'
    BY <1>1 DEF IInv, ReplaceSound, MergeSound, HandleSound
  <1>4. FilesSound'
    BY <1>1 DEF IInv, FilesSound, Source
  <1>5. LossSound'
    BY <1>1 DEF IInv, LossSound, Holder
  <1>6. QED
    BY <1>2, <1>3, <1>4, <1>5 DEF IInv

\* The state of the data root stays inductively sound.
THEOREM InvariantHolds == Spec => []IInv
<1>1. IInv /\ [Next]_vars => IInv'
  BY NextHolds, StutterHolds
<1>2. QED
  BY <1>1, InitHolds, PTL DEF Spec

\* Every variable keeps its type (module DataRoot's TypeOK).
THEOREM TypeCorrect == Spec => []TypeOK
<1>1. IInv => TypeOK
  BY DEF IInv
<1>2. QED
  BY <1>1, InvariantHolds, PTL

\* The rows in use are always of the identity of the key in use: at every point of
\* _restore_zip, its way back, apply_import, its way back, and after a crash there.
THEOREM RowsAlwaysUnderOneKey == Spec => []RowsUnderOneKey
<1>1. IInv => RowsUnderOneKey
  BY DEF IInv
<1>2. QED
  BY <1>1, InvariantHolds, PTL

\* No print entered in the history is ever in none of the tree in use, the rollback
\* copy of a restore in progress and the rollback folders left behind.
THEOREM NothingEverLost == Spec => []NothingLost
<1>1. IInv => NothingLost
  <2> SUFFICES ASSUME IInv, NEW p \in made
               PROVE  \E t \in Kept : Holds(t, p)
    BY DEF NothingLost
  <2>1. LossSound /\ ReplaceSound /\ MergeSound
    BY DEF IInv
  <2>2. CASE \E t \in rollbacks : Holds(t, p)
    BY <2>2 DEF Kept
  <2>3. CASE Holds(Holder, p)
    <3>1. CASE pc \in {"restored"} \cup Replacing
      BY <2>1, <2>3, <3>1, TreeIsSome DEF Holder, ReplaceSound, Kept
    <3>2. CASE pc \in Merging
      <4>1. Holder = before
        BY <3>2 DEF Holder, Replacing, Removing, Copying, Undoing, Merging
      <4>2. Holds(live, p)
        BY <2>1, <2>3, <3>2, <4>1, HoldsFrom DEF MergeSound
      <4>3. QED
        BY <4>2 DEF Kept
    <3>3. CASE pc \notin {"restored"} \cup Replacing \cup Merging
      BY <2>3, <3>3 DEF Holder, Kept
    <3>4. QED
      BY <3>1, <3>2, <3>3
  <2>4. QED
    BY <2>1, <2>2, <2>3 DEF LossSound
<1>2. QED
  BY <1>1, InvariantHolds, PTL

\* Whenever the Tk thread holds the SQLite handle its file is there.
THEOREM HandleAlwaysHasFile == Spec => []HandleHasFile
<1>1. IInv => HandleHasFile
  BY DEF IInv, HandleSound, HandleHasFile
<1>2. QED
  BY <1>1, InvariantHolds, PTL

\* A restore ends with the data directory of the backup or with that of before.
THEOREM RestoreAlwaysWhole == Spec => []RestoreIsWhole
<1>1. IInv => RestoreIsWhole
  <2> SUFFICES ASSUME IInv PROVE RestoreIsWhole
    OBVIOUS
  <2>1. FilesSound /\ ReplaceSound
    BY DEF IInv
  <2>2. ASSUME pc = "restored", live.fp = incoming.fp, live.rows # {}
        PROVE  Ready(live)
    <3>1. live.rows = incoming.rows /\ live.key = incoming.key
      BY <2>1, <2>2 DEF FilesSound, InData, InConfig, File
    <3>2. QED
      BY <2>1, <2>2, <3>1 DEF ReplaceSound, Restorable, Ready
  <2>3. QED
    BY <2>1, <2>2 DEF FilesSound, RestoreIsWhole
<1>2. QED
  BY <1>1, InvariantHolds, PTL

\* No restore, migration or import removes a marker or a request from under it.
THEOREM UnsettledAlwaysStays == Spec => UnsettledStays
<1>1. IInv /\ [Next]_vars =>
        [\A u \in Unsettled(live) \ Unsettled(live)' :
            Settle \/ \E p \in Job : RecoverPrint(p) \/ DiscardPrint(p)]_vars
  <2> SUFFICES ASSUME IInv, Next, ~Settle, ~ \E p \in Job : RecoverPrint(p) \/ DiscardPrint(p)
               PROVE  Unsettled(live) \subseteq Unsettled(live')
    OBVIOUS
  <2>1. CASE ReplaceFile
    BY <2>1, ReplaceEffect DEF IInv, ReplaceSound
  <2>2. CASE Start \/ Reopen \/ Identify \/ MergeStep
    <3>1. live'.markers = live.markers /\ (live'.facts = live.facts \/ live'.facts = Stored(live))
      BY <2>2, StartEffect, ReopenEffect, IdentifyEffect, MergeEffect
    <3>2. QED
      BY <3>1, LiveIsTree, StoredIsSet DEF Unsettled, Stored
  <2>3. CASE \E p \in Job : PrintOne(p)
    BY <2>3, PrintEffect DEF Unsettled, Stored
  <2>4. CASE StoreFingerprint \/ LoseSettings \/ AdoptPresentSecret \/ StorePreferences
    BY <2>4, FingerprintEffect, SameDataSame
  <2>5. CASE LeaveUnsettled
    <3>1. live \in Tree /\ dbOpen /\ live.facts \in SUBSET (Job \cup {Remote}) /\ live.facts # None
      BY <2>5, LiveIsTree, TreeFields DEF LeaveUnsettled, Work, IInv, HandleSound
    <3>2. CASE live' = [live EXCEPT !.markers = @ \cup {Create}]
      BY <3>1, <3>2, OnlyMarkers DEF Unsettled, Stored
    <3>3. CASE live' = [live EXCEPT !.facts = @ \cup {Remote}]
      <4>1. live'.facts = live.facts \cup {Remote} /\ live'.markers = live.markers
        BY <3>1, <3>3, OnlyFacts
      <4>2. live'.facts # None
        BY <3>1, <4>1, SomeFacts
      <4>3. QED
        BY <3>1, <4>1, <4>2 DEF Unsettled, Stored
    <3>4. QED
      BY <2>5, <3>2, <3>3 DEF LeaveUnsettled, Work
  <2>6. CASE live' = live
    BY <2>6
  <2>7. QED
    BY <2>1, <2>2, <2>3, <2>4, <2>5, <2>6 DEF Next, LoadPreferences, CreateBackup, WriteBackup,
       FinishBackup, ChooseBackup, AnswerNo, ConfirmRestore, MigrateToShared, Stage, StageFails,
       NextPhase, ReplaceFails, UndoFails, Stop, PrepareImport, ApplyImport, EndImport
<1>2. QED
  BY <1>1, InvariantHolds, PTL DEF Spec, UnsettledStays

\* A backup that once reached the operator's destination stays whole and settled.
THEOREM LastBackupAlwaysGood == Spec => LastGoodBackup
<1>1. IInv /\ [Next]_vars =>
        [/\ backup # None => backup' # None
         /\ backup' # None => backup' # Torn /\ Unsettled(backup') = {}]_vars
  <2> SUFFICES ASSUME IInv, Next
               PROVE  /\ backup # None => backup' # None
                      /\ backup' # None => backup' # Torn /\ Unsettled(backup') = {}
    OBVIOUS
  <2>1. backup' # None => backup' # Torn /\ Unsettled(backup') = {}
    BY OutsideStep DEF OutsideSound, Validated
  <2>2. backup' = backup \/ backup' # None
    <3>1. CASE FinishBackup
      BY <3>1 DEF FinishBackup, Validated
    <3>2. CASE MergeStep \/ ReplaceFile \/ Reopen \/ Start \/ Identify
      BY <3>2, MergeEffect, ReplaceEffect, ReopenEffect, StartEffect, IdentifyEffect
    <3>3. CASE \E p \in Job : PrintOne(p) \/ RecoverPrint(p) \/ DiscardPrint(p)
      BY <3>3, PrintEffect, DiscardEffect
    <3>4. CASE LeaveUnsettled \/ Settle \/ StoreFingerprint \/ LoseSettings
               \/ AdoptPresentSecret \/ StorePreferences
      BY <3>4, UnsettledEffect, FingerprintEffect
    <3>5. QED
      BY <3>1, <3>2, <3>3, <3>4 DEF Next, outside, LoadPreferences, CreateBackup, WriteBackup,
         ChooseBackup, AnswerNo, ConfirmRestore, MigrateToShared, Stage, StageFails, NextPhase,
         ReplaceFails, UndoFails, Stop, PrepareImport, ApplyImport, EndImport
  <2>3. QED
    BY <2>1, <2>2
<1>2. QED
  BY <1>1, InvariantHolds, PTL DEF Spec, LastGoodBackup

=============================================================================
