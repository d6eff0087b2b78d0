------------------------- MODULE VoucherCreation_proofs -------------------------
(***************************************************************************)
(* Proofs about VoucherCreation for every set of vouchers, quantity and    *)
(* number of requests.  Numbering relates the intent to the request in     *)
(* progress; with the types it is inductive for any replies.  So are       *)
(* Existing, that rows are of vouchers that exist, and Replied, what the   *)
(* worker is about to record.  When replies are well formed two more       *)
(* are: Tracking (with it IInv) says what the steps of a creation know     *)
(* about the vouchers its reply confirmed, Barrier where the only open     *)
(* POST is remembered.  All of them together (OInv) carry the refinement   *)
(* of CreateOnce, from which NothingForgotten follows.                     *)
(***************************************************************************)
EXTENDS VoucherCreation, FiniteSetTheorems, TLAPS

\* Every item of a 201 reply and of a list is a voucher object.
WellFormedReplies == MalformedReplies = FALSE

\* Which request the intent names at each step of a creation or a decision.
Numbering ==
  /\ pc \in {"guarded", "armed"} => posts < MaxPosts
  /\ pc = "armed" => intent.post = posts + 1
  /\ pc \in {"listing", "created", "recorded"} => intent.post = posts
  /\ pc \in {"listing", "created"} => ~work.safe
  /\ pc \in {"asking", "associating", "rejecting", "decided"}
       => intent.post # 0
  /\ intent.post = 0 => intent = NoIntent

\* The pending intent is the request of the POST nobody has settled, and
\* each step that drops the intent is taken when no POST is open.
Barrier ==
  /\ open \subseteq {intent.post}
  /\ pc = "recorded" /\ work.safe => open = {}
  /\ pc \in {"armed", "refused", "stored", "unmarked", "decided", "closing"}
       => open = {}

\* The steps of the worker before the archive transaction.
InCreation == {"guarded", "armed", "uncertain", "refused", "listing", "created"}

\* The confirmed vouchers of the pending intent.
OfIntent == {v \in confirmed : maker[v] = intent.post}

\* The rows of S are known as made by this application.
Classified(S) == \A v \in S : row[v].origin = "APPLICATION"

\* At each step of the worker, what covers the vouchers of the intent: its
\* memory, the reporting marker or the rows.
Tracking ==
  /\ confirmed \subseteq remote
  /\ \A v \in confirmed : maker[v] \in 1..posts
  /\ pc \in InCreation => marker = {}
  /\ pc \in {"listing", "created", "recorded"} => OfIntent \subseteq work.created
  /\ pc = "recorded" => marker \subseteq work.created
  /\ pc = "recorded" /\ work.safe => work.created \subseteq marker
  /\ pc \in {"stored", "classified", "booting"} => Classified(marker)
  /\ pc \in {"stored", "unmarked"} => Classified(OfIntent)
  /\ pc \in {"armed", "refused"} => OfIntent = {}
  /\ pc = "decided" => intent.post \in settled \/ intent.post > posts

\* The inductive invariant.
IInv == TypeOK /\ Numbering /\ Tracking /\ ConfirmedTracked

-----------------------------------------------------------------------------
(* The operators on rows keep their type and their application vouchers.     *)

\* An upsert keeps the type of the rows.
LEMMA UpsertType ==
  ASSUME NEW r \in [Voucher -> Row], NEW S \in SUBSET Voucher
  PROVE  Upsert(r, S) \in [Voucher -> Row]
  BY DEF Upsert, NoRow, Row, PrintState

\* A classification keeps the type of the rows.
LEMMA MarkType ==
  ASSUME NEW r \in [Voucher -> Row], NEW S \in SUBSET Voucher
  PROVE  MarkApplicationCreated(r, S) \in [Voucher -> Row]
  BY DEF MarkApplicationCreated, Row, PrintState

\* An upsert keeps a row known as made by this application.
LEMMA UpsertKeeps ==
  ASSUME NEW r \in [Voucher -> Row], NEW S \in SUBSET Voucher,
         NEW v \in Voucher, r[v].origin = "APPLICATION"
  PROVE  Upsert(r, S)[v].origin = "APPLICATION"
  BY DEF Upsert

\* A classification marks its rows and keeps the marked ones.
LEMMA MarkKeeps ==
  ASSUME NEW r \in [Voucher -> Row], NEW S \in SUBSET Voucher,
         NEW v \in Voucher, v \in S \/ r[v].origin = "APPLICATION"
  PROVE  MarkApplicationCreated(r, S)[v].origin = "APPLICATION"
  BY DEF MarkApplicationCreated

-----------------------------------------------------------------------------
(* Type correctness.                                                        *)

\* The initial state is well typed.
LEMMA InitType == Init => TypeOK
<1> SUFFICES ASSUME Init PROVE TypeOK
  OBVIOUS
<1>1. intent \in Intent /\ posts \in 0..MaxPosts
  BY CreationAssumption DEF Init, NoIntent, Intent
<1>2. row \in [Voucher -> Row]
  BY DEF Init, NoRow, Row, PrintState
<1>3. work \in Work
  BY DEF Init, NoWork, Work
<1>4. maker \in [Voucher -> 0..MaxPosts]
  BY CreationAssumption DEF Init
<1>5. QED
  BY <1>1, <1>2, <1>3, <1>4 DEF Init, TypeOK, Steps

\* A verified list is well typed.
LEMMA VerifiedType ==
  ASSUME TypeOK, NEW R \in SUBSET Voucher
  PROVE  Verified(R) \in Work
<1>1. work \in Work /\ shown \subseteq Voucher /\ work.snapshot \subseteq Voucher
  BY DEF TypeOK, Work
<1>2. Omitted \subseteq Voucher
  BY DEF Omitted, Archived
<1>3. QED
  BY <1>1, <1>2 DEF Verified, Work

\* Every action keeps the types; the bound on posts needs Numbering.
LEMMA NextType ==
  ASSUME TypeOK, Numbering, [Next]_vars
  PROVE  TypeOK'
<1> USE CreationAssumption
        DEF TypeOK, Steps, CreateSteps, SyncSteps, DecideSteps, disk, memory,
            server, history
<1>0. /\ work.created \in SUBSET Voucher /\ work.snapshot \in SUBSET Voucher
      /\ work.safe \in BOOLEAN /\ work.refresh \in BOOLEAN
      /\ intent.post \in 0..MaxPosts
  BY DEF Work, Intent
<1>1. CASE ExternalCreate
  BY <1>1 DEF ExternalCreate
<1>2. CASE LateExecution
  BY <1>2 DEF LateExecution, Makes
<1>3. CASE Create
  BY <1>3 DEF Create, CreateAllowed
<1>4. CASE IntentWritten
  BY <1>4 DEF IntentWritten, Intent, Numbering
<1>5. CASE IntentRefused
  BY <1>5 DEF IntentRefused, ReleaseGuard
<1>5a. CASE TaskRefused
  <2>1. intent' \in Intent
    BY <1>5a DEF TaskRefused, DropIntent, NoIntent, Intent
  <2>2. QED
    BY <1>5a, <2>1 DEF TaskRefused, ReleaseGuard
<1>6. CASE PostConfirmed
  <2>1. PICK S \in SUBSET Voucher :
          /\ Makes(S, posts') /\ confirmed' = confirmed \cup S
          /\ work' = [NoWork EXCEPT !.created = S]
    BY <1>6 DEF PostConfirmed
  <2>2. posts' \in 1..MaxPosts
    BY <1>6 DEF PostConfirmed, Sent, Numbering
  <2>3. remote' \subseteq Voucher /\ maker' \in [Voucher -> 0..MaxPosts]
    BY <2>1, <2>2 DEF Makes
  <2>4. work' \in Work
    BY <2>1 DEF NoWork, Work
  <2>5. QED
    BY <1>6, <2>1, <2>2, <2>3, <2>4 DEF PostConfirmed
<1>7. CASE PostRefused
  BY <1>7 DEF PostRefused, Sent, Numbering
<1>8. CASE PostUncertain
  <2>1. posts' \in 1..MaxPosts
    BY <1>8 DEF PostUncertain, Sent, Numbering
  <2>2. remote' \subseteq Voucher /\ maker' \in [Voucher -> 0..MaxPosts]
    <3>1. CASE \E S \in SUBSET Voucher : Makes(S, posts')
      BY <2>1, <3>1 DEF Makes
    <3>2. CASE UNCHANGED <<remote, maker>>
      BY <3>2
    <3>3. QED
      BY <1>8, <3>1, <3>2 DEF PostUncertain
  <2>3. wire' \subseteq 1..MaxPosts
    BY <1>8, <2>1 DEF PostUncertain
  <2>4. open' \subseteq 1..MaxPosts
    BY <1>8, <2>1 DEF PostUncertain
  <2>5. QED
    BY <1>8, <2>1, <2>2, <2>3, <2>4 DEF PostUncertain
<1>9. CASE PostUnmapped
  BY <1>9 DEF PostUnmapped, Sent, Makes, Numbering
<1>9a. CASE ListUnmapped
  BY <1>9a DEF ListUnmapped
<1>10. CASE UncertainListed
  BY <1>10 DEF UncertainListed
<1>11. CASE CreateListed
  <2>1. work' \in Work
    <3>1. CASE \E L \in SUBSET remote :
                 work' = [work EXCEPT !.snapshot = L \cup work.created,
                                      !.complete = work.created \subseteq L,
                                      !.observed = TRUE]
      <4>1. PICK L \in SUBSET remote :
              work' = [work EXCEPT !.snapshot = L \cup work.created,
                                   !.complete = work.created \subseteq L,
                                   !.observed = TRUE]
        BY <3>1
      <4>2. /\ L \cup work.created \in SUBSET Voucher
            /\ (work.created \subseteq L) \in BOOLEAN
        BY <1>0
      <4>3. QED
        BY <4>1, <4>2 DEF Work
    <3>2. CASE work' = [work EXCEPT !.snapshot = shown \cup work.created]
      BY <3>2, <1>0 DEF Work
    <3>3. QED
      BY <1>11, <3>1, <3>2 DEF CreateListed
  <2>2. QED
    BY <1>11, <2>1 DEF CreateListed
<1>12. CASE MarkerWritten
  BY <1>12 DEF MarkerWritten, Work
<1>13. CASE CreateStored
  <2> DEFINE U == Upsert(row, IF work.observed THEN work.snapshot
                                              ELSE work.created)
  <2>1. U \in [Voucher -> Row]
    BY <1>0, UpsertType
  <2>2. row' = MarkApplicationCreated(U, work.created)
    BY <1>13 DEF CreateStored
  <2>3. row' \in [Voucher -> Row]
    <3> HIDE DEF U
    <3> QED
      BY <1>0, <2>1, <2>2, MarkType
  <2>4. QED
    BY <1>13, <2>3 DEF CreateStored
<1>14. CASE CreateNotStored
  BY <1>14 DEF CreateNotStored, DropIntent, NoIntent, Intent
<1>15. CASE MarkerCleared
  BY <1>15 DEF MarkerCleared
<1>16. CASE IntentCleared
  BY <1>16 DEF IntentCleared, DropIntent, NoIntent, Intent
<1>17. CASE CreateCompleted
  BY <1>17 DEF CreateCompleted, ReleaseGuard, NoWork, Work
<1>18. CASE CreateFailed
  <2>1. intent' \in Intent
    BY <1>18 DEF CreateFailed, DropIntent, NoIntent, Intent
  <2>2. QED
    BY <1>18, <2>1 DEF CreateFailed, ReleaseGuard, NoWork, Work
<1>19. CASE SyncListed
  BY <1>19 DEF SyncListed, NoWork, Work
<1>20. CASE SyncFailed
  BY <1>20 DEF SyncFailed
<1>21. CASE SyncArchived
  <2>1. PICK R \in SUBSET Omitted :
          work' = Verified(R) /\ row' = Upsert(row, work.snapshot \cup R)
    BY <1>21 DEF SyncArchived
  <2>2. R \in SUBSET Voucher
    BY <2>1 DEF Omitted, Archived
  <2>3. work' \in Work
    BY <1>0, <2>1, <2>2, VerifiedType
  <2>4. row' \in [Voucher -> Row]
    BY <1>0, <2>1, <2>2, UpsertType
  <2>5. QED
    BY <1>21, <2>3, <2>4 DEF SyncArchived
<1>22. CASE SyncNotArchived
  <2>1. work' \in Work
    BY <1>22, VerifiedType DEF SyncNotArchived, Omitted, Archived
  <2>2. QED
    BY <1>22, <2>1 DEF SyncNotArchived
<1>23. CASE MarkerKept
  BY <1>23 DEF MarkerKept
<1>24. CASE MarkerApplied
  BY <1>24, MarkType DEF MarkerApplied
<1>25. CASE MarkerUnlinked
  BY <1>25 DEF MarkerUnlinked
<1>26. CASE SyncCompleted
  BY <1>26 DEF SyncCompleted, ReleaseGuard, NoWork, Work
<1>27. CASE Postpone
  BY <1>27 DEF Postpone
<1>28. CASE Decide
  BY <1>28 DEF Decide, NoWork, Work, Compatible
<1>29. CASE DecisionStored
  <2>1. intent.post \in 1..MaxPosts
    BY <1>0, <1>29 DEF DecisionStored, Numbering
  <2>2. row' \in [Voucher -> Row]
    BY <1>0, <1>29, MarkType DEF DecisionStored
  <2>3. QED
    BY <1>0, <1>29, <2>1, <2>2 DEF DecisionStored
<1>30. CASE DecisionNotStored
  BY <1>30 DEF DecisionNotStored, NoWork, Work
<1>31. CASE IntentClosed
  BY <1>31 DEF IntentClosed, NoIntent, Intent, NoWork, Work
<1>32. CASE DecisionCompleted
  BY <1>32 DEF DecisionCompleted, ReleaseGuard
<1>33. CASE Align
  BY <1>33 DEF Align, Row, PrintState
<1>34. CASE PrintVoucher
  BY <1>34 DEF PrintVoucher, Row, PrintState
<1>35. CASE Crash
  BY <1>35 DEF Crash, NoWork, Work
<1>36. CASE StartMarker
  BY <1>36, MarkType DEF StartMarker
<1>37. CASE Start
  BY <1>37 DEF Start, Archived
<1>38. CASE UNCHANGED vars
  BY <1>38 DEF vars
<1>39. QED
  BY <1>1, <1>2, <1>3, <1>4, <1>5, <1>5a,
     <1>6, <1>7, <1>8, <1>9, <1>9a, <1>10, <1>11, <1>12, <1>13, <1>14, <1>15, <1>16,
     <1>17, <1>18, <1>19, <1>20, <1>21, <1>22, <1>23, <1>24, <1>25, <1>26, <1>27,
     <1>28, <1>29, <1>30, <1>31, <1>32, <1>33, <1>34, <1>35, <1>36, <1>37, <1>38
  DEF Next, Controller, Creation, Sync, Recovery

-----------------------------------------------------------------------------
(* The barrier of the only open POST.                                       *)

\* Each step keeps the intent tied to the request in progress.
LEMMA NextNumbering ==
  ASSUME TypeOK, Numbering, [Next]_vars
  PROVE  Numbering'
<1> USE DEF Numbering, disk, memory, server, history
<1>0. /\ open \subseteq 1..MaxPosts /\ posts \in Nat /\ intent.post \in Nat
      /\ work.safe \in BOOLEAN
  BY CreationAssumption DEF TypeOK, Work, Intent
<1>1. CASE ExternalCreate
  BY <1>0, <1>1 DEF ExternalCreate
<1>2. CASE LateExecution
  BY <1>0, <1>2 DEF LateExecution
<1>3. CASE Create
  BY <1>0, <1>3 DEF Create
<1>4. CASE IntentWritten
  BY <1>0, <1>4 DEF IntentWritten, NoIntent
<1>5. CASE IntentRefused
  BY <1>0, <1>5 DEF IntentRefused
<1>5a. CASE TaskRefused
  BY <1>0, <1>5a DEF TaskRefused, DropIntent, NoIntent
<1>6. CASE PostConfirmed
  BY <1>0, <1>6 DEF PostConfirmed, Sent, NoWork
<1>7. CASE PostRefused
  BY <1>0, <1>7 DEF PostRefused, Sent
<1>8. CASE PostUncertain
  BY <1>0, <1>8 DEF PostUncertain, Sent
<1>9. CASE PostUnmapped
  BY <1>0, <1>9 DEF PostUnmapped, Sent
<1>9a. CASE ListUnmapped
  BY <1>0, <1>9a DEF ListUnmapped
<1>10. CASE UncertainListed
  BY <1>0, <1>10 DEF UncertainListed
<1>11. CASE CreateListed
  BY <1>0, <1>11 DEF CreateListed, TypeOK, Work
<1>12. CASE MarkerWritten
  BY <1>0, <1>12 DEF MarkerWritten, TypeOK, Work
<1>13. CASE CreateStored
  BY <1>0, <1>13 DEF CreateStored
<1>14. CASE CreateNotStored
  BY <1>0, <1>14 DEF CreateNotStored, DropIntent, NoIntent
<1>15. CASE MarkerCleared
  BY <1>0, <1>15 DEF MarkerCleared
<1>16. CASE IntentCleared
  BY <1>0, <1>16 DEF IntentCleared, DropIntent, NoIntent
<1>17. CASE CreateCompleted
  BY <1>0, <1>17 DEF CreateCompleted
<1>18. CASE CreateFailed
  BY <1>0, <1>18 DEF CreateFailed, DropIntent, NoIntent
<1>19. CASE SyncListed
  BY <1>0, <1>19 DEF SyncListed
<1>20. CASE SyncFailed
  BY <1>0, <1>20 DEF SyncFailed
<1>21. CASE SyncArchived
  BY <1>0, <1>21 DEF SyncArchived
<1>22. CASE SyncNotArchived
  BY <1>0, <1>22 DEF SyncNotArchived
<1>23. CASE MarkerKept
  BY <1>0, <1>23 DEF MarkerKept
<1>24. CASE MarkerApplied
  BY <1>0, <1>24 DEF MarkerApplied
<1>25. CASE MarkerUnlinked
  BY <1>0, <1>25 DEF MarkerUnlinked
<1>26. CASE SyncCompleted
  BY <1>0, <1>26 DEF SyncCompleted, NoIntent
<1>27. CASE Postpone
  BY <1>0, <1>27 DEF Postpone
<1>28. CASE Decide
  BY <1>0, <1>28 DEF Decide
<1>29. CASE DecisionStored
  BY <1>0, <1>29 DEF DecisionStored
<1>30. CASE DecisionNotStored
  BY <1>0, <1>30 DEF DecisionNotStored
<1>31. CASE IntentClosed
  BY <1>0, <1>31 DEF IntentClosed, NoIntent
<1>32. CASE DecisionCompleted
  BY <1>0, <1>32 DEF DecisionCompleted
<1>33. CASE Align
  BY <1>0, <1>33 DEF Align
<1>34. CASE PrintVoucher
  BY <1>0, <1>34 DEF PrintVoucher
<1>35. CASE Crash
  BY <1>0, <1>35 DEF Crash
<1>36. CASE StartMarker
  BY <1>0, <1>36 DEF StartMarker
<1>37. CASE Start
  BY <1>0, <1>37 DEF Start
<1>38. CASE UNCHANGED vars
  BY <1>38 DEF vars
<1>39. QED
  BY <1>1, <1>2, <1>3, <1>4, <1>5, <1>5a,
     <1>6, <1>7, <1>8, <1>9, <1>9a, <1>10, <1>11, <1>12, <1>13, <1>14, <1>15, <1>16,
     <1>17, <1>18, <1>19, <1>20, <1>21, <1>22, <1>23, <1>24, <1>25, <1>26, <1>27,
     <1>28, <1>29, <1>30, <1>31, <1>32, <1>33, <1>34, <1>35, <1>36, <1>37, <1>38
  DEF Next, Controller, Creation, Sync, Recovery

\* Each step keeps the only open POST in the intent.
LEMMA NextBarrier ==
  ASSUME WellFormedReplies, TypeOK, Numbering, Barrier, [Next]_vars
  PROVE  Barrier'
<1> USE DEF Barrier, Numbering, disk, memory, server, history
<1>0. /\ open \subseteq 1..MaxPosts /\ posts \in Nat /\ intent.post \in Nat
      /\ work.safe \in BOOLEAN
  BY CreationAssumption DEF TypeOK, Work, Intent
<1>1. CASE ExternalCreate
  BY <1>0, <1>1 DEF ExternalCreate
<1>2. CASE LateExecution
  BY <1>0, <1>2 DEF LateExecution
<1>3. CASE Create
  BY <1>0, <1>3 DEF Create
<1>4. CASE IntentWritten
  BY <1>0, <1>4 DEF IntentWritten, NoIntent
<1>5. CASE IntentRefused
  BY <1>0, <1>5 DEF IntentRefused
<1>5a. CASE TaskRefused
  BY <1>0, <1>5a DEF TaskRefused, DropIntent, NoIntent
<1>6. CASE PostConfirmed
  BY <1>0, <1>6 DEF PostConfirmed, Sent, NoWork
<1>7. CASE PostRefused
  BY <1>0, <1>7 DEF PostRefused, Sent
<1>8. CASE PostUncertain
  BY <1>0, <1>8 DEF PostUncertain, Sent
<1>9. CASE PostUnmapped
  BY <1>9 DEF PostUnmapped, WellFormedReplies
<1>9a. CASE ListUnmapped
  BY <1>9a DEF ListUnmapped, WellFormedReplies
<1>10. CASE UncertainListed
  BY <1>0, <1>10 DEF UncertainListed
<1>11. CASE CreateListed
  BY <1>0, <1>11 DEF CreateListed, TypeOK, Work
<1>12. CASE MarkerWritten
  <2>1. open \ {posts} = {}
    BY <1>12 DEF MarkerWritten
  <2>2. CASE open' = open \ {posts}
    BY <1>12, <2>1, <2>2 DEF MarkerWritten
  <2>3. CASE UNCHANGED <<marker, work, open>>
    BY <1>12, <2>3 DEF MarkerWritten
  <2>4. QED
    BY <1>12, <2>2, <2>3 DEF MarkerWritten
<1>13. CASE CreateStored
  BY <1>0, <1>13 DEF CreateStored
<1>14. CASE CreateNotStored
  BY <1>0, <1>14 DEF CreateNotStored, DropIntent, NoIntent
<1>15. CASE MarkerCleared
  BY <1>0, <1>15 DEF MarkerCleared
<1>16. CASE IntentCleared
  BY <1>0, <1>16 DEF IntentCleared, DropIntent, NoIntent
<1>17. CASE CreateCompleted
  BY <1>0, <1>17 DEF CreateCompleted
<1>18. CASE CreateFailed
  BY <1>0, <1>18 DEF CreateFailed, DropIntent, NoIntent
<1>19. CASE SyncListed
  BY <1>0, <1>19 DEF SyncListed
<1>20. CASE SyncFailed
  BY <1>0, <1>20 DEF SyncFailed
<1>21. CASE SyncArchived
  BY <1>0, <1>21 DEF SyncArchived
<1>22. CASE SyncNotArchived
  BY <1>0, <1>22 DEF SyncNotArchived
<1>23. CASE MarkerKept
  BY <1>0, <1>23 DEF MarkerKept
<1>24. CASE MarkerApplied
  BY <1>0, <1>24 DEF MarkerApplied
<1>25. CASE MarkerUnlinked
  BY <1>0, <1>25 DEF MarkerUnlinked
<1>26. CASE SyncCompleted
  BY <1>0, <1>26 DEF SyncCompleted, NoIntent
<1>27. CASE Postpone
  BY <1>0, <1>27 DEF Postpone
<1>28. CASE Decide
  BY <1>0, <1>28 DEF Decide
<1>29. CASE DecisionStored
  BY <1>0, <1>29 DEF DecisionStored
<1>30. CASE DecisionNotStored
  BY <1>0, <1>30 DEF DecisionNotStored
<1>31. CASE IntentClosed
  BY <1>0, <1>31 DEF IntentClosed, NoIntent
<1>32. CASE DecisionCompleted
  BY <1>0, <1>32 DEF DecisionCompleted
<1>33. CASE Align
  BY <1>0, <1>33 DEF Align
<1>34. CASE PrintVoucher
  BY <1>0, <1>34 DEF PrintVoucher
<1>35. CASE Crash
  BY <1>0, <1>35 DEF Crash
<1>36. CASE StartMarker
  BY <1>0, <1>36 DEF StartMarker
<1>37. CASE Start
  BY <1>0, <1>37 DEF Start
<1>38. CASE UNCHANGED vars
  BY <1>38 DEF vars
<1>39. QED
  BY <1>1, <1>2, <1>3, <1>4, <1>5, <1>5a,
     <1>6, <1>7, <1>8, <1>9, <1>9a, <1>10, <1>11, <1>12, <1>13, <1>14, <1>15, <1>16,
     <1>17, <1>18, <1>19, <1>20, <1>21, <1>22, <1>23, <1>24, <1>25, <1>26, <1>27,
     <1>28, <1>29, <1>30, <1>31, <1>32, <1>33, <1>34, <1>35, <1>36, <1>37, <1>38
  DEF Next, Controller, Creation, Sync, Recovery

-----------------------------------------------------------------------------
(* Confirmed vouchers stay tracked.                                         *)

\* No step takes an application voucher back.
Keeps ==
  \A v \in Voucher :
    row[v].origin = "APPLICATION" => row'[v].origin = "APPLICATION"

\* No step takes a classification back.
LEMMA ApplicationStays ==
  ASSUME TypeOK, [Next]_vars
  PROVE  Keeps
<1>0. /\ row \in [Voucher -> Row] /\ marker \in SUBSET Voucher
      /\ work.created \in SUBSET Voucher /\ work.snapshot \in SUBSET Voucher
  BY DEF TypeOK, Work
<1>1. CASE UNCHANGED row
  BY <1>1 DEF Keeps
<1>2. CASE CreateStored
  <2> DEFINE U == Upsert(row, IF work.observed THEN work.snapshot
                                              ELSE work.created)
  <2>1. U \in [Voucher -> Row]
    BY <1>0, UpsertType
  <2>2. \A v \in Voucher : row[v].origin = "APPLICATION"
                             => U[v].origin = "APPLICATION"
    BY <1>0, UpsertKeeps
  <2>3. row' = MarkApplicationCreated(U, work.created)
    BY <1>2 DEF CreateStored
  <2>4. QED
    <3> HIDE DEF U
    <3> QED
      BY <1>0, <2>1, <2>2, <2>3, MarkKeeps DEF Keeps
<1>3. CASE SyncArchived
  <2>1. PICK R \in SUBSET Omitted : row' = Upsert(row, work.snapshot \cup R)
    BY <1>3 DEF SyncArchived
  <2>2. R \in SUBSET Voucher
    BY <2>1 DEF Omitted, Archived
  <2>3. QED
    BY <1>0, <2>1, <2>2, UpsertKeeps DEF Keeps
<1>4. CASE MarkerApplied \/ StartMarker
  BY <1>0, <1>4, MarkKeeps DEF MarkerApplied, StartMarker, Keeps
<1>5. CASE DecisionStored
  BY <1>0, <1>5, MarkKeeps DEF DecisionStored, Keeps
<1>6. CASE Align \/ PrintVoucher
  BY <1>0, <1>6 DEF Align, PrintVoucher, Keeps, Row
<1>7. QED
  BY <1>1, <1>2, <1>3, <1>4, <1>5, <1>6
  DEF Next, vars, Controller, Creation, Sync, Recovery, disk, memory, history,
      server, Start, Crash, ExternalCreate, LateExecution, Create, IntentWritten,
      IntentRefused, TaskRefused, PostConfirmed, PostRefused, PostUncertain, PostUnmapped,
      ListUnmapped, UncertainListed, CreateListed, MarkerWritten, CreateNotStored,
      MarkerCleared, IntentCleared, CreateCompleted, CreateFailed, SyncListed,
      SyncFailed, SyncNotArchived, MarkerKept, MarkerUnlinked, SyncCompleted,
      Postpone, Decide, DecisionNotStored, IntentClosed, DecisionCompleted

\* Each step keeps every confirmed voucher covered.
LEMMA NextTracked ==
  ASSUME WellFormedReplies, IInv, [Next]_vars
  PROVE  Tracking' /\ ConfirmedTracked'
<1> USE DEF IInv, Tracking, ConfirmedTracked, Classified, OfIntent, InCreation,
            disk, memory, server, history
<1>0. /\ Keeps /\ confirmed \subseteq Voucher /\ posts \in Nat
      /\ intent.post \in Nat /\ work.safe \in BOOLEAN
      /\ maker \in [Voucher -> 0..MaxPosts] /\ remote \subseteq Voucher
      /\ row \in [Voucher -> Row] /\ marker \in SUBSET Voucher
      /\ work.created \in SUBSET Voucher
  BY ApplicationStays, CreationAssumption DEF TypeOK, Work, Intent
<1>1. CASE ExternalCreate
  BY <1>0, <1>1 DEF ExternalCreate
<1>2. CASE LateExecution
  BY <1>0, <1>2 DEF LateExecution, Makes
<1>3. CASE Create
  BY <1>0, <1>3 DEF Create, CreateAllowed
<1>4. CASE IntentWritten
  BY <1>0, <1>4 DEF IntentWritten, NoIntent, Numbering
<1>5. CASE IntentRefused
  BY <1>0, <1>5 DEF IntentRefused
<1>5a. CASE TaskRefused
  BY <1>0, <1>5a DEF TaskRefused, DropIntent, NoIntent
<1>6. CASE PostConfirmed
  BY <1>0, <1>6 DEF PostConfirmed, Sent, NoWork, Makes, Numbering
<1>7. CASE PostRefused
  BY <1>0, <1>7 DEF PostRefused, Sent, Numbering
<1>8. CASE PostUncertain
  BY <1>0, <1>8 DEF PostUncertain, Sent, Makes, Numbering
<1>9. CASE PostUnmapped
  BY <1>0, <1>9 DEF PostUnmapped, Sent, Makes, Numbering
<1>9a. CASE ListUnmapped
  BY <1>9a DEF ListUnmapped, WellFormedReplies
<1>10. CASE UncertainListed
  BY <1>0, <1>10 DEF UncertainListed
<1>11. CASE CreateListed
  BY <1>0, <1>11 DEF CreateListed, TypeOK, Work
<1>12. CASE MarkerWritten
  <2>1. CASE /\ marker = {} /\ marker' = work.created
             /\ work' = [work EXCEPT !.safe = TRUE]
    <3>1. work'.created = work.created /\ work' \in Work
      BY <2>1 DEF TypeOK, Work
    <3>2. QED
      BY <1>0, <1>12, <2>1, <3>1 DEF MarkerWritten
  <2>2. CASE UNCHANGED <<marker, work, open>>
    BY <1>0, <1>12, <2>2 DEF MarkerWritten, Numbering
  <2>3. QED
    BY <1>12, <2>1, <2>2 DEF MarkerWritten
<1>13. CASE CreateStored
  <2>1. \A v \in work.created : row'[v].origin = "APPLICATION"
    <3> DEFINE U == Upsert(row, IF work.observed THEN work.snapshot
                                                ELSE work.created)
    <3>1. U \in [Voucher -> Row]
      BY <1>0, UpsertType DEF TypeOK, Work
    <3>2. row' = MarkApplicationCreated(U, work.created)
      BY <1>13 DEF CreateStored
    <3>3. QED
      <4> HIDE DEF U
      <4> QED
        BY <1>0, <3>1, <3>2, MarkKeeps
  <2>2. marker \subseteq work.created /\ OfIntent \subseteq work.created
    BY <1>13 DEF CreateStored
  <2>3. QED
    BY <1>0, <1>13, <2>1, <2>2 DEF Keeps, CreateStored
<1>14. CASE CreateNotStored
  BY <1>0, <1>14 DEF CreateNotStored, DropIntent, NoIntent
<1>15. CASE MarkerCleared
  BY <1>0, <1>15 DEF MarkerCleared
<1>16. CASE IntentCleared
  BY <1>0, <1>16 DEF IntentCleared, DropIntent, NoIntent
<1>17. CASE CreateCompleted
  BY <1>0, <1>17 DEF CreateCompleted
<1>18. CASE CreateFailed
  BY <1>0, <1>18 DEF CreateFailed, DropIntent, NoIntent
<1>19. CASE SyncListed
  BY <1>0, <1>19 DEF SyncListed
<1>20. CASE SyncFailed
  BY <1>0, <1>20 DEF SyncFailed
<1>21. CASE SyncArchived
  BY <1>0, <1>21 DEF Keeps, SyncArchived
<1>22. CASE SyncNotArchived
  BY <1>0, <1>22 DEF SyncNotArchived
<1>23. CASE MarkerKept
  BY <1>0, <1>23 DEF MarkerKept
<1>24. CASE MarkerApplied
  <2>1. \A v \in marker : row'[v].origin = "APPLICATION"
    BY <1>0, <1>24, MarkKeeps DEF MarkerApplied
  <2>2. QED
    BY <1>0, <1>24, <2>1 DEF Keeps, MarkerApplied
<1>25. CASE MarkerUnlinked
  BY <1>0, <1>25 DEF MarkerUnlinked
<1>26. CASE SyncCompleted
  BY <1>0, <1>26 DEF SyncCompleted
<1>27. CASE Postpone
  BY <1>0, <1>27 DEF Postpone
<1>28. CASE Decide
  BY <1>0, <1>28 DEF Decide
<1>29. CASE DecisionStored
  <2>1. intent.post \in 1..posts \/ intent.post > posts
    BY <1>0, <1>29 DEF DecisionStored, Numbering
  <2>2. settled \subseteq settled' /\ (intent.post \in settled' \/ intent.post > posts)
    BY <1>29, <2>1 DEF DecisionStored
  <2>3. QED
    BY <1>0, <1>29, <2>2 DEF Keeps, DecisionStored
<1>30. CASE DecisionNotStored
  BY <1>0, <1>30 DEF DecisionNotStored
<1>31. CASE IntentClosed
  BY <1>0, <1>31 DEF IntentClosed, NoIntent
<1>32. CASE DecisionCompleted
  BY <1>0, <1>32 DEF DecisionCompleted
<1>33. CASE Align
  BY <1>0, <1>33 DEF Keeps, Align
<1>34. CASE PrintVoucher
  BY <1>0, <1>34 DEF Keeps, PrintVoucher
<1>35. CASE Crash
  BY <1>0, <1>35 DEF Crash
<1>36. CASE StartMarker
  <2>1. \A v \in marker : row'[v].origin = "APPLICATION"
    BY <1>0, <1>36, MarkKeeps DEF StartMarker
  <2>2. QED
    BY <1>0, <1>36, <2>1 DEF Keeps, StartMarker
<1>37. CASE Start
  BY <1>0, <1>37 DEF Start
<1>38. CASE UNCHANGED vars
  BY <1>38 DEF vars
<1>39. QED
  BY <1>1, <1>2, <1>3, <1>4, <1>5, <1>5a,
     <1>6, <1>7, <1>8, <1>9, <1>9a, <1>10, <1>11, <1>12, <1>13, <1>14, <1>15, <1>16,
     <1>17, <1>18, <1>19, <1>20, <1>21, <1>22, <1>23, <1>24, <1>25, <1>26, <1>27,
     <1>28, <1>29, <1>30, <1>31, <1>32, <1>33, <1>34, <1>35, <1>36, <1>37, <1>38
  DEF Next, Controller, Creation, Sync, Recovery

-----------------------------------------------------------------------------
(* What makes a voucher the application's own.                              *)

\* An upsert classifies nothing.
LEMMA UpsertOnly ==
  ASSUME NEW r \in [Voucher -> Row], NEW S \in SUBSET Voucher, NEW v \in Voucher,
         Upsert(r, S)[v].origin = "APPLICATION"
  PROVE  r[v].origin = "APPLICATION"
  BY DEF Upsert, NoRow, Row

\* A classification classifies its own vouchers and no other.
LEMMA MarkOnly ==
  ASSUME NEW r \in [Voucher -> Row], NEW S \in SUBSET Voucher, NEW v \in Voucher,
         MarkApplicationCreated(r, S)[v].origin = "APPLICATION"
  PROVE  v \in S \/ r[v].origin = "APPLICATION"
  BY DEF MarkApplicationCreated

\* The rows, the marker and the worker's memory name only vouchers that a
\* reply confirmed or the operator claimed.
Justified ==
  /\ OriginJustified
  /\ marker \subseteq confirmed \cup claimed
  /\ pc \in {"listing", "created", "recorded"} => work.created \subseteq confirmed

\* Each step keeps them so, with any replies.
LEMMA NextJustified ==
  ASSUME TypeOK, Justified, [Next]_vars
  PROVE  Justified'
<1> USE DEF Justified, OriginJustified, disk, memory, server, history
<1>0. /\ row \in [Voucher -> Row] /\ marker \in SUBSET Voucher
      /\ work.created \in SUBSET Voucher /\ work.snapshot \in SUBSET Voucher
      /\ confirmed \in SUBSET Voucher /\ claimed \in SUBSET Voucher
  BY DEF TypeOK, Work
<1>1. CASE PostConfirmed
  BY <1>0, <1>1 DEF PostConfirmed, Sent, NoWork
<1>2. CASE CreateListed
  BY <1>0, <1>2 DEF CreateListed, TypeOK, Work
<1>3. CASE MarkerWritten
  <2>1. work'.created = work.created
    BY <1>3 DEF MarkerWritten, TypeOK, Work
  <2>2. QED
    BY <1>0, <1>3, <2>1 DEF MarkerWritten
<1>4. CASE CreateStored
  <2> DEFINE U == Upsert(row, IF work.observed THEN work.snapshot
                                              ELSE work.created)
  <2>1. U \in [Voucher -> Row]
    BY <1>0, UpsertType
  <2>2. \A v \in Voucher : U[v].origin = "APPLICATION"
                             => row[v].origin = "APPLICATION"
    BY <1>0, UpsertOnly
  <2>3. row' = MarkApplicationCreated(U, work.created)
    BY <1>4 DEF CreateStored
  <2>4. \A v \in Voucher : row'[v].origin = "APPLICATION"
                             => v \in work.created \/ row[v].origin = "APPLICATION"
    <3> HIDE DEF U
    <3> QED
      BY <1>0, <2>1, <2>2, <2>3, MarkOnly
  <2>5. QED
    BY <1>0, <1>4, <2>4 DEF CreateStored
<1>5. CASE SyncArchived
  <2>1. PICK R \in SUBSET Omitted : row' = Upsert(row, work.snapshot \cup R)
    BY <1>5 DEF SyncArchived
  <2>2. R \in SUBSET Voucher
    BY <2>1 DEF Omitted, Archived
  <2>3. \A v \in Voucher : row'[v].origin = "APPLICATION"
                             => row[v].origin = "APPLICATION"
    BY <1>0, <2>1, <2>2, UpsertOnly
  <2>4. QED
    BY <1>0, <1>5, <2>3 DEF SyncArchived
<1>6. CASE MarkerApplied \/ StartMarker
  <2>1. \A v \in Voucher : row'[v].origin = "APPLICATION"
                             => v \in marker \/ row[v].origin = "APPLICATION"
    BY <1>0, <1>6, MarkOnly DEF MarkerApplied, StartMarker
  <2>2. QED
    BY <1>0, <1>6, <2>1 DEF MarkerApplied, StartMarker
<1>7. CASE DecisionStored
  <2>1. CASE pc = "associating"
    <3>1. \A v \in Voucher : row'[v].origin = "APPLICATION"
                      => v \in work.created \/ row[v].origin = "APPLICATION"
      BY <1>0, <1>7, <2>1, MarkOnly DEF DecisionStored
    <3>2. QED
      BY <1>0, <1>7, <2>1, <3>1 DEF DecisionStored
  <2>2. CASE pc # "associating"
    BY <1>0, <1>7, <2>2 DEF DecisionStored
  <2>3. QED
    BY <2>1, <2>2
<1>8. CASE Align \/ PrintVoucher
  <2>1. \A v \in Voucher : row'[v].origin = row[v].origin
    BY <1>0, <1>8 DEF Align, PrintVoucher, Row
  <2>2. QED
    BY <1>0, <1>8, <2>1 DEF Align, PrintVoucher
<1>9. CASE UNCHANGED <<row, confirmed, claimed>> /\ marker' \subseteq marker
           /\ pc' \notin {"listing", "created", "recorded"}
  BY <1>0, <1>9
<1>10. CASE UNCHANGED <<row, confirmed, claimed, marker, pc, work>>
  BY <1>10
<1>11. QED
  BY <1>1, <1>2, <1>3, <1>4, <1>5, <1>6, <1>7, <1>8, <1>9, <1>10
  DEF Next, vars, Controller, Creation, Sync, Recovery, Start, Crash,
      ExternalCreate, LateExecution, Create, IntentWritten, IntentRefused,
      TaskRefused, PostRefused, PostUncertain, PostUnmapped, Sent, ListUnmapped,
      UncertainListed, CreateNotStored, MarkerCleared, IntentCleared,
      CreateCompleted, CreateFailed, SyncListed, SyncFailed, SyncNotArchived,
      MarkerKept, MarkerUnlinked, SyncCompleted, Postpone, Decide,
      DecisionNotStored, IntentClosed, DecisionCompleted

-----------------------------------------------------------------------------
(* Print evidence.                                                          *)

\* What the application shows, archives, prints and remembers of lists exists,
\* only archived rows have a print state, a voucher is not printed before its
\* creation is recorded, and the operator is asked about new vouchers only.
Existing ==
  /\ Archived(row) \cup shown \cup printed \subseteq remote
  /\ work.snapshot \cup work.created \subseteq remote
  /\ \A v \in Voucher : row[v].print # "UNKNOWN" => v \in Archived(row)
  /\ pc \in {"listing", "created", "recorded"} => work.created \cap printed = {}
  /\ pc = "associating" => work.created \cap intent.baseline = {}

\* An upsert archives its vouchers and changes no row that has an origin.
LEMMA UpsertAdds ==
  ASSUME NEW r \in [Voucher -> Row], NEW S \in SUBSET Voucher
  PROVE  /\ Archived(Upsert(r, S)) = Archived(r) \cup S
         /\ \A v \in Archived(r) : Upsert(r, S)[v] = r[v]
         /\ \A v \in Voucher \ Archived(r) :
              Upsert(r, S)[v].print \in {"UNKNOWN", r[v].print}
  BY DEF Archived, Upsert, NoRow, Row

\* A classification archives its vouchers and changes no other row.
LEMMA MarkAdds ==
  ASSUME NEW r \in [Voucher -> Row], NEW S \in SUBSET Voucher
  PROVE  /\ Archived(MarkApplicationCreated(r, S)) = Archived(r) \cup S
         /\ \A v \in Voucher \ S : MarkApplicationCreated(r, S)[v] = r[v]
  BY DEF Archived, MarkApplicationCreated, Row

\* Each step keeps them so, with any replies.
LEMMA NextExisting ==
  ASSUME TypeOK, Existing, [Next]_vars
  PROVE  Existing'
<1> USE DEF Existing, disk, memory, server, history
<1>0. /\ row \in [Voucher -> Row] /\ marker \in SUBSET Voucher
      /\ work \in Work /\ work.created \in SUBSET Voucher
      /\ work.snapshot \in SUBSET Voucher /\ remote \in SUBSET Voucher
      /\ Archived(row) \in SUBSET Voucher
      /\ NoWork.snapshot = {} /\ NoWork.created = {}
  BY DEF TypeOK, Work, NoWork, Archived
<1>1. CASE ExternalCreate
  BY <1>0, <1>1 DEF ExternalCreate, Archived
<1>2. CASE LateExecution
  BY <1>0, <1>2 DEF LateExecution, Makes, Archived
<1>3. CASE PostConfirmed
  <2>1. PICK S \in SUBSET Voucher :
          Makes(S, posts') /\ work' = [NoWork EXCEPT !.created = S]
    BY <1>3 DEF PostConfirmed
  <2>2. work'.created = S /\ work'.snapshot = {}
    BY <2>1 DEF NoWork
  <2>3. S \cap printed = {} /\ remote' = remote \cup S
    BY <2>1 DEF Makes
  <2>4. QED
    BY <1>0, <1>3, <2>2, <2>3 DEF PostConfirmed, Archived
<1>4. CASE PostUncertain \/ PostUnmapped
  <2>1. remote \subseteq remote'
    BY <1>4 DEF PostUncertain, PostUnmapped, Makes
  <2>2. QED
    BY <1>0, <1>4, <2>1 DEF PostUncertain, PostUnmapped, Archived
<1>5. CASE CreateListed
  <2>1. work'.created = work.created /\ work'.snapshot \subseteq remote
    <3>1. CASE \E L \in SUBSET remote :
                 work' = [work EXCEPT !.snapshot = L \cup work.created,
                                      !.complete = work.created \subseteq L,
                                      !.observed = TRUE]
      <4>1. PICK L \in SUBSET remote :
              work' = [work EXCEPT !.snapshot = L \cup work.created,
                                   !.complete = work.created \subseteq L,
                                   !.observed = TRUE]
        BY <3>1
      <4>2. work'.created = work.created /\ work'.snapshot = L \cup work.created
        BY <1>0, <4>1 DEF Work
      <4>3. QED
        BY <4>2
    <3>2. CASE work' = [work EXCEPT !.snapshot = shown \cup work.created]
      <4>1. work'.created = work.created /\ work'.snapshot = shown \cup work.created
        BY <1>0, <3>2 DEF Work
      <4>2. QED
        BY <4>1
    <3>3. QED
      BY <1>5, <3>1, <3>2 DEF CreateListed
  <2>2. QED
    BY <1>0, <1>5, <2>1 DEF CreateListed, Archived
<1>6. CASE MarkerWritten
  <2>1. work'.created = work.created /\ work'.snapshot = work.snapshot
    BY <1>0, <1>6 DEF MarkerWritten, Work
  <2>2. QED
    BY <1>0, <1>6, <2>1 DEF MarkerWritten, Archived
<1>7. CASE CreateStored
  <2> DEFINE S == IF work.observed THEN work.snapshot ELSE work.created
             U == Upsert(row, S)
  <2>1. S \in SUBSET Voucher /\ S \subseteq remote
    BY <1>0
  <2>2. /\ U \in [Voucher -> Row] /\ Archived(U) = Archived(row) \cup S
        /\ \A v \in Archived(row) : U[v] = row[v]
        /\ \A v \in Voucher \ Archived(row) :
             U[v].print \in {"UNKNOWN", row[v].print}
    BY <1>0, <2>1, UpsertType, UpsertAdds
  <2>3. row' = MarkApplicationCreated(U, work.created)
    BY <1>7 DEF CreateStored
  <2>4. /\ Archived(row') = Archived(U) \cup work.created
        /\ \A v \in Voucher \ work.created : row'[v] = U[v]
    <3> HIDE DEF U
    <3> QED
      BY <1>0, <2>2, <2>3, MarkAdds
  <2>5. QED
    <3> HIDE DEF U, S
    <3> QED
      BY <1>0, <1>7, <2>1, <2>2, <2>4 DEF CreateStored
<1>8. CASE SyncListed
  <2>1. work'.created = {} /\ work'.snapshot \subseteq remote
    BY <1>0, <1>8 DEF SyncListed, NoWork
  <2>2. QED
    BY <1>0, <1>8, <2>1 DEF SyncListed, Archived
<1>9. ASSUME NEW R \in SUBSET Omitted
      PROVE  Verified(R).snapshot \subseteq remote /\ Verified(R).created = work.created
  <2>1. Omitted \subseteq remote
    BY DEF Omitted
  <2>2. QED
    BY <1>0, <2>1 DEF Verified, Work
<1>10. CASE SyncArchived
  <2>1. PICK R \in SUBSET Omitted :
          work' = Verified(R) /\ row' = Upsert(row, work.snapshot \cup R)
    BY <1>10 DEF SyncArchived
  <2>2. work.snapshot \cup R \in SUBSET Voucher /\ R \subseteq remote
    BY <1>0, <2>1 DEF Omitted
  <2>3. /\ Archived(row') = Archived(row) \cup (work.snapshot \cup R)
        /\ \A v \in Archived(row) : row'[v] = row[v]
        /\ \A v \in Voucher \ Archived(row) :
             row'[v].print \in {"UNKNOWN", row[v].print}
    BY <1>0, <2>1, <2>2, UpsertAdds
  <2>4. work'.snapshot \subseteq remote /\ work'.created = work.created
    BY <1>9, <2>1
  <2>5. QED
    BY <1>0, <1>10, <2>2, <2>3, <2>4 DEF SyncArchived
<1>11. CASE SyncNotArchived
  <2>1. work'.snapshot \subseteq remote /\ work'.created = work.created
    BY <1>9, <1>11 DEF SyncNotArchived
  <2>2. QED
    BY <1>0, <1>11, <2>1 DEF SyncNotArchived, Archived
<1>12. CASE MarkerApplied \/ StartMarker
  <2>1. /\ row' = MarkApplicationCreated(row, marker) /\ marker \subseteq Archived(row)
    BY <1>12 DEF MarkerApplied, StartMarker, MarkingPossible
  <2>2. /\ Archived(row') = Archived(row)
        /\ \A v \in Voucher \ marker : row'[v] = row[v]
    BY <1>0, <2>1, MarkAdds
  <2>3. QED
    BY <1>0, <1>12, <2>1, <2>2 DEF MarkerApplied, StartMarker
<1>13. CASE DecisionStored
  <2>1. work.created \subseteq Archived(row)
    BY <1>13 DEF DecisionStored, MarkingPossible
  <2>2. /\ Archived(row') = Archived(row)
        /\ \A v \in Voucher \ work.created : row'[v] = row[v]
    <3>1. CASE pc = "associating"
      <4> DEFINE M == MarkApplicationCreated(row, work.created)
      <4>1. row' = M
        BY <1>13, <3>1 DEF DecisionStored
      <4>2. /\ Archived(M) = Archived(row) \cup work.created
            /\ \A v \in Voucher \ work.created : M[v] = row[v]
        BY <1>0, MarkAdds
      <4>3. QED
        <5> HIDE DEF M
        <5> QED
          BY <2>1, <4>1, <4>2
    <3>2. CASE pc # "associating"
      BY <1>13, <3>2 DEF DecisionStored
    <3>3. QED
      BY <3>1, <3>2
  <2>3. QED
    BY <1>0, <1>13, <2>1, <2>2 DEF DecisionStored
<1>14. CASE Decide
  <2>1. work'.created = Compatible /\ work'.snapshot = {}
    BY <1>14 DEF Decide, NoWork
  <2>2. QED
    BY <1>0, <1>14, <2>1 DEF Decide, Compatible, Archived
<1>15. CASE Align \/ PrintVoucher
  <2>1. PICK v \in Handled \cap shown \cap Archived(row) :
          /\ \E p \in PrintState : row' = [row EXCEPT ![v].print = p]
          /\ printed' \subseteq printed \cup {v}
    BY <1>15 DEF Align, PrintVoucher, PrintState
  <2>2. Archived(row') = Archived(row)
    BY <1>0, <2>1 DEF Archived, Row
  <2>3. \A w \in Voucher \ {v} : row'[w] = row[w]
    BY <1>0, <2>1
  <2>4. UNCHANGED <<remote, shown, work>> /\ pc' = "idle"
    BY <1>15 DEF Align, PrintVoucher
  <2>5. \A w \in Voucher : row'[w].print # "UNKNOWN" => w \in Archived(row')
    BY <2>1, <2>2, <2>3
  <2>6. Archived(row') \cup shown' \cup printed' \subseteq remote'
    BY <2>1, <2>2, <2>4
  <2>7. QED
    BY <2>4, <2>5, <2>6
<1>16. CASE /\ UNCHANGED <<remote, row, printed, shown>>
            /\ UNCHANGED work \/ work' = NoWork
            /\ pc' \notin {"listing", "created", "recorded", "associating"}
  BY <1>0, <1>16 DEF Archived
<1>17. CASE /\ UNCHANGED <<remote, row, printed>>
            /\ UNCHANGED work \/ work' = NoWork
            /\ shown' \subseteq remote
            /\ pc' \notin {"listing", "created", "recorded", "associating"}
  BY <1>0, <1>17 DEF Archived
<1>18. CASE UNCHANGED <<remote, row, printed, shown, work, pc, intent>>
  BY <1>18 DEF Archived
<1>19. QED
  BY <1>0, <1>1, <1>2, <1>3, <1>4, <1>5, <1>6, <1>7, <1>8, <1>10, <1>11, <1>12, <1>13,
     <1>14, <1>15, <1>16, <1>17, <1>18
  DEF Next, vars, Controller, Creation, Sync, Recovery, Start, Crash, Create,
      IntentWritten, IntentRefused, TaskRefused, PostRefused, Sent, ListUnmapped,
      UncertainListed, CreateNotStored, MarkerCleared, IntentCleared,
      CreateCompleted, CreateFailed, SyncFailed, MarkerKept, MarkerUnlinked,
      SyncCompleted, Postpone, DecisionNotStored, IntentClosed, DecisionCompleted

-----------------------------------------------------------------------------
(* The creations follow CreateOnce.                                         *)

\* The rows known as made by this application.
Apps(r) == {v \in Voucher : r[v].origin = "APPLICATION"}

\* An upsert leaves them as they are.
LEMMA UpsertApps ==
  ASSUME NEW r \in [Voucher -> Row], NEW S \in SUBSET Voucher
  PROVE  Apps(Upsert(r, S)) = Apps(r)
  BY UpsertOnly, UpsertKeeps DEF Apps

\* A classification adds its vouchers.
LEMMA MarkApps ==
  ASSUME NEW r \in [Voucher -> Row], NEW S \in SUBSET Voucher
  PROVE  Apps(MarkApplicationCreated(r, S)) = Apps(r) \cup S
  BY MarkOnly, MarkKeeps DEF Apps

\* The intent is of the last creation sent or of the next one, and an answer
\* that no file names yet is of the last one, with what its reply named.
Replied ==
  /\ intent.post \in {0, posts, posts + 1} /\ open \subseteq 1..posts
  /\ pc \in {"listing", "created"} => posts \in open
  /\ pc = "recorded" /\ ~work.safe => posts \in open
  /\ pc \in {"listing", "created", "recorded"} =>
       /\ work.created # {} /\ work.created \subseteq confirmed
       /\ \A v \in work.created : maker[v] = posts

\* Each step keeps that, with any replies.
LEMMA NextReplied ==
  ASSUME TypeOK, Numbering, Existing, Replied, [Next]_vars
  PROVE  Replied'
<1> USE DEF Replied, disk, memory, server, history
<1>0. /\ posts \in Nat /\ intent.post \in Nat /\ work \in Work
      /\ maker \in [Voucher -> 0..MaxPosts] /\ work.created \in SUBSET Voucher
      /\ work.created \subseteq remote /\ NoIntent.post = 0
  BY CreationAssumption DEF TypeOK, Work, Intent, Existing, NoIntent
<1>1. CASE LateExecution
  BY <1>0, <1>1 DEF LateExecution, Makes
<1>2. CASE IntentWritten
  BY <1>0, <1>2 DEF IntentWritten
<1>3. CASE PostConfirmed
  <2>1. PICK S \in SUBSET Voucher :
          /\ Makes(S, posts') /\ confirmed' = confirmed \cup S
          /\ work' = [NoWork EXCEPT !.created = S]
    BY <1>3 DEF PostConfirmed
  <2>2. work'.created = S
    BY <2>1 DEF NoWork
  <2>3. S # {}
    BY <2>1, CreationAssumption, FS_EmptySet DEF Makes
  <2>4. \A v \in S : maker'[v] = posts'
    BY <2>1 DEF Makes
  <2>5. posts' = posts + 1 /\ intent.post = posts + 1 /\ pc' = "listing"
        /\ open' = open \cup {posts'} /\ UNCHANGED intent
    BY <1>3 DEF PostConfirmed, Sent, Numbering
  <2>6. QED
    BY <1>0, <2>1, <2>2, <2>3, <2>4, <2>5
<1>4. CASE PostRefused \/ PostUncertain \/ PostUnmapped
  <2>1. posts' = posts + 1 /\ intent.post = posts + 1 /\ pc' \in {"refused", "uncertain"}
        /\ open' \in {open, open \cup {posts'}} /\ UNCHANGED intent
    BY <1>4 DEF PostRefused, PostUncertain, PostUnmapped, Sent, Numbering
  <2>2. QED
    BY <1>0, <2>1
<1>5. CASE CreateListed
  <2>1. work'.created = work.created
    BY <1>0, <1>5 DEF CreateListed, Work
  <2>2. QED
    BY <1>0, <1>5, <2>1 DEF CreateListed
<1>6. CASE MarkerWritten
  <2>1. work'.created = work.created /\ (work'.safe \/ UNCHANGED open)
    BY <1>0, <1>6 DEF MarkerWritten, Work
  <2>2. QED
    BY <1>0, <1>6, <2>1 DEF MarkerWritten
<1>7. CASE /\ UNCHANGED <<posts, maker, confirmed>> /\ open' \subseteq open
           /\ intent' \in {intent, NoIntent}
           /\ pc' \notin {"listing", "created", "recorded"}
  BY <1>0, <1>7
<1>8. CASE UNCHANGED <<posts, maker, confirmed, open, intent, pc, work>>
  BY <1>8
<1>9. QED
  BY <1>1, <1>2, <1>3, <1>4, <1>5, <1>6, <1>7, <1>8
  DEF Next, vars, Controller, Creation, Sync, Recovery, Start, StartMarker, Crash,
      ExternalCreate, Create, IntentRefused, TaskRefused, ListUnmapped, DropIntent,
      UncertainListed, CreateStored, CreateNotStored, MarkerCleared, IntentCleared,
      CreateCompleted, CreateFailed, SyncListed, SyncFailed, SyncArchived,
      SyncNotArchived, MarkerKept, MarkerApplied, MarkerUnlinked, SyncCompleted,
      Postpone, Decide, DecisionStored, DecisionNotStored, IntentClosed,
      DecisionCompleted, Align, PrintVoucher

\* The invariants a step of CreateOnce is read from.
OInv == IInv /\ Barrier /\ Justified /\ Existing /\ Replied

\* Whatever is not the end of a creation leaves the station's own vouchers.
LEMMA OwnStays ==
  ASSUME OInv, [Next]_vars, ~MarkerWritten, ~CreateStored, ~DecisionStored
  PROVE  Own' = Own
<1> USE DEF disk, memory, server, history
<1>0. /\ row \in [Voucher -> Row] /\ marker \in SUBSET Voucher
      /\ work.snapshot \in SUBSET Voucher
      /\ Own = marker \cup Apps(row) /\ Own' = marker' \cup Apps(row')
  BY DEF OInv, IInv, TypeOK, Work, Own, Apps
<1>1. CASE SyncArchived
  <2>1. PICK R \in SUBSET Omitted : row' = Upsert(row, work.snapshot \cup R)
    BY <1>1 DEF SyncArchived
  <2>2. R \in SUBSET Voucher
    BY <2>1 DEF Omitted, Archived
  <2>3. QED
    BY <1>0, <1>1, <2>1, <2>2, UpsertApps DEF SyncArchived
<1>2. CASE MarkerApplied \/ StartMarker
  BY <1>0, <1>2, MarkApps DEF MarkerApplied, StartMarker
<1>3. CASE UNCHANGED row /\ marker' \in {{}, marker}
           /\ pc \in {"stored", "classified", "booting"}
  <2>1. marker \subseteq Apps(row)
    BY <1>0, <1>3 DEF OInv, IInv, Tracking, Classified, Apps
  <2>2. QED
    BY <1>0, <1>3, <2>1
<1>4. CASE Align \/ PrintVoucher
  <2>1. \A v \in Voucher : row'[v].origin = row[v].origin
    BY <1>0, <1>4 DEF Align, PrintVoucher, Row
  <2>2. QED
    BY <1>0, <1>4, <2>1 DEF Align, PrintVoucher, Apps
<1>5. CASE UNCHANGED <<row, marker>>
  BY <1>0, <1>5
<1>6. QED
  BY <1>1, <1>2, <1>3, <1>4, <1>5
  DEF Next, vars, Controller, Creation, Sync, Recovery, Start, Crash,
      ExternalCreate, LateExecution, Create, IntentWritten, IntentRefused,
      TaskRefused, PostConfirmed, PostRefused, PostUncertain, PostUnmapped,
      ListUnmapped, UncertainListed, CreateListed, CreateNotStored, MarkerCleared,
      IntentCleared, CreateCompleted, CreateFailed, SyncListed, SyncFailed,
      SyncNotArchived, MarkerKept, MarkerUnlinked, SyncCompleted, Postpone, Decide,
      DecisionNotStored, IntentClosed, DecisionCompleted

\* Each step is a step of CreateOnce or leaves its variables.
LEMMA NextOnce ==
  ASSUME WellFormedReplies, OInv, [Next]_vars
  PROVE  [Once!OnceNext]_(Once!book)
<1> USE DEF disk, memory, server, history
<1>0. /\ row \in [Voucher -> Row] /\ marker \in SUBSET Voucher
      /\ work.created \in SUBSET Voucher /\ work.snapshot \in SUBSET Voucher
      /\ posts \in Nat /\ intent.post \in Nat /\ remote \in SUBSET Voucher
      /\ settled \subseteq 1..MaxPosts
      /\ Own = marker \cup Apps(row) /\ Own' = marker' \cup Apps(row')
  BY CreationAssumption DEF OInv, IInv, TypeOK, Work, Intent, Own, Apps
<1>1. CASE ExternalCreate
  <2>1. Own' = Own
    BY <1>1, <1>0 DEF ExternalCreate
  <2>2. Once!Foreign
    BY <1>0, <1>1, <2>1 DEF ExternalCreate, Once!Foreign
  <2>3. QED
    BY <2>2 DEF Once!OnceNext
<1>2. CASE LateExecution
  <2>1. Own' = Own
    BY <1>0, <1>2 DEF LateExecution
  <2>2. Once!Executed
    BY <1>2, <2>1 DEF LateExecution, Makes, Once!Executed, Once!Made
  <2>3. QED
    BY <2>2 DEF Once!OnceNext
<1>3. CASE PostConfirmed
  <2>1. Own' = Own /\ Once!Send /\ open' = {posts'}
    BY <1>0, <1>3 DEF PostConfirmed, Sent, OInv, Barrier, Once!Send
  <2>2. Once!Confirmed
    BY <1>3, <2>1 DEF PostConfirmed, Makes, Once!Confirmed, Once!Made
  <2>3. QED
    BY <2>2 DEF Once!OnceNext
<1>4. CASE PostRefused
  <2>1. Own' = Own /\ Once!Send
    BY <1>0, <1>4 DEF PostRefused, Sent, OInv, Barrier, Once!Send
  <2>2. Once!Refused
    BY <1>4, <2>1 DEF PostRefused, Once!Refused
  <2>3. QED
    BY <2>2 DEF Once!OnceNext
<1>5. CASE PostUncertain
  <2>1. Own' = Own /\ Once!Send /\ open' = {posts'}
    BY <1>0, <1>5 DEF PostUncertain, Sent, OInv, Barrier, Once!Send
  <2>2. Once!Unanswered
    BY <1>5, <2>1 DEF PostUncertain, Makes, Once!Unanswered, Once!Made
  <2>3. QED
    BY <2>2 DEF Once!OnceNext
<1>6. CASE MarkerWritten
  <2>1. CASE marker = {} /\ marker' = work.created /\ open' = open \ {posts}
    <3>1. intent.post = posts /\ posts \in open /\ open \subseteq {posts}
      BY <1>0, <1>6 DEF MarkerWritten, OInv, IInv, Numbering, Replied, Barrier
    <3>2. work.created # {} /\ Once!GivenBy(posts) = work.created
      BY <1>6, <3>1 DEF MarkerWritten, OInv, IInv, Tracking, OfIntent, Replied,
                        Once!GivenBy
    <3>3. Own' = Own \cup work.created /\ open' = {}
      BY <1>0, <1>6, <2>1, <3>1 DEF MarkerWritten
    <3>4. Once!Recorded
      BY <1>6, <3>1, <3>2, <3>3 DEF MarkerWritten, Once!Recorded
    <3>5. QED
      BY <3>4 DEF Once!OnceNext
  <2>2. CASE UNCHANGED <<marker, work, open>>
    BY <1>0, <1>6, <2>2 DEF MarkerWritten, Once!book
  <2>3. QED
    BY <1>6, <2>1, <2>2 DEF MarkerWritten
<1>7. CASE CreateStored
  <2> DEFINE U == Upsert(row, IF work.observed THEN work.snapshot
                                              ELSE work.created)
  <2>1. U \in [Voucher -> Row] /\ Apps(U) = Apps(row)
    BY <1>0, UpsertType, UpsertApps
  <2>2. row' = MarkApplicationCreated(U, work.created)
    BY <1>7 DEF CreateStored
  <2>3. Apps(row') = Apps(row) \cup work.created
    <3> HIDE DEF U
    <3> QED
      BY <1>0, <2>1, <2>2, MarkApps
  <2>4. Own' = Own \cup work.created
    BY <1>0, <1>7, <2>3 DEF CreateStored
  <2>5. intent.post = posts /\ open \subseteq {posts} /\ open' = {}
    BY <1>0, <1>7 DEF CreateStored, OInv, IInv, Numbering, Barrier
  <2>6. CASE posts \in open
    <3>1. work.created # {} /\ Once!GivenBy(posts) = work.created
      BY <1>7, <2>5 DEF CreateStored, OInv, IInv, Tracking, OfIntent, Replied,
                        Once!GivenBy
    <3>2. Once!Recorded
      BY <1>7, <2>4, <2>5, <2>6, <3>1 DEF CreateStored, Once!Recorded
    <3>3. QED
      BY <3>2 DEF Once!OnceNext
  <2>7. CASE posts \notin open
    <3>1. work.created \subseteq marker
      BY <1>7, <2>7 DEF CreateStored, OInv, IInv, Tracking, Replied
    <3>2. Own' = Own /\ open' = open
      BY <1>0, <2>4, <2>5, <2>7, <3>1
    <3>3. QED
      BY <1>7, <3>2 DEF CreateStored, Once!book
  <2>8. QED
    BY <2>6, <2>7
<1>8. CASE DecisionStored
  <2>1. open' = {}
    BY <1>8 DEF DecisionStored, OInv, Barrier
  <2>2. \/ settled' = settled \cup ({posts} \ {0})
        \/ settled' = settled /\ open = {}
    <3>1. intent.post # 0
      BY <1>8 DEF DecisionStored, OInv, IInv, Numbering
    <3>2. CASE intent.post = posts
      <4>1. posts \in 1..posts /\ posts # 0
        BY <1>0, <3>1, <3>2
      <4>2. {intent.post} \cap 1..posts = {posts} \ {0}
        BY <3>2, <4>1
      <4>3. QED
        BY <1>8, <4>2 DEF DecisionStored
    <3>3. CASE intent.post = posts + 1
      <4>1. open = {}
        BY <1>0, <3>3 DEF OInv, Barrier, Replied
      <4>2. {intent.post} \cap 1..posts = {}
        BY <1>0, <3>3
      <4>3. QED
        BY <1>8, <4>1, <4>2 DEF DecisionStored
    <3>4. QED
      BY <3>1, <3>2, <3>3 DEF OInv, Replied
  <2>3. settled' \in {settled, settled \cup ({posts} \ {0})} /\ open \subseteq settled'
    <3>1. open \subseteq {intent.post} /\ open \subseteq 1..posts
      BY DEF OInv, Barrier, Replied
    <3>2. open \subseteq settled'
      BY <1>8, <3>1 DEF DecisionStored
    <3>3. QED
      BY <2>2, <3>2
  <2>4. PICK S \in SUBSET remote : claimed' = claimed \cup S /\ Own' = Own \cup S
    <3>1. CASE pc = "associating"
      <4>1. Own' = Own \cup work.created /\ claimed' = claimed \cup work.created
        BY <1>0, <1>8, <3>1, MarkApps DEF DecisionStored
      <4>2. work.created \subseteq remote
        BY DEF OInv, Existing
      <4>3. QED
        BY <4>1, <4>2
    <3>2. CASE pc # "associating"
      <4>1. Own' = Own \cup {} /\ claimed' = claimed \cup {}
        BY <1>0, <1>8, <3>2 DEF DecisionStored
      <4>2. QED
        BY <4>1
    <3>3. QED
      BY <3>1, <3>2
  <2>5. Once!Answered
    BY <1>8, <2>1, <2>3, <2>4 DEF DecisionStored, Once!Answered
  <2>6. QED
    BY <2>5 DEF Once!OnceNext
<1>9. CASE UNCHANGED <<posts, open, wire, remote, maker, confirmed, claimed, settled>>
           /\ ~MarkerWritten /\ ~CreateStored /\ ~DecisionStored
  BY <1>9, OwnStays DEF Once!book
<1>10. CASE PostUnmapped \/ ListUnmapped
  BY <1>10 DEF PostUnmapped, ListUnmapped, WellFormedReplies
<1>11. QED
  BY <1>1, <1>2, <1>3, <1>4, <1>5, <1>6, <1>7, <1>8, <1>9, <1>10
  DEF Next, vars, Controller, Creation, Sync, Recovery, Start, StartMarker, Crash,
      Create, IntentWritten, IntentRefused, TaskRefused,
      UncertainListed, CreateListed, CreateNotStored, MarkerCleared, IntentCleared,
      CreateCompleted, CreateFailed, SyncListed, SyncFailed, SyncArchived,
      SyncNotArchived, MarkerKept, MarkerApplied, MarkerUnlinked, SyncCompleted,
      Postpone, Decide, DecisionNotStored, IntentClosed,
      DecisionCompleted, Align, PrintVoucher

-----------------------------------------------------------------------------
(* Theorems.                                                                *)

\* The initial state satisfies the invariant.
LEMMA InitInductive == Init => IInv
<1> SUFFICES ASSUME Init PROVE IInv
  OBVIOUS
<1>1. TypeOK
  BY InitType
<1>2. Numbering /\ Tracking /\ ConfirmedTracked
  BY DEF Init, NoIntent, Numbering, Tracking, ConfirmedTracked, InCreation
<1>3. QED
  BY <1>1, <1>2 DEF IInv

\* Types and numbering hold of every behaviour, with any replies.
LEMMA TypeInductive == Spec => [](TypeOK /\ Numbering)
<1>1. Init => TypeOK /\ Numbering
  BY InitInductive DEF IInv
<1>2. TypeOK /\ Numbering /\ [Next]_vars => (TypeOK /\ Numbering)'
  BY NextType, NextNumbering
<1>3. QED
  BY <1>1, <1>2, PTL DEF Spec

\* The invariant holds of every behaviour with well-formed replies.
LEMMA Inductive == ASSUME WellFormedReplies PROVE Spec => []IInv
<1>1. Init => IInv
  BY InitInductive
<1>2. IInv /\ [Next]_vars => IInv'
  BY NextType, NextNumbering, NextTracked DEF IInv
<1>3. QED
  BY <1>1, <1>2, PTL DEF Spec

\* Type correctness of the creation module for every instance, malformed
\* replies included.
THEOREM TypeCorrect == Spec => []TypeOK
  BY TypeInductive, PTL

\* A confirmed voucher is always classified, marked, or still the subject of
\* its pending intent or of an operator's decision, whatever step crashed.
THEOREM ConfirmedNeverForgotten ==
  ASSUME WellFormedReplies PROVE Spec => []ConfirmedTracked
<1>1. IInv => ConfirmedTracked
  BY DEF IInv
<1>2. QED
  BY <1>1, Inductive, PTL

\* A voucher counts as created by the application only after a 201 reply or
\* an answer of the operator, with any replies and any lists.
THEOREM OriginAlwaysJustified == Spec => []OriginJustified
<1>1. Init => Justified
  BY DEF Init, Justified, OriginJustified, NoRow
<1>2. TypeOK /\ Justified /\ [Next]_vars => Justified'
  BY NextJustified
<1>3. Justified => OriginJustified
  BY DEF Justified
<1>4. QED
  BY <1>1, <1>2, <1>3, TypeInductive, PTL DEF Spec

\* The application lists and prints what exists, with any replies.
LEMMA ExistingInductive == Spec => []Existing
<1>1. Init => Existing
  BY DEF Init, Existing, Archived, NoRow, NoWork
<1>2. TypeOK /\ Existing /\ [Next]_vars => Existing'
  BY NextExisting
<1>3. QED
  BY <1>1, <1>2, TypeInductive, PTL DEF Spec

\* A verified print is final for what the archive knew before a request and
\* for what no file of a creation names any more, with any replies.
THEOREM PrintEvidenceFinal == Spec => EvidenceFinal
<1>1. ASSUME TypeOK, Numbering, Existing, [Next]_vars,
             NEW v \in printed, row[v].print = "PRINTED"
      PROVE  \/ row'[v].print = "PRINTED" \/ v \in marker
             \/ intent # NoIntent /\ v \notin intent.baseline
  <2>0. /\ row \in [Voucher -> Row] /\ marker \in SUBSET Voucher
        /\ work.created \in SUBSET Voucher /\ work.snapshot \in SUBSET Voucher
        /\ v \in Voucher /\ v \in Archived(row)
    BY <1>1 DEF TypeOK, Work, Existing
  <2>1. CASE CreateStored
    <3> DEFINE S == IF work.observed THEN work.snapshot ELSE work.created
               U == Upsert(row, S)
    <3>1. U \in [Voucher -> Row] /\ U[v] = row[v]
      BY <2>0, UpsertType, UpsertAdds
    <3>2. row' = MarkApplicationCreated(U, work.created) /\ v \notin work.created
      BY <1>1, <2>1 DEF CreateStored, Existing
    <3>3. QED
      <4> HIDE DEF U
      <4> QED
        BY <1>1, <2>0, <3>1, <3>2, MarkAdds
  <2>2. CASE SyncArchived
    <3>1. PICK R \in SUBSET Omitted : row' = Upsert(row, work.snapshot \cup R)
      BY <2>2 DEF SyncArchived
    <3>2. R \in SUBSET Voucher
      BY <3>1 DEF Omitted, Archived
    <3>3. QED
      BY <1>1, <2>0, <3>1, <3>2, UpsertAdds
  <2>3. CASE MarkerApplied \/ StartMarker
    BY <1>1, <2>0, <2>3, MarkAdds DEF MarkerApplied, StartMarker
  <2>4. CASE DecisionStored
    <3>1. CASE pc = "associating"
      <4>1. intent # NoIntent
        BY <3>1, <1>1 DEF Numbering, NoIntent
      <4>2. work.created \cap intent.baseline = {}
        BY <3>1, <1>1 DEF Existing
      <4>3. QED
        BY <1>1, <2>0, <2>4, <3>1, <4>1, <4>2, MarkAdds DEF DecisionStored
    <3>2. CASE pc # "associating"
      BY <1>1, <2>4, <3>2 DEF DecisionStored
    <3>3. QED
      BY <3>1, <3>2
  <2>5. CASE Align \/ PrintVoucher
    BY <1>1, <2>0, <2>5 DEF Align, PrintVoucher, Row
  <2>6. CASE UNCHANGED row
    BY <1>1, <2>6
  <2>7. QED
    BY <1>1, <2>1, <2>2, <2>3, <2>4, <2>5, <2>6
    DEF Next, vars, Controller, Creation, Sync, Recovery, disk, memory, history,
      server, Start, Crash, ExternalCreate, LateExecution, Create, IntentWritten,
      IntentRefused, TaskRefused, PostConfirmed, PostRefused, PostUncertain, PostUnmapped,
      ListUnmapped, UncertainListed, CreateListed, MarkerWritten, CreateNotStored,
      MarkerCleared, IntentCleared, CreateCompleted, CreateFailed, SyncListed,
      SyncFailed, SyncNotArchived, MarkerKept, MarkerUnlinked, SyncCompleted,
      Postpone, Decide, DecisionNotStored, IntentClosed, DecisionCompleted
<1>2. TypeOK /\ Numbering /\ Existing /\ [Next]_vars =>
        \A v \in printed :
          row[v].print = "PRINTED" =>
            \/ row'[v].print = "PRINTED" \/ v \in marker
            \/ intent # NoIntent /\ v \notin intent.baseline
  BY <1>1
<1>3. QED
  BY <1>2, TypeInductive, ExistingInductive, PTL DEF Spec, EvidenceFinal

\* The barrier holds of every behaviour with well-formed replies.
LEMMA BarrierInductive == ASSUME WellFormedReplies PROVE Spec => []Barrier
<1>1. Init => Barrier
  BY DEF Init, Barrier
<1>2. TypeOK /\ Numbering /\ Barrier /\ [Next]_vars => Barrier'
  BY NextBarrier
<1>3. QED
  BY <1>1, <1>2, TypeInductive, PTL DEF Spec

\* No POST while an earlier one is open, over every crash and file error.
THEOREM CreateNeverRepeated == ASSUME WellFormedReplies PROVE Spec => NoReplay
<1>1. Barrier /\ [Next]_vars => (posts' # posts => open = {})
  <2> SUFFICES ASSUME Barrier, [Next]_vars, posts' # posts
               PROVE  open = {}
    OBVIOUS
  <2>1. pc = "armed"
    BY DEF Next, vars, Controller, Creation, Sync, Recovery, disk, memory, history,
      server, Start, StartMarker, Crash, Align, PrintVoucher, ExternalCreate,
      LateExecution, Create, IntentWritten, IntentRefused, TaskRefused,
      PostConfirmed, PostRefused, PostUncertain, PostUnmapped, Sent, ListUnmapped,
      UncertainListed,
      CreateListed, MarkerWritten, CreateStored, CreateNotStored, MarkerCleared,
      IntentCleared, CreateCompleted, CreateFailed, SyncListed, SyncFailed,
      SyncArchived, SyncNotArchived, MarkerKept, MarkerApplied, MarkerUnlinked,
      SyncCompleted, Postpone, Decide, DecisionStored, DecisionNotStored,
      IntentClosed, DecisionCompleted
  <2>2. QED
    BY <2>1 DEF Barrier
<1>2. QED
  BY <1>1, BarrierInductive, PTL DEF Spec, NoReplay

\* Everything OInv says holds of every behaviour with well-formed replies.
LEMMA OnceInductive == ASSUME WellFormedReplies PROVE Spec => []OInv
<1>1. Init => Justified
  BY DEF Init, Justified, OriginJustified, NoRow
<1>2. TypeOK /\ Justified /\ [Next]_vars => Justified'
  BY NextJustified
<1>3. Init => Replied
  BY DEF Init, Replied, NoIntent
<1>4. TypeOK /\ Numbering /\ Existing /\ Replied /\ [Next]_vars => Replied'
  BY NextReplied
<1>5. IInv /\ Barrier /\ Justified /\ Existing /\ Replied => OInv
  BY DEF OInv
<1>6. QED
  BY <1>1, <1>2, <1>3, <1>4, <1>5, TypeInductive, Inductive, ExistingInductive,
     BarrierInductive, PTL DEF Spec

\* With well-formed replies the creations of the station follow CreateOnce:
\* every file, list, error, crash and recovery is a step of it or none.
THEOREM CreateOnceImplemented == ASSUME WellFormedReplies PROVE Spec => OnceKept
<1>1. Init => Once!OnceInit
  BY DEF Init, Once!OnceInit, Own, NoRow
<1>2. OInv /\ [Next]_vars => [Once!OnceNext]_(Once!book)
  BY NextOnce
<1>3. QED
  BY <1>1, <1>2, OnceInductive, PTL DEF Spec, OnceKept, Once!OnceSpec

\* Why CreateOnce accounts for every voucher: a creation that is still to be
\* executed has named none, and a reply names all its creation has made.
Accounts ==
  /\ posts \in Nat /\ remote \subseteq Voucher /\ maker \in [Voucher -> 0..posts]
  /\ \A v \in Voucher \ remote : maker[v] = 0
  /\ open \cup settled \subseteq 1..posts /\ wire \subseteq open \cup settled
  /\ \A v \in confirmed : maker[v] # 0 /\ maker[v] \notin wire
  /\ \A v \in confirmed, w \in remote : maker[w] = maker[v] => w \in confirmed
  /\ Once!Accounted

\* Each step of CreateOnce keeps that.
LEMMA NextAccounts ==
  ASSUME Accounts, [Once!OnceNext]_(Once!book)
  PROVE  Accounts'
<1> USE DEF Accounts, Once!Accounted
<1>1. CASE Once!Foreign
  BY <1>1 DEF Once!Foreign
<1>2. CASE Once!Confirmed
  <2>1. PICK S \in SUBSET Voucher :
          /\ S \subseteq Voucher \ remote /\ remote' = remote \cup S
          /\ maker' = [v \in Voucher |-> IF v \in S THEN posts' ELSE maker[v]]
          /\ confirmed' = confirmed \cup S
    BY <1>2 DEF Once!Confirmed, Once!Made
  <2>2. /\ posts' = posts + 1 /\ open = {} /\ open' = {posts'}
        /\ UNCHANGED <<wire, claimed, settled, Own>>
    BY <1>2 DEF Once!Confirmed, Once!Send
  <2>3. QED
    BY <2>1, <2>2
<1>3. CASE Once!Refused
  BY <1>3 DEF Once!Refused, Once!Send
<1>4. CASE Once!Unanswered
  <2>1. /\ posts' = posts + 1 /\ open = {} /\ open' = {posts'}
        /\ UNCHANGED <<confirmed, claimed, settled, Own>>
    BY <1>4 DEF Once!Unanswered, Once!Send
  <2>2. CASE \E S \in SUBSET Voucher : Once!Made(S, posts') /\ UNCHANGED wire
    BY <2>1, <2>2 DEF Once!Made
  <2>3. CASE wire' \in {wire, wire \cup {posts'}} /\ UNCHANGED <<remote, maker>>
    BY <2>1, <2>3
  <2>4. QED
    BY <1>4, <2>2, <2>3 DEF Once!Unanswered
<1>5. CASE Once!Executed
  BY <1>5 DEF Once!Executed, Once!Made
<1>6. CASE Once!Recorded
  <2>1. PICK p \in open : /\ Once!GivenBy(p) # {} /\ open' = {}
                          /\ Own' = Own \cup Once!GivenBy(p)
    BY <1>6 DEF Once!Recorded
  <2>2. \A v \in remote : maker[v] = p => v \in Own'
    BY <2>1 DEF Once!GivenBy
  <2>3. open = {p} /\ p \notin wire /\ Once!GivenBy(p) \subseteq confirmed
    BY <2>1 DEF Once!GivenBy
  <2>4. QED
    BY <1>6, <2>1, <2>2, <2>3 DEF Once!Recorded
<1>7. CASE Once!Answered
  BY <1>7 DEF Once!Answered
<1>8. CASE UNCHANGED Once!book
  BY <1>8 DEF Once!book
<1>9. QED
  BY <1>1, <1>2, <1>3, <1>4, <1>5, <1>6, <1>7, <1>8 DEF Once!OnceNext

\* CreateOnce accounts for its vouchers: only the last creation is pending,
\* and what any creation made is the station's own, or the operator's to
\* answer for, or answered for, whether a reply ever came or not.
THEOREM OnceIsAccounted == OnceKept => []Once!Accounted
<1>1. Once!OnceInit => Accounts
  BY DEF Once!OnceInit, Accounts, Once!Accounted
<1>2. Accounts /\ [Once!OnceNext]_(Once!book) => Accounts'
  BY NextAccounts
<1>3. Accounts => Once!Accounted
  BY DEF Accounts
<1>4. QED
  BY <1>1, <1>2, <1>3, PTL DEF OnceKept, Once!OnceSpec

\* With well-formed replies no voucher a creation of this station made is
\* forgotten, at any step, after any crash, file error or late execution.
THEOREM NothingForgotten ==
  ASSUME WellFormedReplies PROVE Spec => []Once!Accounted
  BY CreateOnceImplemented, OnceIsAccounted, PTL

=============================================================================
