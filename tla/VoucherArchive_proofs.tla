------------------------- MODULE VoucherArchive_proofs -------------------------
(***************************************************************************)
(* Proofs about VoucherArchive for every set of vouchers, with truthful or *)
(* stale lists and with or without late executions.  Known says where the  *)
(* archive's vouchers are, Evidence what each step of an operation has     *)
(* established before it writes, Exclusive why the two workflows never     *)
(* claim the same voucher, Remembered and Unanswered what ties a DELETE to *)
(* its request, Truthful what only holds when no list is stale, Living     *)
(* what makes every step a step of VoucherLife for each voucher.           *)
(***************************************************************************)
EXTENDS VoucherArchive, TLAPS

\* The vouchers that exist or existed.
Ever == remote \cup gone

\* Rows are of vouchers that exist or existed; an absent one is gone.
Known ==
  /\ remote \cap gone = {}
  /\ known \subseteq Ever /\ present \subseteq known
  /\ known \ present \subseteq gone
  /\ deleted \cup revoked \subseteq gone

\* What the operation in progress is about to store.
Evidence ==
  /\ pc \in {"listed", "verified", "recovered"} => work.list \subseteq Ever
  /\ pc \in {"relisted", "recorded"} /\ work.listed => work.list \subseteq Ever
  /\ pc = "verified" => work.absent \subseteq gone
  /\ pc = "deleting" => work.batch \ work.todo \subseteq gone
  /\ pc \in {"removed", "relisted", "recorded"} => work.batch \subseteq gone
  /\ pc \in {"deciding", "deleting", "removed"} => ~work.listed
  /\ pc = "sending" => \A u, v \in work.batch : u = v
  /\ pc = "revoked" => work.batch \subseteq gone
  /\ pc \in RevokeSteps => work.todo \subseteq known

\* A pending revocation is of a printed voucher, a pending deletion of one
\* that no list has shown since it was printed.
Exclusive ==
  /\ seen \subseteq printed /\ revoking \subseteq printed
  /\ deleting \cap seen = {}
  /\ pc \in RevokeSteps => work.todo \subseteq printed \ deleting
  /\ pc \in {"sending", "revoked"} => work.batch \subseteq revoking

\* What this station sends has its request before, an outcome after.
Remembered ==
  /\ RequestRemembered
  /\ pc = "deleting" => work.todo \subseteq deleting

\* An unsettled DELETE still has its request, which blocks another one.
Unanswered ==
  /\ open \subseteq Pending
  /\ pc \in {"deleting", "removed", "relisted", "recorded", "sending",
            "revoked"} => work.batch \cap open = {}
  /\ pc = "deleting" => work.todo \subseteq work.batch
  /\ pc \in RevokeSteps => work.todo \cap revoking = {}

\* The operation in progress holds a list it may store.
Storing ==
  \/ pc \in {"listed", "verified", "recovered"}
  \/ pc \in {"relisted", "recorded"} /\ work.listed

\* No list holds what this station's answered DELETE removed.
Truthful ==
  /\ ours \cup detected \subseteq gone
  /\ Storing => work.list \cap ((ours \ wire) \cup deleted \cup revoked) = {}
  /\ pc \in {"relisted", "recorded"} /\ work.listed
       => work.list \cap work.batch = {}
  /\ present \cap (deleted \cup revoked) = {}
  /\ ReasonKept /\ DetectedAreForeign

\* What each step of the operation in progress has established of the lives of
\* its vouchers, and that only rows are aligned.
Living ==
  /\ aligned \subseteq known
  /\ pc = "verified" => work.absent \subseteq present \cap suspect
  /\ pc = "deleting" => work.batch \ work.todo \subseteq ours
  /\ pc \in {"removed", "relisted", "recorded", "revoked"} => work.batch \subseteq ours
  /\ pc = "recorded" => work.batch \cap present = {}
  /\ pc \in RevokeSteps => work.todo \subseteq (present \cap seen) \ revoked
  /\ pc \in {"sending", "revoked"} => work.batch \cap work.todo = {}

\* The parts of the inductive invariant beside the types.
Parts == Known /\ Evidence /\ Exclusive /\ PendingExamined /\ OneRequest

\* The inductive invariant.
IInv == TypeOK /\ Parts

-----------------------------------------------------------------------------
(* Type correctness.                                                        *)

\* An idle task is well typed.
LEMMA NoWorkType == NoWork \in Work
  BY DEF NoWork, Work

\* The initial state is well typed.
LEMMA InitType == Init => TypeOK
  BY NoWorkType DEF Init, TypeOK, Steps

\* What a list shows are vouchers.
LEMMA ListableType ==
  ASSUME TypeOK, NEW L \in Listable
  PROVE  L \in SUBSET Voucher
  BY DEF TypeOK, Listable

\* The transaction of a snapshot keeps the types.
LEMMA PersistType ==
  ASSUME TypeOK, NEW L \in SUBSET Voucher, NEW A \in SUBSET Voucher,
         Persist(L, A)
  PROVE  /\ known' \subseteq Voucher /\ present' \subseteq Voucher
         /\ suspect' \subseteq Voucher /\ seen' \subseteq Voucher
         /\ aligned' \subseteq Voucher /\ printed' \subseteq Voucher
         /\ deleting' \subseteq Voucher /\ deleted' \subseteq Voucher
         /\ revoking' \subseteq Voucher /\ revoked' \subseteq Voucher
         /\ unapplied' \subseteq Voucher /\ detected' \subseteq Voucher
         /\ open' \subseteq Voucher
  BY DEF TypeOK, Persist, Presence, Detected, Settle, Pending, facts

\* Every action keeps the types.
LEMMA NextType ==
  ASSUME TypeOK, [Next]_vars
  PROVE  TypeOK'
<1> USE DEF TypeOK, Work, Steps, SyncSteps, DeleteSteps, RevokeSteps, server,
            presence, facts, events, archive, memory
<1>0. /\ work.list \in SUBSET Voucher /\ work.absent \in SUBSET Voucher
      /\ work.batch \in SUBSET Voucher
      /\ Candidates \in SUBSET Voucher
  BY DEF Candidates
<1>1. CASE \E refresh \in BOOLEAN : SyncListed(refresh)
  <2>1. PICK refresh \in BOOLEAN, L \in Listable :
          work' = [NoWork EXCEPT !.list = L, !.cached = L, !.refresh = refresh]
    BY <1>1 DEF SyncListed
  <2>2. work' \in Work
    BY <2>1, ListableType, NoWorkType
  <2>3. QED
    BY <1>1, <2>2 DEF SyncListed
<1>2. CASE SyncFailed
  BY <1>2 DEF SyncFailed
<1>3. CASE SyncVerified
  BY <1>3 DEF SyncVerified, Examine, Suspected
<1>4. CASE SyncStored
  BY <1>4, <1>0, PersistType DEF SyncStored
<1>5. CASE ConnectionStored
  <2>1. Persist(work.list, {})
    BY <1>5 DEF ConnectionStored
  <2>2. {} \in SUBSET Voucher
    OBVIOUS
  <2>3. QED
    BY <1>5, <1>0, <2>1, <2>2, PersistType DEF ConnectionStored
<1>6. CASE SyncFinished
  BY <1>6 DEF SyncFinished, NoWork
<1>7. CASE DeleteOffered
  BY <1>7 DEF DeleteOffered
<1>8. CASE DeleteDeclined
  BY <1>8 DEF DeleteDeclined
<1>9. CASE DeleteAccepted
  BY <1>9 DEF DeleteAccepted, NoWork
<1>10. CASE DeleteRequested
  BY <1>10 DEF DeleteRequested, RequestDelete
<1>11. CASE DeleteRefused
  BY <1>11 DEF DeleteRefused, NoWork
<1>12. CASE DeleteConfirmed
  BY <1>12 DEF DeleteConfirmed, Confirmed, Removed
<1>13. CASE DeleteFailed
  BY <1>13 DEF DeleteFailed, Refused, Uncertain, Removed, NoWork
<1>14. CASE DeleteListed
  <2>1. work' \in Work
    <3>1. CASE \E L \in Listable : work' = [work EXCEPT !.list = L \ work.batch,
                                                       !.listed = TRUE]
      <4>1. PICK L \in Listable : work' = [work EXCEPT !.list = L \ work.batch,
                                                       !.listed = TRUE]
        BY <3>1
      <4>2. L \ work.batch \in SUBSET Voucher
        BY ListableType
      <4>3. QED
        BY <4>1, <4>2
    <3>2. CASE work' = [work EXCEPT !.list = work.cached \ work.batch]
      BY <3>2
    <3>3. QED
      BY <1>14, <3>1, <3>2 DEF DeleteListed
  <2>2. QED
    BY <1>14, <2>1 DEF DeleteListed
<1>15. CASE DeleteListBroken
  BY <1>15 DEF DeleteListBroken, NoWork
<1>16. CASE DeleteRecorded
  BY <1>16 DEF DeleteRecorded, ConfirmDelete
<1>17. CASE DeleteStored
  BY <1>17, <1>0, PersistType DEF DeleteStored
<1>18. CASE DeleteFinished
  BY <1>18 DEF DeleteFinished, NoWork
<1>19. CASE RecoveryListed
  <2>1. PICK L \in Listable : work' = [NoWork EXCEPT !.list = L]
    BY <1>19 DEF RecoveryListed
  <2>2. work' \in Work
    BY <2>1, ListableType, NoWorkType
  <2>3. QED
    BY <1>19, <2>2 DEF RecoveryListed
<1>20. CASE RecoveryStored
  <2>1. Persist(work.list, {})
    BY <1>20 DEF RecoveryStored
  <2>2. {} \in SUBSET Voucher
    OBVIOUS
  <2>3. QED
    BY <1>20, <1>0, <2>1, <2>2, PersistType DEF RecoveryStored
<1>21. CASE RecoveryFinished
  BY <1>21 DEF RecoveryFinished, NoWork
<1>22. CASE RecoveryFailed
  BY <1>22 DEF RecoveryFailed
<1>23. CASE RevokeStarted
  <2>1. PICK S \in SUBSET Candidates : work' = [NoWork EXCEPT !.todo = S]
    BY <1>23 DEF RevokeStarted
  <2>2. work' \in Work
    BY <1>0, <2>1, NoWorkType
  <2>3. QED
    BY <1>23, <2>2 DEF RevokeStarted
<1>24. CASE RevokeSkipped
  BY <1>24 DEF RevokeSkipped
<1>25. CASE RevokeRequested
  BY <1>25 DEF RevokeRequested
<1>26. CASE RevokeConfirmed
  BY <1>26 DEF RevokeConfirmed, Confirmed, Removed
<1>27. CASE RevokeFailed
  BY <1>27 DEF RevokeFailed, Refused, Uncertain, Removed
<1>28. CASE RevokeRecorded
  BY <1>28 DEF RevokeRecorded
<1>29. CASE RevokeUnrecorded
  BY <1>29 DEF RevokeUnrecorded
<1>30. CASE RevokeFinished
  BY <1>30 DEF RevokeFinished, NoWork
<1>31. CASE Align
  BY <1>31 DEF Align
<1>32. CASE PrintVoucher
  BY <1>32 DEF PrintVoucher
<1>33. CASE ExternalCreate
  BY <1>33 DEF ExternalCreate
<1>34. CASE ExternalDelete
  BY <1>34 DEF ExternalDelete
<1>35. CASE LateExecution
  BY <1>35 DEF LateExecution, Removed
<1>36. CASE Crash
  BY <1>36 DEF Crash, NoWork
<1>37. CASE Start
  BY <1>37 DEF Start
<1>38. CASE UNCHANGED vars
  BY <1>38 DEF vars
<1>39. QED
    BY <1>1, <1>2, <1>3, <1>4, <1>5, <1>6, <1>7, <1>8, <1>9, <1>10, <1>11,
     <1>12, <1>13, <1>14, <1>15, <1>16, <1>17, <1>18, <1>19, <1>20, <1>21,
     <1>22, <1>23, <1>24, <1>25, <1>26, <1>27, <1>28, <1>29, <1>30, <1>31,
     <1>32, <1>33, <1>34, <1>35, <1>36, <1>37, <1>38
     DEF Next, Refreshing, Deletion, Revocation, Environment

\* Types are right in every state.
THEOREM TypeCorrect == Spec => []TypeOK
<1>1. TypeOK /\ [Next]_vars => TypeOK'
  BY NextType
<1>2. QED
  BY InitType, <1>1, PTL DEF Spec

-----------------------------------------------------------------------------
(* The inductive invariant.                                                 *)

\* The initial state satisfies the invariant.
LEMMA InitInductive == Init => IInv
<1> SUFFICES ASSUME Init PROVE IInv
  OBVIOUS
<1>1. TypeOK
  BY InitType
<1>2. QED
  BY <1>1 DEF Init, IInv, Parts, Known, Ever, Evidence, RevokeSteps, Exclusive,
              PendingExamined, OneRequest, Pending

\* A transaction whose snapshot is of vouchers that exist or existed, and
\* whose absences are of vouchers that are gone.
LEMMA PersistInductive ==
  ASSUME IInv, NEW L \in SUBSET Ever, NEW A \in SUBSET gone, Persist(L, A),
         UNCHANGED server
  PROVE  /\ Known' /\ PendingExamined' /\ OneRequest'
         /\ seen' \subseteq printed' /\ revoking' \subseteq printed'
         /\ deleting' \cap seen' = {}
<1> USE DEF Persist, Presence, Settle, Pending, server, facts
<1>1. Known'
  BY DEF IInv, Parts, Known, Ever, PendingExamined
<1>2. PendingExamined' /\ OneRequest'
  BY DEF IInv, Parts, PendingExamined, OneRequest
<1>3. /\ seen' \subseteq printed' /\ revoking' \subseteq printed'
      /\ deleting' \cap seen' = {}
  BY DEF IInv, Parts, Exclusive
<1>4. QED
  BY <1>1, <1>2, <1>3

\* Every action keeps the parts.
LEMMA NextParts ==
  ASSUME IInv, [Next]_vars
  PROVE  Parts'
<1> USE DEF Known, Ever, Evidence, Exclusive, PendingExamined, OneRequest,
            Pending, RevokeSteps, server, presence, facts, events, archive,
            memory, Parts
<1>0. /\ TypeOK /\ Parts /\ work \in Work
  BY DEF IInv, TypeOK
<1>1. CASE \E refresh \in BOOLEAN : SyncListed(refresh)
  BY <1>1, <1>0 DEF SyncListed, NoWork, Listable
<1>2. CASE SyncFailed
  BY <1>2, <1>0 DEF SyncFailed
<1>3. CASE SyncVerified
  BY <1>3, <1>0 DEF SyncVerified, Examine, Suspected
<1>4. CASE SyncStored
  BY <1>4, <1>0, PersistInductive DEF SyncStored
<1>5. CASE ConnectionStored
  BY <1>5, <1>0, PersistInductive DEF ConnectionStored
<1>6. CASE SyncFinished
  BY <1>6, <1>0 DEF SyncFinished, NoWork
<1>7. CASE DeleteOffered
  BY <1>7, <1>0 DEF DeleteOffered
<1>8. CASE DeleteDeclined
  BY <1>8, <1>0 DEF DeleteDeclined
<1>9. CASE DeleteAccepted
  BY <1>9, <1>0 DEF DeleteAccepted, NoWork
<1>10. CASE DeleteRequested
  BY <1>10, <1>0 DEF DeleteRequested, RequestDelete, Requestable
<1>11. CASE DeleteRefused
  BY <1>11, <1>0 DEF DeleteRefused, NoWork
<1>12. CASE DeleteConfirmed
  BY <1>12, <1>0 DEF DeleteConfirmed, Confirmed, Removed
<1>13. CASE DeleteFailed
  BY <1>13, <1>0 DEF DeleteFailed, Refused, Uncertain, Removed, NoWork
<1>14. CASE DeleteListed
  <2>1. work'.batch = work.batch
    BY <1>14, <1>0 DEF DeleteListed, Work
  <2>2. work'.listed => work'.list \subseteq Ever
    <3>1. CASE \E L \in Listable : work' = [work EXCEPT !.list = L \ work.batch,
                                                       !.listed = TRUE]
      <4>1. PICK L \in Listable : work' = [work EXCEPT !.list = L \ work.batch,
                                                       !.listed = TRUE]
        BY <3>1
      <4>2. L \subseteq Ever
        BY DEF Listable
      <4>3. work'.list = L \ work.batch
        BY <4>1, <1>0 DEF Work
      <4>4. QED
        BY <4>2, <4>3
    <3>2. CASE work' = [work EXCEPT !.list = work.cached \ work.batch]
      BY <1>0, <1>14, <3>2 DEF Work, DeleteListed
    <3>3. QED
      BY <1>14, <3>1, <3>2 DEF DeleteListed
  <2>3. QED
    BY <1>14, <1>0, <2>1, <2>2 DEF DeleteListed
<1>15. CASE DeleteListBroken
  BY <1>15, <1>0 DEF DeleteListBroken, NoWork
<1>16. CASE DeleteRecorded
  BY <1>16, <1>0 DEF DeleteRecorded, ConfirmDelete
<1>17. CASE DeleteStored
  BY <1>17, <1>0, PersistInductive DEF DeleteStored
<1>18. CASE DeleteFinished
  BY <1>18, <1>0 DEF DeleteFinished, NoWork
<1>19. CASE RecoveryListed
  BY <1>19, <1>0 DEF RecoveryListed, NoWork, Listable
<1>20. CASE RecoveryStored
  BY <1>20, <1>0, PersistInductive DEF RecoveryStored
<1>21. CASE RecoveryFinished
  BY <1>21, <1>0 DEF RecoveryFinished, NoWork
<1>22. CASE RecoveryFailed
  BY <1>22, <1>0 DEF RecoveryFailed
<1>23. CASE RevokeStarted
  BY <1>23, <1>0 DEF RevokeStarted, NoWork, Candidates
<1>24. CASE RevokeSkipped
  BY <1>24, <1>0 DEF RevokeSkipped
<1>25. CASE RevokeRequested
  BY <1>25, <1>0 DEF RevokeRequested
<1>26. CASE RevokeConfirmed
  <2>1. PICK v \in work.batch : Confirmed(v)
    BY <1>26 DEF RevokeConfirmed
  <2>2. work.batch \subseteq gone'
    BY <1>26, <1>0, <2>1 DEF RevokeConfirmed, Confirmed, Removed
  <2>3. QED
    BY <1>26, <1>0, <2>1, <2>2 DEF RevokeConfirmed, Confirmed, Removed
<1>27. CASE RevokeFailed
  BY <1>27, <1>0 DEF RevokeFailed, Refused, Uncertain, Removed
<1>28. CASE RevokeRecorded
  BY <1>28, <1>0 DEF RevokeRecorded
<1>29. CASE RevokeUnrecorded
  BY <1>29, <1>0 DEF RevokeUnrecorded
<1>30. CASE RevokeFinished
  BY <1>30, <1>0 DEF RevokeFinished, NoWork
<1>31. CASE Align
  BY <1>31, <1>0 DEF Align
<1>32. CASE PrintVoucher
  BY <1>32, <1>0 DEF PrintVoucher
<1>33. CASE ExternalCreate
  BY <1>33, <1>0 DEF ExternalCreate
<1>34. CASE ExternalDelete
  BY <1>34, <1>0 DEF ExternalDelete
<1>35. CASE LateExecution
  BY <1>35, <1>0 DEF LateExecution, Removed
<1>36. CASE Crash
  BY <1>36, <1>0 DEF Crash, NoWork
<1>37. CASE Start
  BY <1>37, <1>0 DEF Start
<1>38. CASE UNCHANGED vars
  BY <1>38, <1>0 DEF vars
<1>39. QED
  BY <1>1, <1>2, <1>3, <1>4, <1>5, <1>6, <1>7, <1>8, <1>9, <1>10, <1>11,
     <1>12, <1>13, <1>14, <1>15, <1>16, <1>17, <1>18, <1>19, <1>20, <1>21,
     <1>22, <1>23, <1>24, <1>25, <1>26, <1>27, <1>28, <1>29, <1>30, <1>31,
     <1>32, <1>33, <1>34, <1>35, <1>36, <1>37, <1>38
     DEF Next, Refreshing, Deletion, Revocation, Environment

\* The list after a batch of DELETEs never holds the batch.
LEMMA Relisted ==
  ASSUME work \in Work, DeleteListed
  PROVE  /\ work'.batch = work.batch /\ work'.todo = work.todo
         /\ work'.listed => \/ work.listed
                            \/ \E L \in Listable : work'.list = L \ work.batch
<1>1. CASE \E L \in Listable : work' = [work EXCEPT !.list = L \ work.batch,
                                                   !.listed = TRUE]
  BY <1>1 DEF Work
<1>2. CASE work' = [work EXCEPT !.list = work.cached \ work.batch]
  BY <1>2 DEF Work
<1>3. QED
  BY <1>1, <1>2 DEF DeleteListed

\* A transaction keeps every request or turns it into an outcome.
LEMMA PersistRemembered ==
  ASSUME Remembered, NEW L, NEW A, Persist(L, A), UNCHANGED server
  PROVE  RequestRemembered'
  BY DEF Remembered, RequestRemembered, Persist, Settle, Pending, server

\* No action loses the request of a removal.
LEMMA NextRemembered ==
  ASSUME IInv, Remembered, [Next]_vars
  PROVE  Remembered'
<1> USE DEF Remembered, RequestRemembered, Exclusive, Pending,
            RevokeSteps, server, presence, facts, events, archive,
            memory
<1>0. TypeOK /\ Exclusive /\ work \in Work
  BY DEF IInv, Parts, TypeOK
<1>1. CASE \E refresh \in BOOLEAN : SyncListed(refresh)
  BY <1>1, <1>0 DEF SyncListed, NoWork, Listable
<1>2. CASE SyncFailed
  BY <1>2, <1>0 DEF SyncFailed
<1>3. CASE SyncVerified
  BY <1>3, <1>0 DEF SyncVerified, Examine, Suspected
<1>4. CASE SyncStored
  BY <1>4, <1>0, PersistRemembered DEF SyncStored
<1>5. CASE ConnectionStored
  BY <1>5, <1>0, PersistRemembered DEF ConnectionStored
<1>6. CASE SyncFinished
  BY <1>6, <1>0 DEF SyncFinished, NoWork
<1>7. CASE DeleteOffered
  BY <1>7, <1>0 DEF DeleteOffered
<1>8. CASE DeleteDeclined
  BY <1>8, <1>0 DEF DeleteDeclined
<1>9. CASE DeleteAccepted
  BY <1>9, <1>0 DEF DeleteAccepted, NoWork
<1>10. CASE DeleteRequested
  BY <1>10, <1>0 DEF DeleteRequested, RequestDelete, Requestable
<1>11. CASE DeleteRefused
  BY <1>11, <1>0 DEF DeleteRefused, NoWork
<1>12. CASE DeleteConfirmed
  BY <1>12, <1>0 DEF DeleteConfirmed, Confirmed, Removed
<1>13. CASE DeleteFailed
  BY <1>13, <1>0 DEF DeleteFailed, Refused, Uncertain, Removed, NoWork
<1>14. CASE DeleteListed
  BY <1>14, <1>0 DEF DeleteListed, Listable
<1>15. CASE DeleteListBroken
  BY <1>15, <1>0 DEF DeleteListBroken, NoWork
<1>16. CASE DeleteRecorded
  BY <1>16, <1>0 DEF DeleteRecorded, ConfirmDelete
<1>17. CASE DeleteStored
  BY <1>17, <1>0, PersistRemembered DEF DeleteStored
<1>18. CASE DeleteFinished
  BY <1>18, <1>0 DEF DeleteFinished, NoWork
<1>19. CASE RecoveryListed
  BY <1>19, <1>0 DEF RecoveryListed, NoWork, Listable
<1>20. CASE RecoveryStored
  BY <1>20, <1>0, PersistRemembered DEF RecoveryStored
<1>21. CASE RecoveryFinished
  BY <1>21, <1>0 DEF RecoveryFinished, NoWork
<1>22. CASE RecoveryFailed
  BY <1>22, <1>0 DEF RecoveryFailed
<1>23. CASE RevokeStarted
  BY <1>23, <1>0 DEF RevokeStarted, NoWork, Candidates
<1>24. CASE RevokeSkipped
  BY <1>24, <1>0 DEF RevokeSkipped
<1>25. CASE RevokeRequested
  BY <1>25, <1>0 DEF RevokeRequested
<1>26. CASE RevokeConfirmed
  BY <1>26, <1>0 DEF RevokeConfirmed, Confirmed, Removed
<1>27. CASE RevokeFailed
  BY <1>27, <1>0 DEF RevokeFailed, Refused, Uncertain, Removed
<1>28. CASE RevokeRecorded
  BY <1>28, <1>0 DEF RevokeRecorded
<1>29. CASE RevokeUnrecorded
  BY <1>29, <1>0 DEF RevokeUnrecorded
<1>30. CASE RevokeFinished
  BY <1>30, <1>0 DEF RevokeFinished, NoWork
<1>31. CASE Align
  BY <1>31, <1>0 DEF Align
<1>32. CASE PrintVoucher
  BY <1>32, <1>0 DEF PrintVoucher
<1>33. CASE ExternalCreate
  BY <1>33, <1>0 DEF ExternalCreate
<1>34. CASE ExternalDelete
  BY <1>34, <1>0 DEF ExternalDelete
<1>35. CASE LateExecution
  BY <1>35, <1>0 DEF LateExecution, Removed
<1>36. CASE Crash
  BY <1>36, <1>0 DEF Crash, NoWork
<1>37. CASE Start
  BY <1>37, <1>0 DEF Start
<1>38. CASE UNCHANGED vars
  BY <1>38, <1>0 DEF vars
<1>39. QED
  BY <1>1, <1>2, <1>3, <1>4, <1>5, <1>6, <1>7, <1>8, <1>9, <1>10,
     <1>11, <1>12, <1>13, <1>14, <1>15, <1>16, <1>17, <1>18, <1>19,
     <1>20, <1>21, <1>22, <1>23, <1>24, <1>25, <1>26, <1>27, <1>28,
     <1>29, <1>30, <1>31, <1>32, <1>33, <1>34, <1>35, <1>36, <1>37,
     <1>38
     DEF Next, Refreshing, Deletion, Revocation, Environment

\* A transaction closes the DELETEs whose requests it closes.
LEMMA PersistUnanswered ==
  ASSUME open \subseteq Pending, NEW L, NEW A, Persist(L, A)
  PROVE  open' \subseteq Pending' /\ revoking' \subseteq revoking /\ open' \subseteq open
  BY DEF Persist, Settle, Pending

\* No action sends a DELETE again before a reading has settled it.
LEMMA NextUnanswered ==
  ASSUME IInv, Remembered, Unanswered, [Next]_vars
  PROVE  Unanswered'
<1> USE DEF Unanswered, Remembered, Exclusive, Pending, RevokeSteps,
            server, presence, facts, events, archive,
            memory
<1>0. TypeOK /\ Exclusive /\ work \in Work /\ OneRequest
  BY DEF IInv, Parts, TypeOK
<1>1. CASE \E refresh \in BOOLEAN : SyncListed(refresh)
  BY <1>1, <1>0 DEF SyncListed, NoWork, Listable
<1>2. CASE SyncFailed
  BY <1>2, <1>0 DEF SyncFailed
<1>3. CASE SyncVerified
  BY <1>3, <1>0 DEF SyncVerified, Examine, Suspected
<1>4. CASE SyncStored
  BY <1>4, <1>0, PersistUnanswered DEF SyncStored
<1>5. CASE ConnectionStored
  BY <1>5, <1>0, PersistUnanswered DEF ConnectionStored
<1>6. CASE SyncFinished
  BY <1>6, <1>0 DEF SyncFinished, NoWork
<1>7. CASE DeleteOffered
  BY <1>7, <1>0 DEF DeleteOffered
<1>8. CASE DeleteDeclined
  BY <1>8, <1>0 DEF DeleteDeclined
<1>9. CASE DeleteAccepted
  BY <1>9, <1>0 DEF DeleteAccepted, NoWork
<1>10. CASE DeleteRequested
  BY <1>10, <1>0 DEF DeleteRequested, RequestDelete, Requestable
<1>11. CASE DeleteRefused
  BY <1>11, <1>0 DEF DeleteRefused, NoWork
<1>12. CASE DeleteConfirmed
  BY <1>12, <1>0 DEF DeleteConfirmed, Confirmed, Removed
<1>13. CASE DeleteFailed
  BY <1>13, <1>0 DEF DeleteFailed, Refused, Uncertain, Removed, NoWork
<1>14. CASE DeleteListed
  <2>1. work'.batch = work.batch /\ work'.todo = work.todo
    BY <1>14, <1>0, Relisted
  <2>2. QED
    BY <1>14, <1>0, <2>1 DEF DeleteListed
<1>15. CASE DeleteListBroken
  BY <1>15, <1>0 DEF DeleteListBroken, NoWork
<1>16. CASE DeleteRecorded
  BY <1>16, <1>0 DEF DeleteRecorded, ConfirmDelete
<1>17. CASE DeleteStored
  BY <1>17, <1>0, PersistUnanswered DEF DeleteStored
<1>18. CASE DeleteFinished
  BY <1>18, <1>0 DEF DeleteFinished, NoWork
<1>19. CASE RecoveryListed
  BY <1>19, <1>0 DEF RecoveryListed, NoWork, Listable
<1>20. CASE RecoveryStored
  BY <1>20, <1>0, PersistUnanswered DEF RecoveryStored
<1>21. CASE RecoveryFinished
  BY <1>21, <1>0 DEF RecoveryFinished, NoWork
<1>22. CASE RecoveryFailed
  BY <1>22, <1>0 DEF RecoveryFailed
<1>23. CASE RevokeStarted
  BY <1>23, <1>0 DEF RevokeStarted, NoWork, Candidates
<1>24. CASE RevokeSkipped
  BY <1>24, <1>0 DEF RevokeSkipped
<1>25. CASE RevokeRequested
  BY <1>25, <1>0 DEF RevokeRequested
<1>26. CASE RevokeConfirmed
  BY <1>26, <1>0 DEF RevokeConfirmed, Confirmed, Removed
<1>27. CASE RevokeFailed
  BY <1>27, <1>0 DEF RevokeFailed, Refused, Uncertain, Removed
<1>28. CASE RevokeRecorded
  BY <1>28, <1>0 DEF RevokeRecorded
<1>29. CASE RevokeUnrecorded
  BY <1>29, <1>0 DEF RevokeUnrecorded
<1>30. CASE RevokeFinished
  BY <1>30, <1>0 DEF RevokeFinished, NoWork
<1>31. CASE Align
  BY <1>31, <1>0 DEF Align
<1>32. CASE PrintVoucher
  BY <1>32, <1>0 DEF PrintVoucher
<1>33. CASE ExternalCreate
  BY <1>33, <1>0 DEF ExternalCreate
<1>34. CASE ExternalDelete
  BY <1>34, <1>0 DEF ExternalDelete
<1>35. CASE LateExecution
  BY <1>35, <1>0 DEF LateExecution, Removed
<1>36. CASE Crash
  BY <1>36, <1>0 DEF Crash, NoWork
<1>37. CASE Start
  BY <1>37, <1>0 DEF Start
<1>38. CASE UNCHANGED vars
  BY <1>38, <1>0 DEF vars
<1>39. QED
  BY <1>1, <1>2, <1>3, <1>4, <1>5, <1>6, <1>7, <1>8, <1>9, <1>10,
     <1>11, <1>12, <1>13, <1>14, <1>15, <1>16, <1>17, <1>18, <1>19,
     <1>20, <1>21, <1>22, <1>23, <1>24, <1>25, <1>26, <1>27, <1>28,
     <1>29, <1>30, <1>31, <1>32, <1>33, <1>34, <1>35, <1>36, <1>37,
     <1>38
     DEF Next, Refreshing, Deletion, Revocation, Environment

\* A transaction of lists that miss what this station removed.
LEMMA PersistTruthful ==
  ASSUME ~StaleLists, IInv, Remembered, Truthful, UNCHANGED server,
         NEW L \in SUBSET Ever, NEW A \in SUBSET gone, Persist(L, A),
         L \cap ((ours \ wire) \cup deleted \cup revoked) = {}
  PROVE  /\ (ours \cup detected)' \subseteq gone'
         /\ present' \cap (deleted \cup revoked)' = {}
         /\ ReasonKept' /\ DetectedAreForeign'
<1> USE DEF Persist, Presence, Settle, Detected, Pending, server, Truthful
<1>1. L \cap A = {} /\ present \cap (deleted \cup revoked) = {}
  OBVIOUS
<1>2. (ours \cup detected)' \subseteq gone'
  OBVIOUS
<1>3. present' \cap (deleted \cup revoked)' = {}
  BY <1>1
<1>4. ReasonKept'
  BY DEF ReasonKept
<1>5. DetectedAreForeign'
  BY <1>1 DEF DetectedAreForeign, Remembered, RequestRemembered
<1>6. QED
  BY <1>2, <1>3, <1>4, <1>5

\* No action loses the reason of a removal while lists are truthful.
LEMMA NextTruthful ==
  ASSUME ~StaleLists, IInv, Remembered, Truthful, [Next]_vars
  PROVE  Truthful'
<1> USE DEF Truthful, Storing, Pending, RevokeSteps, Known, Ever, Evidence,
            ReasonKept, DetectedAreForeign, Exclusive,
            server, presence, facts, events, archive,
            memory
<1>0. TypeOK /\ Known /\ Evidence /\ Exclusive /\ work \in Work
  BY DEF IInv, Parts, TypeOK
<1>1. CASE \E refresh \in BOOLEAN : SyncListed(refresh)
  BY <1>1, <1>0 DEF SyncListed, NoWork, Listable
<1>2. CASE SyncFailed
  BY <1>2, <1>0 DEF SyncFailed
<1>3. CASE SyncVerified
  BY <1>3, <1>0 DEF SyncVerified, Examine, Suspected
<1>4. CASE SyncStored
  BY <1>4, <1>0, PersistTruthful DEF SyncStored
<1>5. CASE ConnectionStored
  BY <1>5, <1>0, PersistTruthful DEF ConnectionStored
<1>6. CASE SyncFinished
  BY <1>6, <1>0 DEF SyncFinished, NoWork
<1>7. CASE DeleteOffered
  BY <1>7, <1>0 DEF DeleteOffered
<1>8. CASE DeleteDeclined
  BY <1>8, <1>0 DEF DeleteDeclined
<1>9. CASE DeleteAccepted
  BY <1>9, <1>0 DEF DeleteAccepted, NoWork
<1>10. CASE DeleteRequested
  BY <1>10, <1>0 DEF DeleteRequested, RequestDelete, Requestable
<1>11. CASE DeleteRefused
  BY <1>11, <1>0 DEF DeleteRefused, NoWork
<1>12. CASE DeleteConfirmed
  BY <1>12, <1>0 DEF DeleteConfirmed, Confirmed, Removed, Remembered
<1>13. CASE DeleteFailed
  BY <1>13, <1>0 DEF DeleteFailed, Refused, Uncertain, Removed, Remembered,
                      NoWork
<1>14. CASE DeleteListed
  <2>0. ~work.listed
    BY <1>14, <1>0 DEF DeleteListed
  <2>1. /\ work'.batch = work.batch
        /\ work'.listed => work'.list = remote \ work.batch
    BY <1>14, <1>0, <2>0, Relisted DEF Listable
  <2>2. QED
    BY <1>14, <1>0, <2>1 DEF DeleteListed
<1>15. CASE DeleteListBroken
  BY <1>15, <1>0 DEF DeleteListBroken, NoWork
<1>16. CASE DeleteRecorded
  BY <1>16, <1>0 DEF DeleteRecorded, ConfirmDelete
<1>17. CASE DeleteStored
  BY <1>17, <1>0, PersistTruthful DEF DeleteStored
<1>18. CASE DeleteFinished
  BY <1>18, <1>0 DEF DeleteFinished, NoWork
<1>19. CASE RecoveryListed
  BY <1>19, <1>0 DEF RecoveryListed, NoWork, Listable
<1>20. CASE RecoveryStored
  BY <1>20, <1>0, PersistTruthful DEF RecoveryStored
<1>21. CASE RecoveryFinished
  BY <1>21, <1>0 DEF RecoveryFinished, NoWork
<1>22. CASE RecoveryFailed
  BY <1>22, <1>0 DEF RecoveryFailed
<1>23. CASE RevokeStarted
  BY <1>23, <1>0 DEF RevokeStarted, NoWork, Candidates
<1>24. CASE RevokeSkipped
  BY <1>24, <1>0 DEF RevokeSkipped
<1>25. CASE RevokeRequested
  BY <1>25, <1>0 DEF RevokeRequested
<1>26. CASE RevokeConfirmed
  BY <1>26, <1>0 DEF RevokeConfirmed, Confirmed, Removed
<1>27. CASE RevokeFailed
  BY <1>27, <1>0 DEF RevokeFailed, Refused, Uncertain, Removed
<1>28. CASE RevokeRecorded
  BY <1>28, <1>0 DEF RevokeRecorded
<1>29. CASE RevokeUnrecorded
  BY <1>29, <1>0 DEF RevokeUnrecorded
<1>30. CASE RevokeFinished
  BY <1>30, <1>0 DEF RevokeFinished, NoWork
<1>31. CASE Align
  BY <1>31, <1>0 DEF Align
<1>32. CASE PrintVoucher
  BY <1>32, <1>0 DEF PrintVoucher
<1>33. CASE ExternalCreate
  BY <1>33, <1>0 DEF ExternalCreate
<1>34. CASE ExternalDelete
  BY <1>34, <1>0 DEF ExternalDelete
<1>35. CASE LateExecution
  BY <1>35, <1>0 DEF LateExecution, Removed
<1>36. CASE Crash
  BY <1>36, <1>0 DEF Crash, NoWork
<1>37. CASE Start
  BY <1>37, <1>0 DEF Start
<1>38. CASE UNCHANGED vars
  BY <1>38, <1>0 DEF vars
<1>39. QED
  BY <1>1, <1>2, <1>3, <1>4, <1>5, <1>6, <1>7, <1>8, <1>9, <1>10,
     <1>11, <1>12, <1>13, <1>14, <1>15, <1>16, <1>17, <1>18, <1>19,
     <1>20, <1>21, <1>22, <1>23, <1>24, <1>25, <1>26, <1>27, <1>28,
     <1>29, <1>30, <1>31, <1>32, <1>33, <1>34, <1>35, <1>36, <1>37,
     <1>38
     DEF Next, Refreshing, Deletion, Revocation, Environment

\* Each step preserves the invariant.
LEMMA NextInductive == IInv /\ [Next]_vars => IInv'
  BY NextType, NextParts DEF IInv

-----------------------------------------------------------------------------
(* Theorems.                                                                *)

\* The invariant holds of every behaviour.
LEMMA Invariant == Spec => []IInv
  BY InitInductive, NextInductive, PTL DEF Spec

\* No row leaves the controller in the archive before its voucher does.
THEOREM OmissionIsNoAbsence == Spec => []AbsenceProven
<1>1. IInv => AbsenceProven
  BY DEF IInv, Parts, Known, AbsenceProven
<1>2. QED
  BY Invariant, <1>1, PTL

\* A recorded deletion or revocation is of a voucher that is gone.
THEOREM OutcomesTrue == Spec => []OutcomeTrue
<1>1. IInv => OutcomeTrue
  BY DEF IInv, Parts, Known, OutcomeTrue
<1>2. QED
  BY Invariant, <1>1, PTL

\* Every pending request is on a row that refreshes examine.
THEOREM PendingAlwaysExamined == Spec => []PendingExamined
<1>1. IInv => PendingExamined
  BY DEF IInv, Parts
<1>2. QED
  BY Invariant, <1>1, PTL

\* No voucher is claimed by a deletion and by a revocation.
THEOREM OneRequestOnly == Spec => []OneRequest
<1>1. IInv => OneRequest
  BY DEF IInv, Parts
<1>2. QED
  BY Invariant, <1>1, PTL

\* So does what the archive remembers of every removal, with any lists.
LEMMA InvariantRemembered == Spec => [](IInv /\ Remembered /\ Unanswered)
<1>1. Init => Remembered /\ Unanswered
  BY DEF Init, Remembered, RequestRemembered, Unanswered, Pending, RevokeSteps
<1>2. QED
  BY <1>1, InitInductive, NextInductive, NextRemembered, NextUnanswered, PTL
     DEF Spec

\* And, where lists are truthful, the reasons it gives.
LEMMA InvariantTruthful ==
  ASSUME ~StaleLists
  PROVE  Spec => [](IInv /\ Remembered /\ Truthful)
<1>1. Init => Remembered /\ Truthful
  BY DEF Init, Remembered, RequestRemembered, Truthful, Storing, ReasonKept,
         DetectedAreForeign, Pending
<1>2. IInv /\ Remembered /\ Truthful /\ [Next]_vars => Truthful'
  BY NextTruthful
<1>3. QED
  BY <1>1, <1>2, InitInductive, NextInductive, NextRemembered, PTL DEF Spec

\* Whatever this station removed has a request or an outcome.
THEOREM RemovalsRemembered == Spec => []RequestRemembered
<1>1. Remembered => RequestRemembered
  BY DEF Remembered
<1>2. QED
  BY InvariantRemembered, <1>1, PTL

\* No DELETE is repeated before a reading has settled the first.
THEOREM NoDeleteReplayed == Spec => []DeleteNotReplayed
<1>1. Unanswered => DeleteNotReplayed
  BY DEF Unanswered, DeleteNotReplayed
<1>2. QED
  BY InvariantRemembered, <1>1, PTL

\* With truthful lists the reason of a removal is kept.
THEOREM ReasonsKept ==
  ASSUME ~StaleLists
  PROVE  Spec => []ReasonKept
<1>1. Truthful => ReasonKept
  BY DEF Truthful
<1>2. QED
  BY InvariantTruthful, <1>1, PTL

\* With truthful lists no removal of this station is reported as of others.
THEOREM DetectionsForeign ==
  ASSUME ~StaleLists
  PROVE  Spec => []DetectedAreForeign
<1>1. Truthful => DetectedAreForeign
  BY DEF Truthful
<1>2. QED
  BY InvariantTruthful, <1>1, PTL

-----------------------------------------------------------------------------
(* The lives of the vouchers: the operation in progress.                    *)

\* No action breaks it.
LEMMA NextLiving ==
  ASSUME IInv, Living, [Next]_vars
  PROVE  Living'
<1> USE DEF Living, RevokeSteps, server, presence, facts, events, archive, memory
<1>0. TypeOK /\ Known /\ Evidence /\ Exclusive /\ work \in Work
  BY DEF IInv, Parts, TypeOK
<1>1. CASE \E refresh \in BOOLEAN : SyncListed(refresh)
  BY <1>1, <1>0 DEF SyncListed, NoWork, Listable
<1>2. CASE SyncFailed
  BY <1>2, <1>0 DEF SyncFailed
<1>3. CASE SyncVerified
  BY <1>3, <1>0 DEF SyncVerified, Examine, Suspected, Work
<1>4. CASE SyncStored
  BY <1>4, <1>0 DEF SyncStored, Persist, Presence
<1>5. CASE ConnectionStored
  BY <1>5, <1>0 DEF ConnectionStored, Persist, Presence
<1>6. CASE SyncFinished
  BY <1>6, <1>0 DEF SyncFinished, NoWork
<1>7. CASE DeleteOffered
  BY <1>7, <1>0 DEF DeleteOffered
<1>8. CASE DeleteDeclined
  BY <1>8, <1>0 DEF DeleteDeclined
<1>9. CASE DeleteAccepted
  BY <1>9, <1>0 DEF DeleteAccepted, NoWork
<1>10. CASE DeleteRequested
  BY <1>10, <1>0 DEF DeleteRequested, RequestDelete, Work
<1>11. CASE DeleteRefused
  BY <1>11, <1>0 DEF DeleteRefused, NoWork
<1>12. CASE DeleteConfirmed
  BY <1>12, <1>0 DEF DeleteConfirmed, Confirmed, Removed, Work
<1>13. CASE DeleteFailed
  BY <1>13, <1>0 DEF DeleteFailed, Refused, Uncertain, Removed, NoWork
<1>14. CASE DeleteListed
  <2>1. work'.batch = work.batch /\ work'.todo = work.todo
    BY <1>14, <1>0, Relisted
  <2>2. QED
    BY <1>14, <1>0, <2>1 DEF DeleteListed
<1>15. CASE DeleteListBroken
  BY <1>15, <1>0 DEF DeleteListBroken, NoWork
<1>16. CASE DeleteRecorded
  BY <1>16, <1>0 DEF DeleteRecorded, ConfirmDelete
<1>17. CASE DeleteStored
  BY <1>17, <1>0 DEF DeleteStored, Persist, Presence
<1>18. CASE DeleteFinished
  BY <1>18, <1>0 DEF DeleteFinished, NoWork
<1>19. CASE RecoveryListed
  BY <1>19, <1>0 DEF RecoveryListed, NoWork, Listable
<1>20. CASE RecoveryStored
  BY <1>20, <1>0 DEF RecoveryStored, Persist, Presence
<1>21. CASE RecoveryFinished
  BY <1>21, <1>0 DEF RecoveryFinished, NoWork
<1>22. CASE RecoveryFailed
  BY <1>22, <1>0 DEF RecoveryFailed
<1>23. CASE RevokeStarted
  BY <1>23, <1>0 DEF RevokeStarted, NoWork, Candidates
<1>24. CASE RevokeSkipped
  BY <1>24, <1>0 DEF RevokeSkipped, Work
<1>25. CASE RevokeRequested
  BY <1>25, <1>0 DEF RevokeRequested, Work
<1>26. CASE RevokeConfirmed
  <2>1. PICK v \in work.batch : Confirmed(v)
    BY <1>26 DEF RevokeConfirmed
  <2>2. work.batch \subseteq ours'
    BY <1>26, <1>0, <2>1 DEF RevokeConfirmed, Confirmed, Removed, Evidence
  <2>3. QED
    BY <1>26, <1>0, <2>2 DEF RevokeConfirmed, Confirmed, Removed
<1>27. CASE RevokeFailed
  BY <1>27, <1>0 DEF RevokeFailed, Refused, Uncertain, Removed, Work
<1>28. CASE RevokeRecorded
  BY <1>28, <1>0 DEF RevokeRecorded, Work
<1>29. CASE RevokeUnrecorded
  BY <1>29, <1>0 DEF RevokeUnrecorded, Work
<1>30. CASE RevokeFinished
  BY <1>30, <1>0 DEF RevokeFinished, NoWork
<1>31. CASE Align
  BY <1>31, <1>0 DEF Align
<1>32. CASE PrintVoucher
  BY <1>32, <1>0 DEF PrintVoucher, Free
<1>33. CASE ExternalCreate
  BY <1>33, <1>0 DEF ExternalCreate
<1>34. CASE ExternalDelete
  BY <1>34, <1>0 DEF ExternalDelete
<1>35. CASE LateExecution
  BY <1>35, <1>0 DEF LateExecution, Removed
<1>36. CASE Crash
  BY <1>36, <1>0 DEF Crash, NoWork
<1>37. CASE Start
  BY <1>37, <1>0 DEF Start
<1>38. CASE UNCHANGED vars
  BY <1>38, <1>0 DEF vars
<1>39. QED
  BY <1>1, <1>2, <1>3, <1>4, <1>5, <1>6, <1>7, <1>8, <1>9, <1>10,
     <1>11, <1>12, <1>13, <1>14, <1>15, <1>16, <1>17, <1>18, <1>19,
     <1>20, <1>21, <1>22, <1>23, <1>24, <1>25, <1>26, <1>27, <1>28,
     <1>29, <1>30, <1>31, <1>32, <1>33, <1>34, <1>35, <1>36, <1>37,
     <1>38
     DEF Next, Refreshing, Deletion, Revocation, Environment

-----------------------------------------------------------------------------
(* The refinement, for one voucher.                                         *)

\* The invariants the refinement needs, those of any lists.
LIInv == IInv /\ Remembered /\ Unanswered /\ Living

\* What the mapping reads.
mapped == <<remote, gone, ours, known, present, suspect, printed, seen,
            deleting, deleted, revoking, revoked, unapplied, detected>>

\* The mapping read case by case, before and after a step.
Read(v) ==
  /\ v \in remote => Place(v) = "there"
  /\ v \in gone \ remote => Place(v) = "gone"
  /\ v \notin remote \cup gone => Place(v) = "unborn"
  /\ v \notin known => Row(v) = "none"
  /\ v \in known \ present => Row(v) = "absent"
  /\ v \in (known \cap present) \cap suspect => Row(v) = "suspect"
  /\ v \in (known \cap present) \ suspect => Row(v) = "present"
  /\ v \notin printed => Paper(v) = "blank"
  /\ v \in printed \cap seen => Paper(v) = "seen"
  /\ v \in printed \ seen => Paper(v) = "printed"

\* Place, Row and Paper are what Read says they are.
LEMMA Reading ==
  ASSUME NEW v
  PROVE  Read(v) /\ Read(v)'
<1>1. Read(v)
  BY DEF Read, Place, Row, Paper
<1>2. Read(v)'
  BY DEF Read, Place, Row, Paper
<1>3. QED
  BY <1>1, <1>2

\* A step that leaves all of it alone is a stutter of every life.
LEMMA MappedStutter ==
  ASSUME NEW v, UNCHANGED mapped
  PROVE  UNCHANGED Life(v)!life
  BY DEF mapped, Life!life, Place, Row, Paper, Asked, Book

\* A transaction lists the voucher, omits it, ends it or leaves it alone.
LEMMA PersistLife ==
  ASSUME LIInv, NEW v \in Voucher, NEW L \in SUBSET Ever,
         NEW A \in SUBSET gone, Persist(L, A), UNCHANGED server,
         v \in A => v \in present \cap suspect \/ v \notin present \cup Pending
  PROVE  [Life(v)!LifeNext]_(Life(v)!life)
<1> USE DEF Persist, Presence, Settle, Detected, Pending, server, facts
<1>0. Known /\ Exclusive /\ PendingExamined /\ OneRequest
  BY DEF LIInv, IInv, Parts
<1>1. CASE v \in L
  <2>1. Place(v) # "unborn" /\ UNCHANGED <<Place(v), v \in ours>>
    BY <1>0, <1>1, Reading DEF Known, Ever, Read
  <2>2. Row(v)' = "present"
    BY <1>1, Reading DEF Read
  <2>3. Paper(v)' = IF Paper(v) = "blank" THEN "blank" ELSE "seen"
    BY <1>0, <1>1 DEF Paper
  <2>4. Asked(v)' = {}
    BY <1>1 DEF Asked
  <2>5. Book(v)' = IF Asked(v) = {} THEN Book(v) ELSE Book(v) \cup {"not applied"}
    BY <1>1 DEF Asked, Book
  <2>6. QED
    BY <2>1, <2>2, <2>3, <2>4, <2>5 DEF Life!Listed, Life!LifeNext
<1>2. CASE v \in A /\ v \in present
  <2>1. /\ Place(v) = "gone" /\ Row(v) = "suspect" /\ Row(v)' = "absent"
        /\ UNCHANGED <<Place(v), v \in ours, Paper(v)>>
    BY <1>0, <1>2, Reading DEF Known, Read
  <2>2. Asked(v)' = {}
    BY <1>2 DEF Asked
  <2>3. Book(v)' = Book(v) \cup (IF Asked(v) = {} THEN {"detected"} ELSE Asked(v))
    BY <1>0, <1>2 DEF Asked, Book, OneRequest
  <2>4. QED
    BY <2>1, <2>2, <2>3 DEF Life!Ended, Life!LifeNext
<1>3. CASE v \notin L /\ v \in present \ A
  <2>1. CASE v \in suspect
    <3>1. UNCHANGED <<Place(v), v \in ours, Paper(v)>>
      BY <1>3, Reading DEF Read
    <3>2. UNCHANGED Row(v)
      BY <1>3, <2>1, Reading DEF Read
    <3>3. UNCHANGED <<Asked(v), Book(v)>>
      BY <1>3 DEF Asked, Book
    <3>4. QED
      BY <3>1, <3>2, <3>3 DEF Life!life
  <2>2. CASE v \notin suspect
    <3>1. Life(v)!Omitted
      BY <1>0, <1>3, <2>2, Reading DEF Life!Omitted, Known, Read, Asked,
                                Book
    <3>2. QED
      BY <3>1 DEF Life!LifeNext
  <2>3. QED
    BY <2>1, <2>2
<1>4. CASE v \notin L \cup present
  <2>1. UNCHANGED <<Place(v), v \in ours, Paper(v)>>
    BY <1>4, Reading DEF Read
  <2>2. UNCHANGED Row(v)
    BY <1>4, Reading DEF Read
  <2>3. UNCHANGED <<Asked(v), Book(v)>>
    BY <1>0, <1>4 DEF PendingExamined, Asked, Book
  <2>4. QED
    BY <2>1, <2>2, <2>3 DEF Life!life
<1>5. QED
  BY <1>1, <1>2, <1>3, <1>4

\* This station's DELETE takes away a voucher whose request is on record.
LEMMA RemovedLife ==
  ASSUME LIInv, NEW v \in Voucher, NEW u \in remote, Removed(u),
         UNCHANGED archive, u \in Pending \cup unapplied
  PROVE  [Life(v)!LifeNext]_(Life(v)!life)
<1> USE DEF Removed, archive, presence, facts, events
<1>0. Known
  BY DEF LIInv, IInv, Parts
<1>1. UNCHANGED <<Row(v), Paper(v), Asked(v), Book(v)>>
  BY DEF Row, Paper, Asked, Book
<1>2. CASE u = v
  <2>1. Place(v) = "there" /\ Place(v)' = "gone" /\ (v \in ours)' = TRUE
    BY <1>0, <1>2, Reading DEF Known, Read
  <2>2. Asked(v) # {} \/ "not applied" \in Book(v)
    BY <1>2 DEF Asked, Book, Pending
  <2>3. QED
    BY <1>1, <2>1, <2>2 DEF Life!TakenByStation, Life!LifeNext
<1>3. CASE u # v
  <2>1. UNCHANGED <<Place(v), v \in ours>>
    BY <1>3 DEF Place
  <2>2. QED
    BY <1>1, <2>1 DEF Life!life
<1>4. QED
  BY <1>2, <1>3

\* The record of this station's own DELETE, as a step of the voucher's life.
EndedHere(v, outcome) ==
  /\ Place(v) = "gone" /\ v \in ours
  /\ Row(v) \in {"present", "suspect"} /\ Row(v)' = "absent"
  /\ Asked(v) = {outcome} /\ Asked(v)' = {}
  /\ Book(v)' = Book(v) \cup {outcome}
  /\ UNCHANGED <<Place(v), v \in ours, Paper(v)>>

\* Every action is a step of every life, or leaves it alone.
LEMMA NextLife ==
  ASSUME LIInv, NEW v \in Voucher, [Next]_vars
  PROVE  [Life(v)!LifeNext]_(Life(v)!life)
<1> USE DEF server, presence, facts, events, archive, memory
<1>0. /\ TypeOK /\ Known /\ Evidence /\ Exclusive /\ PendingExamined /\ OneRequest
      /\ Remembered /\ Unanswered /\ Living /\ work \in Work
  BY DEF LIInv, IInv, Parts, TypeOK
<1>1. CASE UNCHANGED mapped
  BY <1>1, MappedStutter
<1>2. CASE SyncStored
  BY <1>2, <1>0, PersistLife DEF SyncStored, Evidence, Living
<1>3. CASE ConnectionStored
  BY <1>3, <1>0, PersistLife DEF ConnectionStored, Evidence
<1>4. CASE DeleteStored
  BY <1>4, <1>0, PersistLife DEF DeleteStored, Evidence, Living, PendingExamined
<1>5. CASE RecoveryStored
  BY <1>5, <1>0, PersistLife DEF RecoveryStored, Evidence
<1>6. CASE DeleteRequested
  <2>1. CASE v \in work.batch
    <3>1. Life(v)!AskDeletion
      BY <1>6, <1>0, <2>1, Reading DEF DeleteRequested, Requestable, RequestDelete, Known,
         PendingExamined, Pending, Exclusive, Read, Asked, Book,
         Life!AskDeletion, Life!InRow
    <3>2. QED
      BY <3>1 DEF Life!LifeNext
  <2>2. CASE v \notin work.batch
    BY <1>6, <2>2, Reading DEF DeleteRequested, RequestDelete, Read, Asked, Book,
       Life!life
  <2>3. QED
    BY <2>1, <2>2
<1>7. CASE DeleteConfirmed
  <2>1. PICK u \in work.todo : Confirmed(u)
    BY <1>7 DEF DeleteConfirmed
  <2>2. u \in Pending
    BY <1>7, <1>0, <2>1 DEF DeleteConfirmed, Remembered, Pending
  <2>3. QED
    BY <1>7, <2>1, <2>2, RemovedLife DEF DeleteConfirmed, Confirmed
<1>8. CASE DeleteFailed
  <2>1. CASE Refused
    BY <1>8, <2>1, MappedStutter DEF DeleteFailed, Refused, mapped
  <2>2. ASSUME NEW u \in work.todo, Uncertain(u)
        PROVE  [Life(v)!LifeNext]_(Life(v)!life)
    <3>1. CASE u \in remote /\ Removed(u)
      <4>1. u \in Pending
        BY <1>8, <1>0 DEF DeleteFailed, Remembered, Pending
      <4>2. QED
        BY <1>8, <3>1, <4>1, RemovedLife DEF DeleteFailed
    <3>2. CASE UNCHANGED <<remote, gone, ours>>
      BY <1>8, <3>2, MappedStutter DEF DeleteFailed, mapped
    <3>3. QED
      BY <2>2, <3>1, <3>2 DEF Uncertain
  <2>3. QED
    BY <1>8, <2>1, <2>2 DEF DeleteFailed
<1>9. CASE DeleteRecorded
  <2>1. CASE v \in work.batch
    <3>1. /\ v \in gone \cap ours \cap deleting \cap present
          /\ UNCHANGED <<remote, gone, ours, known, printed, seen>>
      BY <1>9, <1>0, <2>1 DEF DeleteRecorded, Living, Evidence, PendingExamined, Pending
    <3>2. EndedHere(v, "deleted")
      BY <1>9, <1>0, <2>1, <3>1, Reading DEF DeleteRecorded, ConfirmDelete, Known,
         OneRequest, Read, Asked, Book, EndedHere
    <3>3. QED
      BY <3>2 DEF EndedHere, Life!Ended, Life!LifeNext
  <2>2. CASE v \notin work.batch
    BY <1>9, <2>2, Reading DEF DeleteRecorded, ConfirmDelete, Read, Asked, Book,
       Life!life
  <2>3. QED
    BY <2>1, <2>2
<1>10. CASE RevokeRequested
  <2>1. PICK u \in work.todo \cap remote : revoking' = revoking \cup {u}
    BY <1>10 DEF RevokeRequested
  <2>2. CASE v = u
    <3>1. v \in (present \cap seen) \ (deleting \cup revoking \cup revoked)
      BY <1>10, <1>0, <2>2 DEF RevokeRequested, RevokeSteps, Living, Exclusive, Unanswered
    <3>2. /\ Row(v) \in {"present", "suspect"} /\ Paper(v) = "seen"
          /\ UNCHANGED <<Place(v), v \in ours, Row(v), Paper(v)>>
      BY <1>10, <1>0, <3>1, Reading DEF RevokeRequested, Known, Exclusive, Read
    <3>3. Asked(v) = {} /\ Asked(v)' = {"revoked"} /\ "revoked" \notin Book(v)
      BY <1>10, <2>1, <2>2, <3>1 DEF RevokeRequested, Asked, Book
    <3>4. UNCHANGED Book(v)
      BY <1>10 DEF RevokeRequested, Book
    <3>5. QED
      BY <3>2, <3>3, <3>4 DEF Life!AskRevocation, Life!InRow, Life!LifeNext
  <2>3. CASE v # u
    BY <1>10, <2>1, <2>3, Reading DEF RevokeRequested, Read, Asked, Book, Life!life
  <2>4. QED
    BY <2>2, <2>3
<1>11. CASE RevokeConfirmed
  <2>1. PICK u \in work.batch : Confirmed(u)
    BY <1>11 DEF RevokeConfirmed
  <2>2. u \in Pending
    BY <1>11, <1>0, <2>1 DEF RevokeConfirmed, Exclusive, Pending
  <2>3. QED
    BY <1>11, <2>1, <2>2, RemovedLife DEF RevokeConfirmed, Confirmed
<1>12. CASE RevokeFailed
  <2>1. CASE Refused
    BY <1>12, <2>1, MappedStutter DEF RevokeFailed, Refused, mapped
  <2>2. ASSUME NEW u \in work.batch, Uncertain(u)
        PROVE  [Life(v)!LifeNext]_(Life(v)!life)
    <3>1. CASE u \in remote /\ Removed(u)
      <4>1. u \in Pending
        BY <1>12, <1>0 DEF RevokeFailed, Exclusive, Pending
      <4>2. QED
        BY <1>12, <3>1, <4>1, RemovedLife DEF RevokeFailed
    <3>2. CASE UNCHANGED <<remote, gone, ours>>
      BY <1>12, <3>2, MappedStutter DEF RevokeFailed, mapped
    <3>3. QED
      BY <2>2, <3>1, <3>2 DEF Uncertain
  <2>3. QED
    BY <1>12, <2>1, <2>2 DEF RevokeFailed
<1>13. CASE RevokeRecorded
  <2>1. CASE v \in work.batch
    <3>1. /\ v \in gone \cap ours \cap revoking \cap present
          /\ UNCHANGED <<remote, gone, ours, known, printed, seen>>
      BY <1>13, <1>0, <2>1 DEF RevokeRecorded, Living, Evidence, Exclusive,
         PendingExamined, Pending
    <3>2. EndedHere(v, "revoked")
      BY <1>13, <1>0, <2>1, <3>1, Reading DEF RevokeRecorded, Known,
         OneRequest, Read, Asked, Book, EndedHere
    <3>3. QED
      BY <3>2 DEF EndedHere, Life!Ended, Life!LifeNext
  <2>2. CASE v \notin work.batch
    BY <1>13, <2>2, Reading DEF RevokeRecorded, Read, Asked, Book, Life!life
  <2>3. QED
    BY <2>1, <2>2
<1>14. CASE PrintVoucher
  <2>1. PICK u \in shown \cap aligned : printed' = printed \cup {u} /\ seen' = seen \ {u}
    BY <1>14 DEF PrintVoucher
  <2>2. CASE v = u
    <3>1. Life(v)!PrintRecorded
      BY <1>14, <1>0, <2>1, <2>2, Reading DEF PrintVoucher, Living, Known,
         Exclusive, Read, Asked, Book, Life!PrintRecorded
    <3>2. QED
      BY <3>1 DEF Life!LifeNext
  <2>3. CASE v # u
    BY <1>14, <2>1, <2>3, Reading DEF PrintVoucher, Read, Asked, Book, Life!life
  <2>4. QED
    BY <2>2, <2>3
<1>15. CASE ExternalCreate
  <2>1. PICK u \in Voucher \ (remote \cup gone) : remote' = remote \cup {u}
    BY <1>15 DEF ExternalCreate
  <2>2. CASE v = u
    <3>1. Life(v)!Born
      BY <1>15, <1>0, <2>1, <2>2, Reading DEF ExternalCreate, Read, Asked, Book,
         Life!Born
    <3>2. QED
      BY <3>1 DEF Life!LifeNext
  <2>3. CASE v # u
    BY <1>15, <2>1, <2>3, Reading DEF ExternalCreate, Read, Asked, Book, Life!life
  <2>4. QED
    BY <2>2, <2>3
<1>16. CASE ExternalDelete
  <2>1. PICK u \in remote : remote' = remote \ {u} /\ gone' = gone \cup {u}
    BY <1>16 DEF ExternalDelete
  <2>2. CASE v = u
    <3>1. Life(v)!TakenByOthers
      BY <1>16, <1>0, <2>1, <2>2, Reading DEF ExternalDelete, Read, Asked, Book,
         Life!TakenByOthers
    <3>2. QED
      BY <3>1 DEF Life!LifeNext
  <2>3. CASE v # u
    BY <1>16, <2>1, <2>3, Reading DEF ExternalDelete, Read, Asked, Book, Life!life
  <2>4. QED
    BY <2>2, <2>3
<1>17. CASE LateExecution
  <2>1. PICK u \in wire \cap remote : Removed(u)
    BY <1>17 DEF LateExecution
  <2>2. u \in Pending \cup unapplied
    BY <1>0, <2>1 DEF Remembered, RequestRemembered, Known
  <2>3. QED
    BY <1>17, <2>1, <2>2, RemovedLife DEF LateExecution
<1>18. CASE UNCHANGED vars
  BY <1>18, <1>1 DEF vars, mapped
<1>19. CASE \/ \E refresh \in BOOLEAN : SyncListed(refresh)
            \/ SyncFailed \/ SyncVerified \/ SyncFinished
            \/ DeleteOffered \/ DeleteDeclined \/ DeleteAccepted \/ DeleteRefused
            \/ DeleteListed \/ DeleteListBroken \/ DeleteFinished
            \/ RecoveryListed \/ RecoveryFinished \/ RecoveryFailed
            \/ RevokeStarted \/ RevokeSkipped \/ RevokeUnrecorded
            \/ RevokeFinished \/ Align \/ Crash \/ Start
  BY <1>19, <1>1 DEF mapped, SyncListed, SyncFailed, SyncVerified, SyncFinished,
     DeleteOffered, DeleteDeclined, DeleteAccepted, DeleteRefused, DeleteListed,
     DeleteListBroken, DeleteFinished, RecoveryListed, RecoveryFinished,
     RecoveryFailed, RevokeStarted, RevokeSkipped, RevokeUnrecorded,
     RevokeFinished, Align, Crash, Start
<1>20. QED
  BY <1>2, <1>3, <1>4, <1>5, <1>6, <1>7, <1>8, <1>9, <1>10, <1>11, <1>12, <1>13,
     <1>14, <1>15, <1>16, <1>17, <1>18, <1>19
     DEF Next, Refreshing, Deletion, Revocation, Environment

\* All of it holds of every behaviour.
LEMMA InvariantLiving == Spec => []LIInv
<1>1. Init => Living
  BY DEF Init, Living, RevokeSteps
<1>2. LIInv /\ [Next]_vars => Living'
  BY NextLiving DEF LIInv
<1>3. QED
  BY <1>1, <1>2, InvariantRemembered, PTL DEF Spec, LIInv

\* The archive follows the life of every voucher.
THEOREM LivesAlwaysFollowed == Spec => LivesFollowed
<1>1. Init => \A v \in Voucher : Life(v)!LifeInit
  BY DEF Init, Life!LifeInit, Place, Row, Paper, Asked, Book
<1>2. LIInv /\ [Next]_vars
        => \A v \in Voucher : [Life(v)!LifeNext]_(Life(v)!life)
  BY NextLife
<1>3. QED
  BY <1>1, <1>2, InvariantLiving, PTL DEF Spec, LivesFollowed

\* So each voucher's part of the archive implements VoucherLife.
THEOREM VoucherImplementsLife ==
  ASSUME NEW v \in Voucher
  PROVE  Spec => Life(v)!LifeSpec
<1>1. Init => Life(v)!LifeInit
  BY DEF Init, Life!LifeInit, Place, Row, Paper, Asked, Book
<1>2. LIInv /\ [Next]_vars => [Life(v)!LifeNext]_(Life(v)!life)
  BY NextLife
<1>3. QED
  BY <1>1, <1>2, InvariantLiving, PTL DEF Spec, Life!LifeSpec

-----------------------------------------------------------------------------
(* What a life promises a reader of the archive.                            *)

\* A step of a life keeps what VoucherLife promises a reader.
LEMMA LifeConsistentStep ==
  ASSUME NEW v \in Voucher, Life(v)!Consistent, [Life(v)!LifeNext]_(Life(v)!life)
  PROVE  Life(v)!Consistent'
<1> USE DEF Life!Consistent, Life!InRow
<1>1. CASE Life(v)!Born
  BY <1>1 DEF Life!Born
<1>2. CASE Life(v)!TakenByOthers
  BY <1>2 DEF Life!TakenByOthers
<1>3. CASE Life(v)!TakenByStation
  BY <1>3 DEF Life!TakenByStation
<1>4. CASE Life(v)!PrintRecorded
  BY <1>4 DEF Life!PrintRecorded
<1>5. CASE Life(v)!Listed
  BY <1>5 DEF Life!Listed
<1>6. CASE Life(v)!Omitted
  BY <1>6 DEF Life!Omitted
<1>7. CASE Life(v)!AskDeletion
  BY <1>7 DEF Life!AskDeletion
<1>8. CASE Life(v)!AskRevocation
  BY <1>8 DEF Life!AskRevocation
<1>9. CASE Life(v)!Ended
  BY <1>9 DEF Life!Ended
<1>10. CASE UNCHANGED Life(v)!life
  BY <1>10 DEF Life!life
<1>11. QED
  BY <1>1, <1>2, <1>3, <1>4, <1>5, <1>6, <1>7, <1>8, <1>9, <1>10 DEF Life!LifeNext

\* It is a consequence of the abstract specification alone.
THEOREM LifeIsConsistent ==
  ASSUME NEW v \in Voucher
  PROVE  Life(v)!LifeSpec => []Life(v)!Consistent
<1>1. Life(v)!LifeInit => Life(v)!Consistent
  BY DEF Life!LifeInit, Life!Consistent
<1>2. Life(v)!Consistent /\ [Life(v)!LifeNext]_(Life(v)!life) => Life(v)!Consistent'
  BY LifeConsistentStep
<1>3. QED
  BY <1>1, <1>2, PTL DEF Life!LifeSpec

\* And therefore the archive is consistent about every voucher at every step.
THEOREM ArchiveIsConsistent ==
  ASSUME NEW v \in Voucher
  PROVE  Spec => []Life(v)!Consistent
  BY VoucherImplementsLife, LifeIsConsistent

=============================================================================
