--------------------------- MODULE PrintAudit_proofs ---------------------------
(***************************************************************************)
(* Proofs about PrintAudit for every set of vouchers and windows and every *)
(* number of jobs: no print is lost, no label is counted twice, and the    *)
(* SQLite audit implements PrintLedger.  Holder is what the strengthening   *)
(* adds: between its two ends, a job in progress owns the marker.           *)
(***************************************************************************)
EXTENDS PrintAudit, TLAPS

\* Jobs are numbered in order; only printed ones are audited or remembered.
Numbered ==
  /\ \A j \in paper : j <= jobs
  /\ Recorded \subseteq paper /\ marker.job <= jobs
  /\ marker.state = "submitted" => marker.job \in paper
  /\ \A w \in Window : retry[w] # 0 => retry[w] \in paper

\* From its preparation to the end of its audit the job of the task is the
\* one the marker names, and each step knows what the earlier ones did.
Holder ==
  /\ pc \in {"printing", "sent", "recording", "auditing", "finalizing"}
       => job \in Job /\ marker.job = job
  /\ pc = "printing" => job = jobs /\ job \notin paper
  /\ pc \in {"sent", "recording", "auditing", "finalizing"} => job \in paper
  /\ pc \in {"auditing", "finalizing"} => \A v \in labels[job] : hmac[job][v] > 0
  /\ pc = "finalizing" => Audited(job)

\* The inductive invariant.
IInv == TypeOK /\ Numbered /\ Holder /\ LabelsOnce /\ PrintNeverLost

-----------------------------------------------------------------------------
(* Appending to the two stores.                                             *)

\* Append, for a set of elements the provers need not look into.
LEMMA AppendProperties ==
  ASSUME NEW S, NEW s \in Seq(S), NEW e \in S
  PROVE  /\ Append(s, e) \in Seq(S)
         /\ Len(Append(s, e)) = Len(s) + 1 /\ Len(s) \in Nat
         /\ \A i \in 1..Len(s) : Append(s, e)[i] = s[i]
         /\ Append(s, e)[Len(s) + 1] = e
  OBVIOUS

\* A new SQLite job is the only one added to the recorded ones.
LEMMA RecordedAppend ==
  ASSUME sql \in Seq(Job), NEW j \in Job, sql' = Append(sql, j)
  PROVE  Recorded' = Recorded \cup {j}
<1>1. /\ Len(sql') = Len(sql) + 1 /\ Len(sql) \in Nat
      /\ \A i \in 1..Len(sql) : sql'[i] = sql[i]
      /\ sql'[Len(sql) + 1] = j
  BY AppendProperties
<1>2. 1..Len(sql') = 1..Len(sql) \cup {Len(sql) + 1}
  BY <1>1
<1>3. Recorded' = {sql'[i] : i \in 1..Len(sql) \cup {Len(sql) + 1}}
  BY <1>2 DEF Recorded
<1>4. ASSUME NEW x PROVE x \in Recorded' <=> x \in Recorded \cup {j}
  <2>1. x \in Recorded' <=> \E i \in 1..Len(sql) \cup {Len(sql) + 1} : x = sql'[i]
    BY <1>3
  <2>2. x \in Recorded <=> \E i \in 1..Len(sql) : x = sql[i]
    BY DEF Recorded
  <2>3. QED
    BY <2>1, <2>2, <1>1
<1>5. QED
  BY <1>4

\* The history rows after an append of missing labels of the job in progress.
LEMMA AppendedRows ==
  ASSUME TypeOK, NEW S \in SUBSET Missing, Appended(S), job \in Job
  PROVE  /\ hmac' \in [Job -> [Voucher -> Nat]]
         /\ \A j \in Job, v \in Voucher :
              hmac'[j][v] = IF j = job /\ v \in S THEN hmac[j][v] + 1 ELSE hmac[j][v]
  BY DEF TypeOK, Appended

-----------------------------------------------------------------------------
(* Type correctness.                                                        *)

\* The initial state is well typed.
LEMMA InitType == Init => TypeOK
  BY PrintAssumption DEF Init, TypeOK, Job, Marker, NoMarker, NoQuestion

\* Each step keeps the types.
LEMMA NextType ==
  ASSUME TypeOK, Holder, [Next]_vars
  PROVE  TypeOK'
<1> USE PrintAssumption
        DEF TypeOK, Job, Marker, NoMarker, NoQuestion, printer, history, archive,
            fleet, screen, task, Begins, Ends
<1>1. CASE OpenPreview
  <2>1. sheet' \in [Window -> SUBSET Voucher]
    <3>1. CASE UNCHANGED sheet
      BY <3>1
    <3>2. CASE \E w \in Window, S \in (SUBSET shown) \ {{}} :
                 sheet' = [sheet EXCEPT ![w] = S]
      <4>1. PICK w \in Window, S \in SUBSET shown : sheet' = [sheet EXCEPT ![w] = S]
        BY <3>2
      <4>2. S \in SUBSET Voucher
        OBVIOUS
      <4>3. QED
        BY <4>1, <4>2
    <3>3. QED
      BY <1>1, <3>1, <3>2 DEF OpenPreview
  <2>2. QED
    BY <1>1, <2>1 DEF OpenPreview
<1>2. CASE CloseWindow
  BY <1>2 DEF CloseWindow
<1>3. CASE PrintFirst
  <2>1. PICK w \in Window : Prepares(w)
    BY <1>3 DEF PrintFirst
  <2>2. /\ jobs' \in 0..MaxJobs /\ labels' \in [1..MaxJobs -> SUBSET Voucher]
        /\ marker' \in Marker /\ owner' \subseteq Window /\ job' \in 0..MaxJobs
        /\ pc' = "printing"
    BY <2>1 DEF Prepares
  <2>3. QED
    BY <1>3, <2>2 DEF PrintFirst
<1>4. CASE AskReprint
  BY <1>4 DEF AskReprint
<1>5. CASE AcceptReprint
  <2>1. PICK w \in Window : Prepares(w)
    BY <1>5 DEF AcceptReprint
  <2>2. /\ jobs' \in 0..MaxJobs /\ labels' \in [1..MaxJobs -> SUBSET Voucher]
        /\ marker' \in Marker /\ owner' \subseteq Window /\ job' \in 0..MaxJobs
        /\ pc' = "printing"
    BY <2>1 DEF Prepares
  <2>3. QED
    BY <1>5, <2>2 DEF AcceptReprint
<1>6. CASE DropReprint
  BY <1>6 DEF DropReprint
<1>7. CASE Submitted
  BY <1>7 DEF Submitted, Holder
<1>8. CASE SubmitRaised
  BY <1>8 DEF SubmitRaised, Holder
<1>9. CASE MarkSubmitted
  BY <1>9 DEF MarkSubmitted, Holder
<1>10. CASE MarkFailed
  BY <1>10 DEF MarkFailed, Unaudited
<1>11. CASE RowsAppended
  <2>1. hmac' \in [Job -> [Voucher -> Nat]]
    BY <1>11, AppendedRows DEF RowsAppended, Holder
  <2>2. QED
    BY <1>11, <2>1 DEF RowsAppended
<1>12. CASE RowsFailed
  <2>1. hmac' \in [Job -> [Voucher -> Nat]]
    BY <1>12, AppendedRows DEF RowsFailed, Holder
  <2>2. retry' \in [Window -> 0..MaxJobs]
    BY <1>12 DEF RowsFailed, Unaudited
  <2>3. /\ readable' \in BOOLEAN /\ pc' = "idle" /\ owner' = {} /\ job' = 0
        /\ UNCHANGED <<paper, jobs, labels, marker, sql, auditor, user, deleted,
                       shown, sheet, asked>>
    BY <1>12 DEF RowsFailed, Unaudited
  <2>4. QED
    BY <2>1, <2>2, <2>3
<1>13. CASE SqlCommitted
  <2>1. job \in Job /\ sql \in Seq(Job) /\ (sql' = sql \/ sql' = Append(sql, job))
    BY <1>13 DEF SqlCommitted, Holder
  <2>2. sql' \in Seq(Job)
    BY ONLY <2>1, AppendProperties
  <2>3. auditor' \in [1..MaxJobs -> SUBSET User]
    BY <1>13 DEF SqlCommitted
  <2>4. QED
    BY <1>13, <2>2, <2>3 DEF SqlCommitted
<1>14. CASE SqlRefused
  BY <1>14 DEF SqlRefused, Unaudited
<1>15. CASE Finalized
  BY <1>15 DEF Finalized
<1>16. CASE FinalizeFailed
  BY <1>16 DEF FinalizeFailed, Unaudited
<1>17. CASE Register
  BY <1>17 DEF Register
<1>18. CASE RecoverSubmitted
  BY <1>18 DEF RecoverSubmitted
<1>19. CASE RecoverPrepared
  BY <1>19 DEF RecoverPrepared
<1>20. CASE Discard
  BY <1>20 DEF Discard
<1>21. CASE Delete
  BY <1>21 DEF Delete
<1>22. CASE Sync
  BY <1>22 DEF Sync
<1>23. CASE Crash
  <2>1. hmac' \in [Job -> [Voucher -> Nat]] /\ readable' \in BOOLEAN
    BY <1>23, AppendedRows DEF Crash, Holder
  <2>2. paper' \subseteq 1..MaxJobs
    BY <1>23 DEF Crash, Holder
  <2>3. QED
    BY <1>23, <2>1, <2>2 DEF Crash
<1>24. CASE Start
  BY <1>24 DEF Start
<1>25. CASE UNCHANGED vars
  BY <1>25 DEF vars
<1>26. QED
  BY <1>1, <1>2, <1>3, <1>4, <1>5, <1>6, <1>7, <1>8, <1>9, <1>10, <1>11,
    <1>12, <1>13, <1>14, <1>15, <1>16, <1>17, <1>18, <1>19, <1>20, <1>21,
    <1>22, <1>23, <1>24, <1>25 DEF Next, Printing, Audit, Recover

-----------------------------------------------------------------------------
(* The numbering of jobs and the holder of the marker.                      *)

\* The initial state satisfies the other parts.
LEMMA InitParts == Init => Numbered /\ Holder /\ LabelsOnce /\ PrintNeverLost
  BY PrintAssumption DEF Init, Numbered, Holder, LabelsOnce, PrintNeverLost,
     Recorded, Job, NoMarker

\* Each step keeps the order of the jobs.
LEMMA NextNumbered ==
  ASSUME TypeOK, Numbered, Holder, [Next]_vars
  PROVE  Numbered'
<1> USE DEF Numbered, printer, history, archive, fleet, screen, task, Begins, Ends, Job,
            NoMarker, Marker
<1>0. /\ jobs \in Nat /\ marker.job \in Nat /\ marker \in Marker
      /\ (sql' = sql => Recorded' = Recorded) /\ labels \in [Job -> SUBSET Voucher]
      /\ retry \in [Window -> 0..MaxJobs] /\ MaxJobs \in Nat
      /\ (\A j \in paper : j \in Nat)
  BY PrintAssumption DEF TypeOK, Recorded
<1>1. CASE OpenPreview
  BY <1>1, <1>0 DEF OpenPreview
<1>2. CASE CloseWindow
  BY <1>2, <1>0 DEF CloseWindow
<1>3. CASE PrintFirst
  <2>1. PICK w \in Window : Prepares(w)
    BY <1>3, <1>0 DEF PrintFirst
  <2>2. jobs' = jobs + 1 /\ marker' = [state |-> "prepared", job |-> jobs + 1]
    BY <2>1 DEF Prepares
  <2>3. UNCHANGED <<paper, sql, retry>>
    BY <1>3 DEF PrintFirst
  <2>4. QED
    BY <2>2, <2>3, <1>0
<1>4. CASE AskReprint
  BY <1>4, <1>0 DEF AskReprint
<1>5. CASE AcceptReprint
  <2>1. PICK w \in Window : Prepares(w)
    BY <1>5, <1>0 DEF AcceptReprint, TypeOK
  <2>2. jobs' = jobs + 1 /\ marker' = [state |-> "prepared", job |-> jobs + 1]
    BY <2>1 DEF Prepares
  <2>3. UNCHANGED <<paper, sql, retry>>
    BY <1>5 DEF AcceptReprint
  <2>4. QED
    BY <2>2, <2>3, <1>0
<1>6. CASE DropReprint
  BY <1>6, <1>0 DEF DropReprint
<1>7. CASE Submitted
  BY <1>7, <1>0 DEF Submitted, Holder
<1>8. CASE SubmitRaised
  BY <1>8, <1>0 DEF SubmitRaised, Holder
<1>9. CASE MarkSubmitted
  BY <1>9, <1>0 DEF MarkSubmitted, Holder
<1>10. CASE MarkFailed
  BY <1>10, <1>0 DEF MarkFailed, Unaudited, Holder
<1>11. CASE RowsAppended
  BY <1>11, <1>0 DEF RowsAppended, Appended, Holder
<1>12. CASE RowsFailed
  BY <1>12, <1>0 DEF RowsFailed, Unaudited, Appended, Holder
<1>13. CASE SqlCommitted
  <2>1. job \in Job /\ job \in paper /\ sql \in Seq(Job)
    BY <1>13 DEF SqlCommitted, Holder, TypeOK
  <2>2. Recorded' \subseteq Recorded \cup {job}
    <3>1. CASE sql' = sql
      BY <3>1, <1>0
    <3>2. CASE sql' = Append(sql, job)
      BY <3>2, <2>1, RecordedAppend
    <3>3. QED
      BY <1>13, <3>1, <3>2 DEF SqlCommitted
  <2>3. QED
    BY <1>13, <2>1, <2>2 DEF SqlCommitted
<1>14. CASE SqlRefused
  BY <1>14, <1>0 DEF SqlRefused, Unaudited, Holder
<1>15. CASE Finalized
  BY <1>15, <1>0 DEF Finalized, Holder
<1>16. CASE FinalizeFailed
  BY <1>16, <1>0 DEF FinalizeFailed, Unaudited, Holder
<1>17. CASE Register
  BY <1>17, <1>0 DEF Register
<1>18. CASE RecoverSubmitted
  BY <1>18, <1>0 DEF RecoverSubmitted
<1>19. CASE RecoverPrepared
  BY <1>19, <1>0 DEF RecoverPrepared
<1>20. CASE Discard
  BY <1>20, <1>0 DEF Discard
<1>21. CASE Delete
  BY <1>21, <1>0 DEF Delete
<1>22. CASE Sync
  BY <1>22, <1>0 DEF Sync
<1>23. CASE Crash
  BY <1>23, <1>0 DEF Crash, Appended, Holder
<1>24. CASE Start
  BY <1>24, <1>0 DEF Start
<1>25. CASE UNCHANGED vars
  BY <1>25, <1>0 DEF vars
<1>26. QED
  BY <1>1, <1>2, <1>3, <1>4, <1>5, <1>6, <1>7, <1>8, <1>9, <1>10, <1>11,
    <1>12, <1>13, <1>14, <1>15, <1>16, <1>17, <1>18, <1>19, <1>20, <1>21,
    <1>22, <1>23, <1>24, <1>25 DEF Next, Printing, Audit, Recover

\* Each step keeps what the marker and the task in progress know of the job.
LEMMA NextHolder ==
  ASSUME TypeOK, Numbered, Holder, [Next]_vars
  PROVE  Holder'
<1> USE DEF Holder, printer, history, archive, fleet, screen, task, Begins, Ends
<1>0. /\ jobs \in Nat /\ marker \in Marker /\ (sql' = sql => Recorded' = Recorded)
      /\ labels \in [Job -> SUBSET Voucher] /\ MaxJobs \in Nat /\ jobs \in 0..MaxJobs
      /\ (marker.state = "submitted" => marker.job \in Job)
      /\ (marker.state = "prepared" => marker.job \in Job)
      /\ paper \subseteq Job /\ (\A j \in paper : j \in Nat /\ j <= jobs)
  BY PrintAssumption DEF TypeOK, Recorded, Numbered, Marker, NoMarker, Job
<1>1. CASE OpenPreview
  BY <1>1, <1>0 DEF OpenPreview, Audited
<1>2. CASE CloseWindow
  BY <1>2, <1>0 DEF CloseWindow, Audited
<1>3. CASE PrintFirst
  <2>1. PICK w \in Window : Prepares(w)
    BY <1>3 DEF PrintFirst
  <2>2. /\ jobs' = jobs + 1 /\ jobs < MaxJobs
        /\ marker' = [state |-> "prepared", job |-> jobs + 1]
        /\ pc' = "printing" /\ job' = jobs + 1
    BY <2>1 DEF Prepares
  <2>3. paper' = paper
    BY <1>3 DEF PrintFirst
  <2>4. jobs + 1 \notin paper /\ jobs + 1 \in Job
    BY <1>0, <2>2 DEF Job
  <2>5. QED
    BY <2>2, <2>3, <2>4
<1>4. CASE AskReprint
  BY <1>4, <1>0 DEF AskReprint, Audited
<1>5. CASE AcceptReprint
  <2>1. PICK w \in Window : Prepares(w)
    BY <1>5 DEF AcceptReprint, TypeOK
  <2>2. /\ jobs' = jobs + 1 /\ jobs < MaxJobs
        /\ marker' = [state |-> "prepared", job |-> jobs + 1]
        /\ pc' = "printing" /\ job' = jobs + 1
    BY <2>1 DEF Prepares
  <2>3. paper' = paper
    BY <1>5 DEF AcceptReprint
  <2>4. jobs + 1 \notin paper /\ jobs + 1 \in Job
    BY <1>0, <2>2 DEF Job
  <2>5. QED
    BY <2>2, <2>3, <2>4
<1>6. CASE DropReprint
  BY <1>6, <1>0 DEF DropReprint, Audited
<1>7. CASE Submitted
  BY <1>7, <1>0 DEF Submitted, Audited
<1>8. CASE SubmitRaised
  BY <1>8, <1>0 DEF SubmitRaised, Audited
<1>9. CASE MarkSubmitted
  BY <1>9, <1>0 DEF MarkSubmitted, Marker, NoMarker
<1>10. CASE MarkFailed
  BY <1>10, <1>0 DEF MarkFailed, Unaudited, Audited
<1>11. CASE RowsAppended
  <2>1. job \in Job /\ Appended(Missing)
    BY <1>11 DEF RowsAppended
  <2>2. \A v \in labels[job] : v \in Voucher /\ hmac[job][v] \in Nat
    BY <2>1 DEF TypeOK
  <2>3. \A v \in Voucher :
          hmac'[job][v] = IF v \in Missing THEN hmac[job][v] + 1 ELSE hmac[job][v]
    BY <2>1, AppendedRows
  <2>4. \A v \in labels[job] : hmac'[job][v] > 0
    BY <2>2, <2>3 DEF Missing
  <2>5. QED
    BY <1>11, <2>1, <2>4 DEF RowsAppended
<1>12. CASE RowsFailed
  BY <1>12, <1>0 DEF RowsFailed, Unaudited, Appended, Audited
<1>13. CASE SqlCommitted
  <2>1. job \in Job /\ job \in paper /\ sql \in Seq(Job)
    BY <1>13 DEF SqlCommitted, TypeOK
  <2>2. job \in Recorded'
    <3>1. CASE job \in Recorded
      BY <1>13, <3>1, <1>0 DEF SqlCommitted
    <3>2. CASE job \notin Recorded
      BY <1>13, <3>2, <2>1, RecordedAppend DEF SqlCommitted
    <3>3. QED
      BY <3>1, <3>2
  <2>3. QED
    BY <1>13, <2>1, <2>2 DEF SqlCommitted, Audited
<1>14. CASE SqlRefused
  BY <1>14, <1>0 DEF SqlRefused, Unaudited, Audited
<1>15. CASE Finalized
  BY <1>15, <1>0 DEF Finalized, Audited
<1>16. CASE FinalizeFailed
  BY <1>16, <1>0 DEF FinalizeFailed, Unaudited, Audited
<1>17. CASE Register
  BY <1>17, <1>0 DEF Register, Numbered, TypeOK
<1>18. CASE RecoverSubmitted
  BY <1>18, <1>0 DEF RecoverSubmitted, Numbered, Marker, NoMarker, Free
<1>19. CASE RecoverPrepared
  BY <1>19, <1>0 DEF RecoverPrepared, Numbered, Marker, NoMarker, Free
<1>20. CASE Discard
  BY <1>20, <1>0 DEF Discard, Numbered, Marker, NoMarker, Free
<1>21. CASE Delete
  BY <1>21, <1>0 DEF Delete, Audited
<1>22. CASE Sync
  BY <1>22, <1>0 DEF Sync, Audited
<1>23. CASE Crash
  BY <1>23, <1>0 DEF Crash, Appended, Audited
<1>24. CASE Start
  BY <1>24, <1>0 DEF Start, Numbered, Marker, NoMarker, Free
<1>25. CASE UNCHANGED vars
  BY <1>25, <1>0 DEF vars, Audited
<1>26. QED
  BY <1>1, <1>2, <1>3, <1>4, <1>5, <1>6, <1>7, <1>8, <1>9, <1>10, <1>11,
    <1>12, <1>13, <1>14, <1>15, <1>16, <1>17, <1>18, <1>19, <1>20, <1>21,
    <1>22, <1>23, <1>24, <1>25 DEF Next, Printing, Audit, Recover

-----------------------------------------------------------------------------
(* Labels are counted once, prints are never lost.                          *)

\* Rows are only ever added for the job in progress, once it is on paper.
LEMMA NextLabels ==
  ASSUME IInv, [Next]_vars
  PROVE  LabelsOnce'
<1> USE DEF printer, history, archive, fleet, screen, task, Begins, Ends
<1>0. /\ LabelsOnce /\ paper \subseteq Job /\ jobs \in Nat
      /\ (\A j \in paper : j \in Nat /\ j <= jobs)
      /\ labels \in [Job -> SUBSET Voucher] /\ hmac \in [Job -> [Voucher -> Nat]]
  BY PrintAssumption DEF IInv, TypeOK, Numbered, Job
<1>a. ASSUME NEW S \in SUBSET Missing, Appended(S), pc = "recording",
             UNCHANGED <<paper, labels>>
      PROVE  LabelsOnce'
  <2>1. job \in Job /\ job \in paper
    BY <1>a DEF IInv, Holder
  <2>2. \A j \in Job, v \in Voucher :
          hmac'[j][v] = IF j = job /\ v \in S THEN hmac[j][v] + 1 ELSE hmac[j][v]
    BY <1>a, <2>1, AppendedRows DEF IInv
  <2>3. \A v \in S : hmac[job][v] = 0 /\ v \in labels[job]
    BY DEF Missing
  <2>4. QED
    BY <1>a, <1>0, <2>1, <2>2, <2>3 DEF LabelsOnce
<1>b. ASSUME UNCHANGED <<labels, hmac>>, paper \subseteq paper'
      PROVE  LabelsOnce'
  BY <1>b, <1>0 DEF LabelsOnce
<1>c. ASSUME NEW w \in Window, Prepares(w), UNCHANGED <<paper, hmac>>
      PROVE  LabelsOnce'
  <2>1. jobs + 1 \notin paper
    BY <1>0
  <2>2. \A j \in paper : labels'[j] = labels[j]
    BY <1>c, <2>1, <1>0 DEF Prepares
  <2>3. QED
    BY <1>c, <1>0, <2>2 DEF LabelsOnce
<1>1. CASE OpenPreview
  BY <1>1, <1>b DEF OpenPreview
<1>2. CASE CloseWindow
  BY <1>2, <1>b DEF CloseWindow
<1>3. CASE PrintFirst
  BY <1>3, <1>c DEF PrintFirst
<1>4. CASE AskReprint
  BY <1>4, <1>b DEF AskReprint
<1>5. CASE AcceptReprint
  <2>1. asked.window \subseteq Window
    BY DEF IInv, TypeOK
  <2>2. QED
    BY <1>5, <1>c, <2>1 DEF AcceptReprint
<1>6. CASE DropReprint
  BY <1>6, <1>b DEF DropReprint
<1>7. CASE Submitted
  BY <1>7, <1>b DEF Submitted
<1>8. CASE SubmitRaised
  BY <1>8, <1>b DEF SubmitRaised
<1>9. CASE MarkSubmitted
  BY <1>9, <1>b DEF MarkSubmitted
<1>10. CASE MarkFailed
  BY <1>10, <1>b DEF MarkFailed, Unaudited
<1>11. CASE RowsAppended
  BY <1>11, <1>a DEF RowsAppended
<1>12. CASE RowsFailed
  BY <1>12, <1>a, <1>b DEF RowsFailed
<1>13. CASE SqlCommitted
  BY <1>13, <1>b DEF SqlCommitted
<1>14. CASE SqlRefused
  BY <1>14, <1>b DEF SqlRefused, Unaudited
<1>15. CASE Finalized
  BY <1>15, <1>b DEF Finalized
<1>16. CASE FinalizeFailed
  BY <1>16, <1>b DEF FinalizeFailed, Unaudited
<1>17. CASE Register
  BY <1>17, <1>b DEF Register
<1>18. CASE RecoverSubmitted
  BY <1>18, <1>b DEF RecoverSubmitted
<1>19. CASE RecoverPrepared
  BY <1>19, <1>b DEF RecoverPrepared
<1>20. CASE Discard
  BY <1>20, <1>b DEF Discard
<1>21. CASE Delete
  BY <1>21, <1>b DEF Delete
<1>22. CASE Sync
  BY <1>22, <1>b DEF Sync
<1>23. CASE Crash
  <2>1. CASE UNCHANGED history
    BY <1>23, <2>1, <1>b DEF Crash
  <2>2. CASE pc = "recording" /\ \E S \in SUBSET Missing : Appended(S)
    BY <1>23, <2>2, <1>a DEF Crash
  <2>3. QED
    BY <1>23, <2>1, <2>2 DEF Crash
<1>24. CASE Start
  BY <1>24, <1>b DEF Start
<1>25. CASE UNCHANGED vars
  BY <1>25, <1>b DEF vars
<1>26. QED
  BY <1>1, <1>2, <1>3, <1>4, <1>5, <1>6, <1>7, <1>8, <1>9, <1>10, <1>11,
    <1>12, <1>13, <1>14, <1>15, <1>16, <1>17, <1>18, <1>19, <1>20, <1>21,
    <1>22, <1>23, <1>24, <1>25 DEF Next, Printing, Audit, Recover

\* What a step may do without losing a print: keep paper and grow the stores.
LEMMA NothingLost ==
  ASSUME TypeOK, PrintNeverLost, paper' = paper,
         (\A j \in paper : labels'[j] = labels[j]),
         (\A j \in paper : \A v \in labels[j] : hmac[j][v] > 0 => hmac'[j][v] > 0),
         Recorded \subseteq Recorded',
         marker.job \in paper => marker'.job = marker.job \/ Audited(marker.job)
  PROVE  PrintNeverLost'
  BY DEF PrintNeverLost, Audited

\* Each step keeps every print in a store or in the marker.
LEMMA NextNeverLost ==
  ASSUME IInv, [Next]_vars
  PROVE  PrintNeverLost'
<1> USE DEF printer, history, archive, fleet, screen, task, Begins, Ends
<1>0. /\ TypeOK /\ PrintNeverLost /\ paper \subseteq Job /\ jobs \in Nat
      /\ (\A j \in paper : j \in Nat /\ j <= jobs)
      /\ labels \in [Job -> SUBSET Voucher] /\ hmac \in [Job -> [Voucher -> Nat]]
      /\ marker \in Marker /\ (sql' = sql => Recorded' = Recorded)
  BY PrintAssumption DEF IInv, TypeOK, Numbered, Job, Recorded
<1>1. ASSUME UNCHANGED <<paper, labels, hmac, sql>>, marker'.job = marker.job
      PROVE  PrintNeverLost'
  BY <1>1, <1>0, NothingLost
<1>2. ASSUME NEW S \in SUBSET Missing, Appended(S), pc = "recording",
             UNCHANGED <<paper, labels, sql, marker>>
      PROVE  PrintNeverLost'
  <2>1. job \in Job
    BY <1>2 DEF IInv, Holder
  <2>2. \A j \in Job, v \in Voucher : hmac[j][v] > 0 => hmac'[j][v] > 0
    BY <1>2, <1>0, <2>1, AppendedRows DEF TypeOK
  <2>3. QED
    BY <1>2, <1>0, <2>2, NothingLost
<1>3. ASSUME NEW w \in Window, Prepares(w), UNCHANGED <<paper, hmac, sql>>
      PROVE  PrintNeverLost'
  <2>1. jobs + 1 \notin paper /\ marker.job \notin paper
    BY <1>3, <1>0 DEF Prepares, NoMarker, Job
  <2>2. \A j \in paper : labels'[j] = labels[j]
    BY <1>3, <2>1, <1>0 DEF Prepares
  <2>3. QED
    BY <1>3, <1>0, <2>1, <2>2, NothingLost
<1>4. ASSUME pc = "printing", paper' = paper \cup {job},
             UNCHANGED <<labels, hmac, sql, marker>>
      PROVE  PrintNeverLost'
  BY <1>4, <1>0 DEF IInv, Holder, PrintNeverLost, Audited
<1>5. CASE OpenPreview
  BY <1>5, <1>1 DEF OpenPreview
<1>6. CASE CloseWindow
  BY <1>6, <1>1 DEF CloseWindow
<1>7. CASE PrintFirst
  BY <1>7, <1>3 DEF PrintFirst
<1>8. CASE AskReprint
  BY <1>8, <1>1 DEF AskReprint
<1>9. CASE AcceptReprint
  <2>1. asked.window \subseteq Window
    BY <1>0 DEF TypeOK
  <2>2. QED
    BY <1>9, <1>3, <2>1 DEF AcceptReprint
<1>10. CASE DropReprint
  BY <1>10, <1>1 DEF DropReprint
<1>11. CASE Submitted
  BY <1>11, <1>4 DEF Submitted
<1>12. CASE SubmitRaised
  BY <1>12, <1>1, <1>4 DEF SubmitRaised
<1>13. CASE MarkSubmitted
  BY <1>13, <1>0, <1>1 DEF MarkSubmitted, Marker, NoMarker
<1>14. CASE MarkFailed
  BY <1>14, <1>1 DEF MarkFailed, Unaudited
<1>15. CASE RowsAppended
  BY <1>15, <1>2 DEF RowsAppended
<1>16. CASE RowsFailed
  BY <1>16, <1>1, <1>2 DEF RowsFailed
<1>17. CASE SqlCommitted
  <2>1. job \in Job /\ sql \in Seq(Job)
    BY <1>17, <1>0 DEF SqlCommitted, IInv, Holder, TypeOK
  <2>2. Recorded \subseteq Recorded'
    <3>1. CASE job \in Recorded
      BY <1>17, <3>1, <1>0 DEF SqlCommitted
    <3>2. CASE job \notin Recorded
      BY <1>17, <3>2, <2>1, RecordedAppend DEF SqlCommitted
    <3>3. QED
      BY <3>1, <3>2
  <2>3. UNCHANGED <<paper, labels, hmac, marker>>
    BY <1>17 DEF SqlCommitted
  <2>4. QED
    BY <2>2, <2>3, <1>0, NothingLost
<1>18. CASE SqlRefused
  BY <1>18, <1>1 DEF SqlRefused, Unaudited
<1>19. CASE Finalized
  BY <1>19, <1>0, NothingLost DEF Finalized, IInv, Holder
<1>20. CASE FinalizeFailed
  BY <1>20, <1>1 DEF FinalizeFailed, Unaudited
<1>21. CASE Register
  <2>1. marker.job = 0 \/ marker'.job = marker.job
    BY <1>21 DEF Register
  <2>2. 0 \notin paper
    BY <1>0 DEF Job
  <2>3. UNCHANGED <<paper, labels, hmac, sql>>
    BY <1>21 DEF Register
  <2>4. QED
    BY <2>1, <2>2, <2>3, <1>0, NothingLost
<1>22. CASE RecoverSubmitted
  BY <1>22, <1>1 DEF RecoverSubmitted
<1>23. CASE RecoverPrepared
  BY <1>23, <1>0, <1>1 DEF RecoverPrepared, Marker, NoMarker
<1>24. CASE Discard
  BY <1>24, <1>0, NothingLost DEF Discard
<1>25. CASE Delete
  BY <1>25, <1>1 DEF Delete
<1>26. CASE Sync
  BY <1>26, <1>1 DEF Sync
<1>27. CASE Crash
  <2>1. CASE pc = "printing"
    BY <1>27, <2>1, <1>1, <1>4 DEF Crash
  <2>2. CASE pc # "printing" /\ UNCHANGED history
    BY <1>27, <2>2, <1>1 DEF Crash
  <2>3. CASE pc = "recording" /\ \E S \in SUBSET Missing : Appended(S)
    BY <1>27, <2>3, <1>2 DEF Crash
  <2>4. QED
    BY <1>27, <2>1, <2>2, <2>3 DEF Crash
<1>28. CASE Start
  BY <1>28, <1>1 DEF Start
<1>29. CASE UNCHANGED vars
  BY <1>29, <1>1 DEF vars
<1>30. QED
  BY <1>5, <1>6, <1>7, <1>8, <1>9, <1>10, <1>11, <1>12, <1>13, <1>14, <1>15,
    <1>16, <1>17, <1>18, <1>19, <1>20, <1>21, <1>22, <1>23, <1>24, <1>25,
    <1>26, <1>27, <1>28, <1>29 DEF Next, Printing, Audit, Recover

-----------------------------------------------------------------------------
(* The SQLite audit implements the ledger.                                  *)

\* Each step is a step of the ledger or leaves it alone.
LEMMA LedgerStep ==
  ASSUME IInv, [Next]_vars
  PROVE  [Ledger!LedgerNext]_(Ledger!ledgerVars)
<1> USE DEF printer, history, archive, fleet, screen, task, Begins, Ends,
            Ledger!ledgerVars
<1>0. /\ TypeOK /\ Numbered /\ Holder /\ PrintNeverLost
      /\ Ledger!Entered = Recorded
  BY DEF IInv, Ledger!Entered, Recorded
<1>1. ASSUME pc = "printing", paper' = paper \cup {job}, sql' = sql
      PROVE  Ledger!LedgerNext
  <2>1. job \in Job /\ marker.job = job /\ job = jobs /\ job \notin paper
    BY <1>1, <1>0 DEF Holder
  <2>2. \A k \in paper : k < job
    <3>1. \A k \in paper : k \in Nat /\ k <= jobs /\ k # jobs
      BY <1>0, <2>1 DEF TypeOK, Numbered, Job
    <3>2. QED
      BY <3>1, <2>1 DEF Job
  <2>3. paper = Recorded
    BY <1>0, <2>1 DEF PrintNeverLost, Audited, Numbered
  <2>4. QED
    BY <1>1, <1>0, <2>1, <2>2, <2>3 DEF Ledger!LedgerNext, Ledger!Send
<1>2. CASE OpenPreview
  BY <1>2 DEF OpenPreview
<1>3. CASE CloseWindow
  BY <1>3 DEF CloseWindow
<1>4. CASE PrintFirst
  BY <1>4 DEF PrintFirst, Prepares
<1>5. CASE AskReprint
  BY <1>5 DEF AskReprint
<1>6. CASE AcceptReprint
  BY <1>6 DEF AcceptReprint, Prepares
<1>7. CASE DropReprint
  BY <1>7 DEF DropReprint
<1>8. CASE Submitted
  BY <1>8, <1>1 DEF Submitted
<1>9. CASE SubmitRaised
  BY <1>9, <1>1 DEF SubmitRaised
<1>10. CASE MarkSubmitted
  BY <1>10 DEF MarkSubmitted
<1>11. CASE MarkFailed
  BY <1>11 DEF MarkFailed, Unaudited
<1>12. CASE RowsAppended
  BY <1>12 DEF RowsAppended, Appended
<1>13. CASE RowsFailed
  BY <1>13 DEF RowsFailed, Unaudited, Appended
<1>14. CASE SqlCommitted
  <2>1. job \in paper
    BY <1>14, <1>0 DEF SqlCommitted, Holder
  <2>2. CASE job \in Recorded
    BY <1>14, <2>2 DEF SqlCommitted
  <2>3. CASE job \notin Recorded
    BY <1>14, <1>0, <2>1, <2>3 DEF SqlCommitted, Ledger!LedgerNext, Ledger!Enter
  <2>4. QED
    BY <2>2, <2>3
<1>15. CASE SqlRefused
  BY <1>15 DEF SqlRefused, Unaudited
<1>16. CASE Finalized
  BY <1>16 DEF Finalized
<1>17. CASE FinalizeFailed
  BY <1>17 DEF FinalizeFailed, Unaudited
<1>18. CASE Register
  BY <1>18 DEF Register
<1>19. CASE RecoverSubmitted
  BY <1>19 DEF RecoverSubmitted
<1>20. CASE RecoverPrepared
  BY <1>20 DEF RecoverPrepared
<1>21. CASE Discard
  BY <1>21 DEF Discard
<1>22. CASE Delete
  BY <1>22 DEF Delete
<1>23. CASE Sync
  BY <1>23 DEF Sync
<1>24. CASE Crash
  BY <1>24, <1>1 DEF Crash
<1>25. CASE Start
  BY <1>25 DEF Start
<1>26. CASE UNCHANGED vars
  BY <1>26 DEF vars
<1>27. QED
  BY <1>2, <1>3, <1>4, <1>5, <1>6, <1>7, <1>8, <1>9, <1>10, <1>11, <1>12,
    <1>13, <1>14, <1>15, <1>16, <1>17, <1>18, <1>19, <1>20, <1>21, <1>22,
    <1>23, <1>24, <1>25, <1>26 DEF Next, Printing, Audit, Recover

-----------------------------------------------------------------------------
(* The theorems.                                                            *)

\* The invariant holds of every behaviour.
LEMMA Inductive == Spec => []IInv
<1>1. Init => IInv
  BY InitType, InitParts DEF IInv
<1>2. IInv /\ [Next]_vars => IInv'
  BY NextType, NextNumbered, NextHolder, NextLabels, NextNeverLost DEF IInv
<1>3. QED
  BY <1>1, <1>2, PTL DEF Spec

\* Type correctness of the print audit for every instance.
THEOREM TypeCorrect == Spec => []TypeOK
<1>1. IInv => TypeOK
  BY DEF IInv
<1>2. QED
  BY <1>1, Inductive, PTL

\* A document on paper is in the history and in SQLite, or the pending marker
\* names it, whatever crashed, failed, was closed or was retried.
THEOREM NoPrintLost == Spec => []PrintNeverLost
<1>1. IInv => PrintNeverLost
  BY DEF IInv
<1>2. QED
  BY <1>1, Inductive, PTL

\* No retry, from a window, the settings or startup, counts a label twice.
THEOREM NoLabelTwice == Spec => []LabelsOnce
<1>1. IInv => LabelsOnce
  BY DEF IInv
<1>2. QED
  BY <1>1, Inductive, PTL

\* The audit in SQLite refines the ledger: every document on paper entered
\* once, in the order of printing, all but the last one at any time.
THEOREM LedgerImplemented == Spec => LedgerKept
<1>1. Init => Ledger!LedgerInit
  BY DEF Init, Ledger!LedgerInit
<1>2. IInv /\ [Next]_vars => [Ledger!LedgerNext]_(Ledger!ledgerVars)
  BY LedgerStep
<1>3. QED
  BY <1>1, <1>2, Inductive, PTL DEF Spec, LedgerKept, Ledger!LedgerSpec

=============================================================================
