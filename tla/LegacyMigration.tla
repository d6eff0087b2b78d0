-------------------------- MODULE LegacyMigration --------------------------
(* The print history of the 4.x line, which names vouchers only by an HMAC  *)
(* of their code, enters the SQLite archive along two ways: the guided      *)
(* migration of data/history.jsonl (legacy_migration.py) and the import of  *)
(* a ZIP backup without SQLite (legacy_backup_import.py). A row is resolved *)
(* against the vouchers known in clear; when none is known, the import      *)
(* creates a placeholder, which a later migration merges into the voucher   *)
(* of the controller. Each step is a transaction of its own, plans are made *)
(* before modal dialogs, and the process may die between any two steps.     *)
EXTENDS Integers, FiniteSets

CONSTANTS
  Code,        \* voucher codes in clear; the HMAC of a row stands for one
  Controller,  \* enrolled controllers
  Zip,         \* ZIP backups of the 4.x line
  Row,         \* legacy rows: PDF generations and prints
  PrintRow,    \* those that are prints
  CodeOf,      \* the code whose HMAC a row carries
  Contains,    \* the rows in the history of a ZIP
  Readable,    \* the codes that its PDFs show
  LiveRows,    \* the legacy rows of data/history.jsonl
  Touched,     \* placeholders on which an earlier build recorded activity
  Native,      \* a print made by this version
  Time,        \* when a print row, or the native print, was made
  None

Voucher == (Controller \cup Zip) \X Code

Owner(v) == v[1]
Clear(v) == v[2]
Placeholder == Zip \X Code

ASSUME LegacyAssumption ==
  /\ PrintRow \subseteq Row /\ CodeOf \in [Row -> Code]
  /\ Contains \in [Zip -> SUBSET Row] /\ Readable \in [Zip -> SUBSET Code]
  /\ LiveRows \subseteq Row /\ Touched \subseteq Placeholder
  /\ Native \notin Row
  /\ None \notin Voucher \cup Controller \cup Zip \cup Row \cup {Native}
  /\ Controller \cap Zip = {}

ASSUME TimeAssumption ==
  /\ Time \in [PrintRow \cup {Native} -> Nat]
  /\ \A f, g \in PrintRow \cup {Native} : Time[f] = Time[g] => f = g

VARIABLES
  vouchers,  \* rows of the table vouchers
  retained,  \* those with a RETENTION_ARCHIVED event of an earlier build
  scrubbed,  \* those whose code was replaced by ARCHIVED-<id>
  evidence,  \* legacy_audit_events: status, voucher, materialised
  facts,     \* prints and generations in the archive, <<what, voucher>>
  first,     \* the print of a voucher that is numbered 1
  complete,  \* ZIPs with a run that resolved every row
  pc,        \* step of the migration or import in progress
  source,    \* the ZIP being imported, None for history.jsonl
  plan,      \* the plan made before the dialogs
  active,    \* controller of the session
  checked    \* the session has already made its automatic check

archive == <<vouchers, retained, scrubbed, evidence, facts, first, complete>>
session == <<pc, source, plan, active, checked>>
vars == <<archive, session>>

Status == {"none", "UNRESOLVED", "AMBIGUOUS", "RESOLVED"}
Absent == [status |-> "none", voucher |-> None]
NoPlan == [r \in Row |-> Absent]
Unknown == [status |-> "none", voucher |-> None, done |-> FALSE]
Fact == Row \cup {Native}

TypeOK ==
  /\ vouchers \subseteq Voucher /\ retained \subseteq vouchers
  /\ scrubbed \subseteq retained
  /\ evidence \in [Row -> [status : Status, voucher : Voucher \cup {None},
                           done : BOOLEAN]]
  /\ facts \subseteq Fact \X Voucher
  /\ first \in [Voucher -> PrintRow \cup {Native, None}]
  /\ complete \subseteq Zip
  /\ pc \in {"idle", "offer", "compare", "confirm", "backup", "evidence", "materialise",
             "zip backup", "repair", "candidates"}
  /\ source \in Zip \cup {None} /\ active \in Controller \cup {None}
  /\ plan \in [Row -> [status : Status, voucher : Voucher \cup {None}]]
  /\ checked \in BOOLEAN

-----------------------------------------------------------------------------
(* Plans                                                                   *)

Resolved(r) == evidence[r].status = "RESOLVED"

\* A code can be read only from a row that was not minimised.
Visible == vouchers \ scrubbed

\* A placeholder gives way to a voucher of the preferred controller.
Candidates(preferred) ==
  {v \in Visible : v \in Placeholder => <<preferred, Clear(v)>> \notin Visible}

Resolution(r, candidates) ==
  LET matches == {v \in candidates : Clear(v) = CodeOf[r]}
  IN  CASE matches = {} -> [status |-> "UNRESOLVED", voucher |-> None]
        [] \E v \in matches : matches = {v} ->
             [status |-> "RESOLVED", voucher |-> CHOOSE v \in matches : TRUE]
        [] OTHER -> [status |-> "AMBIGUOUS", voucher |-> None]

PlanOf(rows, candidates) ==
  [r \in Row |-> IF r \in rows THEN Resolution(r, candidates) ELSE Absent]

\* Mutant of CanMove: any row gives way to one with its code.
CanMoveAnywhere(old, new) ==
  {old, new} \subseteq Visible /\ Clear(old) = Clear(new) /\ new \notin Placeholder

\* A placeholder may become a voucher of a controller when nothing but the
\* migration has ever written about it.
CanMove(old, new) ==
  /\ {old, new} \subseteq Visible /\ Clear(old) = Clear(new)
  /\ old \in Placeholder \ (Touched \cup retained) /\ new \notin Placeholder

Contradicted(r) ==
  /\ Resolved(r) /\ plan[r].status = "RESOLVED"
  /\ evidence[r].voucher # plan[r].voucher

\* What legacy_migration_plan_needs_reconciliation returns TRUE for.
Improves(r) ==
  /\ plan[r].status # "none"
  /\ \/ plan[r].status = "RESOLVED" /\ plan[r].voucher \notin vouchers
     \/ Resolved(r) /\ ~evidence[r].done
     \/ Contradicted(r) /\ CanMove(evidence[r].voucher, plan[r].voucher)
     \/ ~Resolved(r) /\ plan[r].status # evidence[r].status

\* What it raises for.
Conflicts(r) ==
  /\ Resolved(r) /\ evidence[r].done
  /\ \/ Contradicted(r) /\ ~CanMove(evidence[r].voucher, plan[r].voucher)
     \/ evidence[r].voucher \in Placeholder /\ plan[r].status = "AMBIGUOUS"

-----------------------------------------------------------------------------
(* The transactions                                                        *)

PrintsIn(F, v) == {f \in PrintRow \cup {Native} : <<f, v>> \in F}

Earliest(P) == CHOOSE f \in P : \A g \in P : Time[f] <= Time[g]

FirstOf(F, v) == IF PrintsIn(F, v) = {} THEN None ELSE Earliest(PrintsIn(F, v))

\* The placeholders that the plan replaces, with their replacements.
Moves == {<<evidence[r].voucher, plan[r].voucher>> :
            r \in {s \in Row : Contradicted(s)}}

Moved(v) == IF \E n \in Voucher : <<v, n>> \in Moves
            THEN CHOOSE n \in Voucher : <<v, n>> \in Moves ELSE v

\* The resolved vouchers are still there, no resolution regresses, and what
\* the plan resolves differently may move.
Applicable ==
  /\ \A r \in Row : plan[r].status = "RESOLVED" => plan[r].voucher \in vouchers
  /\ \A r \in Row : Resolved(r) => plan[r].status \in {"none", "RESOLVED"}
  /\ \A m \in Moves : CanMove(m[1], m[2])

\* Mutant of Merged: the prints of the placeholder are left behind.
MergedPrintsLeft ==
  /\ facts' = {<<f[1], IF f[1] \in PrintRow THEN f[2] ELSE Moved(f[2])>> : f \in facts}
  /\ first' = first

\* Facts follow their voucher; the prints of a voucher that receives some are
\* numbered again by time.
Merged ==
  /\ facts' = {<<f[1], Moved(f[2])>> : f \in facts}
  /\ first' = [v \in Voucher |->
                 IF Moved(v) # v THEN None
                 ELSE IF \E m \in Moves : m[2] = v /\ PrintsIn(facts, m[1]) # {}
                 THEN FirstOf(facts', v) ELSE first[v]]

ApplyEvidence ==
  /\ evidence' =
       [r \in Row |->
          IF Resolved(r) \/ plan[r].status = "none"
          THEN [evidence[r] EXCEPT !.voucher = Moved(@)]
          ELSE [status |-> plan[r].status, voucher |-> plan[r].voucher,
                done |-> FALSE]]
  /\ Merged
  /\ vouchers' = vouchers \ {m[1] : m \in Moves}
  /\ complete' = complete \cup {z \in {source} \ {None} :
                    \A r \in Contains[z] : plan[r].status = "RESOLVED"}

\* Mutant of Materialised: the prints are only counted on.
MaterialisedUnnumbered ==
  /\ facts' = facts \cup {<<r, evidence[r].voucher>> : r \in {s \in Row : Resolved(s)}}
  /\ first' = [v \in Voucher |->
                 IF first[v] = None THEN FirstOf(facts', v) ELSE first[v]]
  /\ evidence' = [r \in Row |-> [evidence[r] EXCEPT !.done = Resolved(r)]]

\* Every resolved row becomes a fact of its voucher, once; the vouchers with
\* a legacy print are numbered again.
Materialised ==
  /\ facts' = facts \cup {<<r, evidence[r].voucher>> : r \in {s \in Row : Resolved(s)}}
  /\ first' = [v \in Voucher |->
                 IF \E r \in PrintRow : Resolved(r) /\ evidence[r].voucher = v
                 THEN FirstOf(facts', v) ELSE first[v]]
  /\ evidence' = [r \in Row |-> [evidence[r] EXCEPT !.done = Resolved(r)]]

-----------------------------------------------------------------------------
(* The session                                                             *)

\* An earlier build imported one ZIP entirely and minimised some of its
\* placeholders; another may have written the clear code of some back.
Imported(z) ==
  /\ {CodeOf[r] : r \in Contains[z]} \subseteq Readable[z]
  /\ vouchers = {<<z, CodeOf[r]>> : r \in Contains[z]}
  /\ evidence = [r \in Row |->
                   IF r \in Contains[z]
                   THEN [status |-> "RESOLVED", voucher |-> <<z, CodeOf[r]>>,
                         done |-> TRUE]
                   ELSE Unknown]
  /\ facts = {<<r, <<z, CodeOf[r]>> >> : r \in Contains[z]}
  /\ complete = {z}

Init ==
  /\ \/ /\ vouchers = {} /\ facts = {} /\ complete = {}
        /\ evidence = [r \in Row |-> Unknown]
     \/ \E z \in Zip : Imported(z)
  /\ retained \in SUBSET vouchers /\ scrubbed \in SUBSET retained
  /\ first = [v \in Voucher |-> FirstOf(facts, v)]
  /\ pc = "idle" /\ source = None /\ plan = NoPlan
  /\ active = None /\ checked = FALSE

Live(c, S) == {<<c, code>> : code \in S}

\* The list of the controller is stored; after the first of a session the
\* legacy history is compared with the archive.
Connect(c, S) ==
  /\ pc = "idle"
  /\ vouchers' = vouchers \cup Live(c, S)
  /\ active' = c /\ checked' = TRUE
  /\ pc' = IF checked THEN "idle" ELSE "offer"
  /\ UNCHANGED <<retained, scrubbed, evidence, facts, first, complete, source, plan>>

\* A later list, also while the dialogs of a plan are open.
Refresh(S) ==
  /\ pc \in {"idle", "confirm"} /\ active # None
  /\ vouchers' = vouchers \cup Live(active, S)
  /\ UNCHANGED <<retained, scrubbed, evidence, facts, first, complete, session>>

Stop ==
  /\ pc' = "idle" /\ source' = None /\ plan' = NoPlan
  /\ UNCHANGED <<active, checked>>

Continue(step) ==
  /\ pc' = step /\ UNCHANGED <<source, active, checked>>

\* The history of the station is planned in a background task, on the
\* candidates read when it starts; it goes on to the given step.
PlanLive(step) ==
  /\ IF LiveRows = {} THEN Stop
     ELSE plan' = PlanOf(LiveRows, Candidates(active)) /\ Continue(step)
  /\ UNCHANGED archive

OfferReconciliation == pc = "offer" /\ PlanLive("compare")

MigrateFromMaintenance == pc = "idle" /\ PlanLive("confirm")

\* Something to gain opens the guided migration, a conflict only a warning;
\* the rows are examined in the order of the history, up to the first such.
Compare ==
  /\ pc = "compare"
  /\ \/ (\E r \in LiveRows : Improves(r)) /\ Continue("confirm") /\ UNCHANGED plan
     \/ (\E r \in LiveRows : Conflicts(r)) /\ Stop
     \/ (\A r \in LiveRows : ~Improves(r) /\ ~Conflicts(r)) /\ Stop
  /\ UNCHANGED archive

\* Confirmation, password and file name are modal dialogs.
Confirm ==
  /\ pc = "confirm" /\ Continue("backup") /\ UNCHANGED <<plan, archive>>

Decline == pc = "confirm" /\ Stop /\ UNCHANGED archive

\* No step is taken before a verified encrypted backup exists.
SafetyBackup ==
  /\ pc \in {"backup", "zip backup"}
  /\ Continue(IF pc = "backup" THEN "evidence" ELSE "repair")
  /\ UNCHANGED <<plan, archive>>

\* A step that fails rolls its own transaction back and ends the task; what
\* earlier steps have committed stays.
Fail ==
  /\ pc \in {"backup", "zip backup", "repair", "candidates", "evidence",
             "materialise"}
  /\ Stop /\ UNCHANGED archive

Apply ==
  /\ pc = "evidence"
  /\ IF Applicable
     THEN ApplyEvidence /\ Continue("materialise")
          /\ UNCHANGED <<retained, scrubbed, plan>>
     ELSE Stop /\ UNCHANGED archive

Materialise ==
  /\ pc = "materialise" /\ Materialised /\ Stop
  /\ UNCHANGED <<vouchers, retained, scrubbed, complete>>

-----------------------------------------------------------------------------
(* The import of a ZIP                                                     *)

ImportZip(z) ==
  /\ pc = "idle" /\ pc' = "zip backup" /\ source' = z /\ plan' = NoPlan
  /\ UNCHANGED <<archive, active, checked>>

\* The vouchers that were minimised after their history had been resolved.
MinimisedOf(code) ==
  {v \in retained : \E r \in Row : /\ CodeOf[r] = code /\ Resolved(r)
                                   /\ evidence[r].voucher = v}

\* They lose their clear code again; the import of a complete history goes
\* straight to the facts.
RepairMinimised ==
  /\ pc = "repair"
  /\ scrubbed' = scrubbed \cup UNION {MinimisedOf(code) : code \in Code}
  /\ Continue(IF source \in complete THEN "materialise" ELSE "candidates")
  /\ UNCHANGED <<vouchers, retained, evidence, facts, first, complete, plan>>

RowsOf(code) == {v \in Visible : Clear(v) = code}

\* Only codes that the history proves are recovered from the PDFs.
RecoveredCodes(z) == Readable[z] \cap {CodeOf[r] : r \in Contains[z]}

Selected(code) ==
  LET preferred == {v \in RowsOf(code) : Owner(v) = active}
  IN  IF preferred # {} THEN preferred ELSE {v \in RowsOf(code) : RowsOf(code) = {v}}

\* Mutant of Chosen: the minimised voucher is not looked for.
ChosenInClear(z, code) ==
  IF Selected(code) # {} THEN Selected(code) \ retained
  ELSE {<<z, code>>} \ retained

\* The minimised voucher of the code, or else the one row with it, or else a
\* placeholder; retained rows are left to the database candidates.
Chosen(z, code) ==
  IF MinimisedOf(code) # {} THEN MinimisedOf(code)
  ELSE IF Selected(code) # {} THEN Selected(code) \ retained
  ELSE {<<z, code>>} \ retained

Refused(code) ==
  \/ Cardinality(MinimisedOf(code)) > 1
  \/ MinimisedOf(code) # {} /\ RowsOf(code) # {}

\* The placeholders are committed before the plan that needs them is applied.
EnsureCandidates ==
  /\ pc = "candidates"
  /\ IF \E code \in RecoveredCodes(source) : Refused(code)
     THEN Stop /\ UNCHANGED vouchers
     ELSE LET chosen == UNION {Chosen(source, code) : code \in RecoveredCodes(source)}
              others == {v \in Visible : \A w \in chosen : Clear(v) # Clear(w)}
          IN  /\ vouchers' = vouchers \cup chosen
              /\ plan' = PlanOf(Contains[source], chosen \cup others)
              /\ Continue("evidence")
  /\ UNCHANGED <<retained, scrubbed, evidence, facts, first, complete>>

-----------------------------------------------------------------------------

\* A print by this version, numbered after the earlier ones of its voucher.
NativePrint(v) ==
  /\ pc = "idle" /\ v \in vouchers /\ active # None /\ Owner(v) = active
  /\ \A w \in Voucher : <<Native, w>> \notin facts
  /\ \A f \in PrintsIn(facts, v) : Time[f] < Time[Native]
  /\ facts' = facts \cup {<<Native, v>>}
  /\ first' = [first EXCEPT ![v] = IF @ = None THEN Native ELSE @]
  /\ UNCHANGED <<vouchers, retained, scrubbed, evidence, complete, session>>

\* The process dies, or the operator closes the program.
Restart ==
  /\ pc' = "idle" /\ source' = None /\ plan' = NoPlan
  /\ active' = None /\ checked' = FALSE
  /\ UNCHANGED archive

Next ==
  \/ \E S \in SUBSET Code : Refresh(S) \/ \E c \in Controller : Connect(c, S)
  \/ OfferReconciliation \/ MigrateFromMaintenance \/ Compare
  \/ Confirm \/ Decline \/ SafetyBackup \/ Fail \/ Apply \/ Materialise
  \/ (\E z \in Zip : ImportZip(z)) \/ RepairMinimised \/ EnsureCandidates
  \/ (\E v \in Voucher : NativePrint(v))
  \/ Restart

Spec == Init /\ [][Next]_vars

-----------------------------------------------------------------------------
(* Properties                                                              *)

\* What the archive holds of the 4.x line is what was proved, once: a legacy
\* row is a print or generation of a voucher exactly when it is resolved to
\* it and materialised, through ZIPs imported again, histories that overlap,
\* merges, and failures between the transactions.
FactsFollowEvidence ==
  /\ \A r \in Row, v \in Voucher :
       <<r, v>> \in facts <=>
         Resolved(r) /\ evidence[r].done /\ evidence[r].voucher = v
  /\ \A f \in facts : f[2] \in vouchers
  /\ \A r \in Row : Resolved(r) => /\ evidence[r].voucher \in vouchers
                                   /\ Clear(evidence[r].voucher) = CodeOf[r]
  /\ \A r \in Row : evidence[r].done => Resolved(r)

\* Print number 1 of a voucher is its earliest print, whatever the order in
\* which legacy evidence, merged placeholders and native prints arrived.
FirstPrintIsEarliest == \A v \in Voucher : first[v] = FirstOf(facts, v)

\* Evidence only grows: a resolved row stays resolved and materialised, and
\* changes its voucher only from a placeholder of an import to the voucher
\* of a controller with the same code.
EvidenceMonotone ==
  [][\A r \in Row :
       /\ evidence[r].status # "none" => evidence'[r].status # "none"
       /\ evidence[r].done => evidence'[r].done
       /\ Resolved(r) =>
            /\ evidence'[r].status = "RESOLVED"
            /\ \/ evidence'[r].voucher = evidence[r].voucher
               \/ /\ evidence[r].voucher \in Placeholder
                  /\ evidence'[r].voucher \notin Placeholder
                  /\ Clear(evidence'[r].voucher) = Clear(evidence[r].voucher)]_vars

\* Minimisation is not undone by another import: no placeholder in clear is
\* created for a code whose resolved history belongs to a minimised voucher,
\* and that voucher is never merged away.
MinimisedStays ==
  [][/\ retained \subseteq vouchers'
     /\ \A v \in (vouchers' \ vouchers) \cap Placeholder :
          \A w \in retained, r \in Row :
            Resolved(r) /\ evidence[r].voucher = w => CodeOf[r] # Clear(v)]_vars

\* docs/5.1_FINAL_UAT_CHECKLIST.md: when a placeholder and a live voucher are
\* the same, the evidence ends on the live one. A session whose comparison
\* finds nothing to do should have left no placeholder that could move.
CleanMeansConverged ==
  pc = "compare" /\ (\A r \in LiveRows : ~Improves(r) /\ ~Conflicts(r)) =>
    \A r \in Row, c \in Controller :
      Resolved(r) /\ c = active =>
        ~CanMove(evidence[r].voucher, <<c, CodeOf[r]>>)

=============================================================================
