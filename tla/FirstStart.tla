----------------------------- MODULE FirstStart -----------------------------
(* The first starts of an installation whose data root is shared by the    *)
(* Windows users of a PC (app.py, database.py, onboarding.py,              *)
(* onboarding_ui.py, shared_data_migration.py).  A start takes the guard   *)
(* of the data root, creates or upgrades the schema, and classifies what   *)
(* it finds: a finished or older installation is opened, data of the user  *)
(* who starts asks for a decision, an empty root runs the wizard.  Users   *)
(* take turns, each with a tree of their own or none, and a process may    *)
(* die between any two statements.                                         *)
(* Restore and migration replace the tree as one step: module DataRoot has *)
(* their files.                                                            *)
EXTENDS Naturals

CONSTANTS
  User,      \* Windows users of the PC
  Table,     \* tables and indexes of the schema
  Schema,    \* SCHEMA_VERSION of the program
  PerUser,   \* the users' earlier trees, None where there is none
  Backups,   \* what validated backups hold
  None

\* shape is the schema version each table has, 0 where it is missing; row the
\* schema_version of app_metadata; marker and fresh its other two keys; facts
\* rows of the operational tables; files settings, history, PDFs and logos.
Tree == [version : Nat, shape : [Table -> Nat], row : BOOLEAN,
         marker : BOOLEAN, fresh : BOOLEAN, profile : BOOLEAN,
         facts : BOOLEAN, files : BOOLEAN]

\* The version number is true of every table.
Whole(t) == t.version > 0 => \A x \in Table : t.shape[x] = t.version

\* A tree of an earlier or another installation.
Foreign(t) ==
  /\ t \in Tree /\ Whole(t)
  /\ t.version = 0 => \A x \in Table : t.shape[x] = 0

ASSUME FirstStartAssumption ==
  /\ Schema \in Nat \ {0}
  /\ None \notin User \cup Tree
  /\ PerUser \in [User -> Tree \cup {None}]
  /\ \A u \in User : PerUser[u] # None => Foreign(PerUser[u])
  /\ \A t \in Backups : Foreign(t)

VARIABLES
  tree,    \* the shared tree
  owner,   \* the user whose process holds the guard
  pc,      \* how far that process is
  origin   \* the furthest source of what the tree holds

vars == <<tree, owner, pc, origin>>

Step == {"off", "opening", "versioned", "open", "ask", "begin", "wizard",
         "connected", "saved", "ready"}

TypeOK ==
  /\ tree \in Tree /\ owner \in User \cup {None} /\ pc \in Step
  /\ origin \in {"starts", "wizard", "data"}

Empty == [version |-> 0, shape |-> [x \in Table |-> 0], row |-> FALSE,
          marker |-> FALSE, fresh |-> FALSE, profile |-> FALSE,
          facts |-> FALSE, files |-> FALSE]

Init == tree = Empty /\ owner = None /\ pc = "off" /\ origin = "starts"

-----------------------------------------------------------------------------
(* The process and its guard                                               *)

\* A second launch is refused while the guard is held.
Launch(u) ==
  /\ owner = None /\ owner' = u /\ pc' = "opening"
  /\ UNCHANGED <<tree, origin>>

\* A crash, a failing statement, a close, a database newer than the program,
\* which initialize rejects: the guard is given back.
Gone == owner' = None /\ pc' = "off"

Leave == owner # None /\ Gone /\ UNCHANGED <<tree, origin>>

-----------------------------------------------------------------------------
(* Database.initialize                                                     *)

\* executescript commits what transaction() began, so that each CREATE ... IF
\* NOT EXISTS is a transaction of its own.
Create(x) ==
  /\ pc = "opening" /\ tree.version = 0 /\ tree.shape[x] = 0
  /\ tree' = [tree EXCEPT !.shape[x] = Schema]
  /\ UNCHANGED <<owner, pc, origin>>

\* Mutant of Created: the number is written before the tables.
CreatedEarly(t) == t.version = 0

Created(t) == t.version = 0 /\ \A x \in Table : t.shape[x] # 0

\* The version number, then the row that repeats it.
SetVersion ==
  /\ pc = "opening" /\ Created(tree)
  /\ tree' = [tree EXCEPT !.version = Schema]
  /\ pc' = "versioned"
  /\ UNCHANGED <<owner, origin>>

WriteVersionRow ==
  /\ pc = "versioned" /\ pc' = "open"
  /\ tree' = [tree EXCEPT !.row = TRUE]
  /\ UNCHANGED <<owner, origin>>

Upgraded(t) ==
  [t EXCEPT !.version = @ + 1, !.row = TRUE,
            !.shape = [x \in Table |-> t.version + 1]]

\* One migration, from BEGIN IMMEDIATE to COMMIT.
Upgrade ==
  /\ pc = "opening" /\ tree.version \in 1..(Schema - 1)
  /\ tree' = Upgraded(tree)
  /\ UNCHANGED <<owner, pc, origin>>

\* A current database is opened as it is.
Open ==
  /\ pc = "opening" /\ tree.version = Schema /\ pc' = "open"
  /\ UNCHANGED <<tree, owner, origin>>

-----------------------------------------------------------------------------
(* What the start finds                                                    *)

Migratable(u) == PerUser[u] # None

\* Mutant of Disposition: operational data are looked at before the marker.
DispositionByData(t, u) ==
  IF t.profile \/ t.facts \/ t.files THEN "ready"
  ELSE IF t.marker \/ t.fresh \/ ~Migratable(u) THEN "begin"
  ELSE "ask"

\* onboarding_state and startup_onboarding_state.
Disposition(t, u) ==
  IF t.profile THEN "ready"
  ELSE IF t.marker THEN "begin"
  ELSE IF t.facts \/ t.files THEN "ready"
  ELSE IF Migratable(u) /\ ~t.fresh THEN "ask"
  ELSE "begin"

Classify ==
  /\ pc = "open" /\ pc' = Disposition(tree, owner)
  /\ UNCHANGED <<tree, owner, origin>>

\* A tree that is not yet in use: the schema and its version, nothing else.
Pristine(t) ==
  /\ t.row /\ ~t.marker /\ ~t.fresh /\ ~t.profile /\ ~t.facts /\ ~t.files

Written == IF origin = "data" THEN "data" ELSE "wizard"

\* The decision MigrationRequiredDialog asks for.  The move is offered in the
\* settings too, where it is refused unless the tree is pristine.
Migrate ==
  /\ pc \in {"ask", "ready"} /\ Migratable(owner) /\ Pristine(tree)
  /\ tree' = PerUser[owner] /\ origin' = "data" /\ Gone

StartFresh ==
  /\ pc = "ask" /\ pc' = "begin"
  /\ tree' = [tree EXCEPT !.fresh = TRUE] /\ origin' = Written
  /\ UNCHANGED owner

\* Offered by the dialog, by the wizard and in the settings.
Restore ==
  /\ pc \in {"ask", "wizard", "connected", "saved", "ready"}
  /\ tree' \in Backups /\ origin' = "data" /\ Gone

-----------------------------------------------------------------------------
(* FirstRunWizard                                                          *)

Marked(t) == [t EXCEPT !.marker = TRUE]

\* The marker is stored before the first page.
BeginOnboarding ==
  /\ pc = "begin" /\ pc' = "wizard"
  /\ tree' = Marked(tree) /\ origin' = Written
  /\ UNCHANGED owner

\* _finish copies the logo, stores the controller with its vouchers, writes
\* the settings and at last the profile.  An error returns to the pages.
KeepLogo ==
  /\ pc = "wizard"
  /\ tree' = [tree EXCEPT !.files = TRUE] /\ origin' = Written
  /\ UNCHANGED <<owner, pc>>

StoreController ==
  /\ pc = "wizard" /\ pc' = "connected"
  /\ tree' = [tree EXCEPT !.files = TRUE, !.facts = TRUE]
  /\ origin' = Written /\ UNCHANGED owner

StoreSettings ==
  /\ pc = "connected" /\ pc' = "saved"
  /\ tree' = [tree EXCEPT !.files = TRUE] /\ origin' = Written
  /\ UNCHANGED owner

FinishFailed ==
  /\ pc \in {"connected", "saved"} /\ pc' = "wizard"
  /\ UNCHANGED <<tree, owner, origin>>

\* One transaction: thresholds, profile, and the end of the marker.
CompleteOnboarding ==
  /\ pc = "saved" /\ pc' = "ready"
  /\ tree' = [tree EXCEPT !.profile = TRUE, !.marker = FALSE]
  /\ UNCHANGED <<owner, origin>>

-----------------------------------------------------------------------------
\* Ordinary work: facts, settings, history and documents.
Operate ==
  /\ pc = "ready"
  /\ \/ tree' = [tree EXCEPT !.facts = TRUE]
     \/ tree' = [tree EXCEPT !.files = TRUE]
  /\ origin' = "data" /\ UNCHANGED <<owner, pc>>

Opening == \/ \E x \in Table : Create(x)
           \/ SetVersion \/ WriteVersionRow \/ Upgrade \/ Open \/ Classify

Deciding == Migrate \/ StartFresh \/ Restore

Wizard == \/ BeginOnboarding \/ KeepLogo \/ StoreController \/ StoreSettings
          \/ FinishFailed \/ CompleteOnboarding

Next == (\E u \in User : Launch(u)) \/ Leave \/ Opening \/ Deciding \/ Wizard
          \/ Operate

Spec == Init /\ [][Next]_vars

-----------------------------------------------------------------------------
(* Properties                                                              *)

\* Once the version says so, every table has the shape of that version,
\* wherever a creation or an upgrade was interrupted.
SchemaWhole == Whole(tree)

\* A wizard that was begun is resumed: an installation without a profile is
\* opened only on data that came from elsewhere, and never because of what an
\* unfinished wizard has written itself.
WizardResumes == pc = "ready" /\ ~tree.profile => origin = "data"

\* What the starts alone have written does not stand in the way of the
\* migration the dialog offers.
StartsArePristine == pc = "ask" /\ origin = "starts" => Pristine(tree)

=============================================================================
