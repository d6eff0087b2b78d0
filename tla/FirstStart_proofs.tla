-------------------------- MODULE FirstStart_proofs --------------------------
(* Proofs about FirstStart for any users, trees, backups, tables and number *)
(* of schema versions.  Shapes says how far an interrupted creation can be, *)
(* Sources what the wizard may have written and how it is marked.           *)
EXTENDS FirstStart, TLAPS

\* Before the version is written a table is missing or current.
Shapes ==
  /\ Whole(tree)
  /\ tree.version = 0 => \A x \in Table : tree.shape[x] \in {0, Schema}

\* The starts write nothing but the schema, the wizard nothing unmarked.
Sources ==
  /\ origin = "starts" => /\ ~tree.marker /\ ~tree.fresh /\ ~tree.profile
                          /\ ~tree.facts /\ ~tree.files
  /\ origin = "wizard" => \/ tree.profile \/ tree.marker
                          \/ ~tree.facts /\ ~tree.files
  /\ origin # "data" /\ pc \in {"wizard", "connected", "saved"} => tree.marker
  /\ origin # "data" /\ pc = "ready" => tree.profile

\* A process that is on has the guard.
Guarded == pc # "off" => owner # None

\* The inductive invariant.
IInv == TypeOK /\ Shapes /\ Sources /\ Guarded

-----------------------------------------------------------------------------
\* The empty tree is whole and written by nobody.
LEMMA InitInductive == Init => IInv
<1> SUFFICES ASSUME Init PROVE IInv
  OBVIOUS
<1>1. Empty \in Tree
  BY FirstStartAssumption DEF Empty, Tree
<1>2. TypeOK
  BY <1>1 DEF Init, TypeOK, Step
<1>3. Shapes
  BY FirstStartAssumption DEF Init, Shapes, Whole, Empty
<1>4. Sources
  BY DEF Init, Sources, Empty
<1>5. QED
  BY <1>2, <1>3, <1>4 DEF IInv, Guarded, Init

\* A tree brought in from outside is whole, and of another source.
LEMMA BroughtIn ==
  ASSUME NEW t, Foreign(t), tree' = t, origin' = "data", Gone
  PROVE  IInv'
<1>1. TypeOK'
  BY DEF Foreign, Gone, TypeOK, Step
<1>2. Shapes'
  BY DEF Foreign, Shapes, Whole
<1>3. Sources'
  BY DEF Sources
<1>4. QED
  BY <1>1, <1>2, <1>3 DEF IInv, Guarded, Gone

\* A step that leaves the schema alone leaves its shapes alone.
LEMMA ShapesKept ==
  ASSUME Shapes, tree'.version = tree.version, tree'.shape = tree.shape
  PROVE  Shapes'
  BY DEF Shapes, Whole

\* Steps of Database.initialize.
LEMMA OpeningInductive ==
  ASSUME IInv, Opening
  PROVE  IInv'
<1> USE FirstStartAssumption DEF IInv, TypeOK, Guarded
<1>1. CASE \E x \in Table : Create(x)
  <2> PICK x \in Table : Create(x)
    BY <1>1
  <2>1. tree' \in Tree
    BY DEF Create, Tree
  <2>2. Shapes'
    BY DEF Create, Shapes, Whole, Tree
  <2>3. Sources'
    BY DEF Create, Sources, Tree
  <2>4. QED
    BY <2>1, <2>2, <2>3 DEF Create
<1>2. CASE SetVersion
  <2>1. tree' \in Tree /\ pc' \in Step
    BY <1>2 DEF SetVersion, Tree, Step
  <2>2. Shapes'
    BY <1>2 DEF SetVersion, Created, Shapes, Whole, Tree
  <2>3. Sources'
    BY <1>2 DEF SetVersion, Sources, Tree
  <2>4. QED
    BY <1>2, <2>1, <2>2, <2>3 DEF SetVersion
<1>3. CASE WriteVersionRow
  <2>1. tree' \in Tree /\ pc' \in Step
    BY <1>3 DEF WriteVersionRow, Tree, Step
  <2>2. Shapes'
    BY <1>3, ShapesKept DEF WriteVersionRow, Tree
  <2>3. Sources'
    BY <1>3 DEF WriteVersionRow, Sources, Tree
  <2>4. QED
    BY <1>3, <2>1, <2>2, <2>3 DEF WriteVersionRow
<1>4. CASE Upgrade
  <2>1. tree' \in Tree
    <3>1. tree.version + 1 \in Nat
      BY DEF Tree
    <3>2. [x \in Table |-> tree.version + 1] \in [Table -> Nat]
      BY <3>1
    <3>3. QED
      BY <1>4, <3>1, <3>2 DEF Upgrade, Upgraded, Tree
  <2>2. Shapes'
    BY <1>4 DEF Upgrade, Upgraded, Shapes, Whole, Tree
  <2>3. Sources'
    BY <1>4 DEF Upgrade, Upgraded, Sources, Tree
  <2>4. QED
    BY <1>4, <2>1, <2>2, <2>3 DEF Upgrade
<1>5. CASE Open
  BY <1>5 DEF Open, Shapes, Whole, Sources, Step
<1>6. CASE Classify
  <2>1. pc' \in Step
    BY <1>6 DEF Classify, Disposition, Step
  <2>2. Shapes'
    BY <1>6, ShapesKept DEF Classify
  <2>3. Sources'
    BY <1>6 DEF Classify, Disposition, Sources
  <2>4. QED
    BY <1>6, <2>1, <2>2, <2>3 DEF Classify
<1>7. QED
  BY <1>1, <1>2, <1>3, <1>4, <1>5, <1>6 DEF Opening

\* The decision between migration, restore and a new installation.
LEMMA DecidingInductive ==
  ASSUME IInv, Deciding
  PROVE  IInv'
<1> USE FirstStartAssumption
<1>1. CASE Migrate
  <2>1. owner \in User
    BY <1>1 DEF IInv, TypeOK, Guarded, Migrate
  <2>2. Foreign(PerUser[owner])
    BY <1>1, <2>1 DEF Migrate, Migratable
  <2>3. QED
    BY <1>1, <2>2, BroughtIn DEF Migrate
<1>2. CASE StartFresh
  <2>1. TypeOK'
    BY <1>2 DEF IInv, TypeOK, StartFresh, Written, Tree, Step
  <2>2. Shapes'
    BY <1>2, ShapesKept DEF IInv, TypeOK, StartFresh, Tree
  <2>3. Sources'
    BY <1>2 DEF IInv, TypeOK, StartFresh, Written, Sources, Tree
  <2>4. QED
    BY <1>2, <2>1, <2>2, <2>3 DEF IInv, Guarded, StartFresh
<1>3. CASE Restore
  BY <1>3, BroughtIn DEF Restore
<1>4. QED
  BY <1>1, <1>2, <1>3 DEF Deciding

\* The steps of the wizard and of ordinary work leave the schema alone.
LEMMA WizardInductive ==
  ASSUME IInv, Wizard \/ Operate
  PROVE  IInv'
<1> USE DEF IInv, TypeOK, Guarded
<1>1. /\ tree'.version = tree.version /\ tree'.shape = tree.shape
      /\ tree' \in Tree
  BY DEF Wizard, BeginOnboarding, Marked, KeepLogo, StoreController,
         StoreSettings, FinishFailed, CompleteOnboarding, Operate, Tree
<1>2. owner' = owner /\ pc' \in Step /\ origin' \in {"starts", "wizard", "data"}
  BY DEF Wizard, BeginOnboarding, KeepLogo, StoreController, StoreSettings,
         FinishFailed, CompleteOnboarding, Operate, Written, Step
<1>3. Sources'
  <2>1. CASE BeginOnboarding
    BY <2>1 DEF BeginOnboarding, Marked, Written, Sources, Tree
  <2>2. CASE KeepLogo
    BY <2>2 DEF KeepLogo, Written, Sources, Tree
  <2>3. CASE StoreController
    BY <2>3 DEF StoreController, Written, Sources, Tree
  <2>4. CASE StoreSettings
    BY <2>4 DEF StoreSettings, Written, Sources, Tree
  <2>5. CASE FinishFailed
    BY <2>5 DEF FinishFailed, Sources
  <2>6. CASE CompleteOnboarding
    BY <2>6 DEF CompleteOnboarding, Sources, Tree
  <2>7. CASE Operate
    BY <2>7 DEF Operate, Sources
  <2>8. QED
    BY <2>1, <2>2, <2>3, <2>4, <2>5, <2>6, <2>7 DEF Wizard
<1>4. Guarded'
  BY <1>2 DEF Wizard, BeginOnboarding, KeepLogo, StoreController, StoreSettings,
              FinishFailed, CompleteOnboarding, Operate
<1>5. QED
  BY <1>1, <1>2, <1>3, <1>4, ShapesKept

\* Every step keeps the invariant.
LEMMA NextInductive == IInv /\ [Next]_vars => IInv'
<1> SUFFICES ASSUME IInv, [Next]_vars PROVE IInv'
  OBVIOUS
<1>1. CASE \E u \in User : Launch(u)
  BY <1>1, FirstStartAssumption DEF IInv, TypeOK, Launch, Shapes, Whole, Sources, Guarded,
              Step
<1>2. CASE Leave
  BY <1>2 DEF IInv, TypeOK, Leave, Gone, Shapes, Whole, Sources,
              Guarded, Step
<1>3. CASE Opening
  BY <1>3, OpeningInductive
<1>4. CASE Deciding
  BY <1>4, DecidingInductive
<1>5. CASE Wizard \/ Operate
  BY <1>5, WizardInductive
<1>6. CASE UNCHANGED vars
  BY <1>6 DEF vars, IInv, TypeOK, Shapes, Whole, Sources, Guarded
<1>7. QED
  BY <1>1, <1>2, <1>3, <1>4, <1>5, <1>6 DEF Next

-----------------------------------------------------------------------------
\* The inductive invariant holds in every state.
LEMMA Invariant == Spec => []IInv
  BY InitInductive, NextInductive, PTL DEF Spec

\* Every reachable state of the first starts is well typed.
THEOREM TypeCorrect == Spec => []TypeOK
<1>1. IInv => TypeOK
  BY DEF IInv
<1>2. QED
  BY Invariant, <1>1, PTL

\* The version number is true of every table, whatever was interrupted.
THEOREM SchemaAlwaysWhole == Spec => []SchemaWhole
<1>1. IInv => SchemaWhole
  BY DEF IInv, Shapes, SchemaWhole
<1>2. QED
  BY Invariant, <1>1, PTL

\* A wizard that was begun is resumed by every later start.
THEOREM WizardAlwaysResumes == Spec => []WizardResumes
<1>1. IInv => WizardResumes
  BY DEF IInv, Sources, WizardResumes
<1>2. QED
  BY Invariant, <1>1, PTL

=============================================================================
