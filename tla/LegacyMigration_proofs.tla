----------------------- MODULE LegacyMigration_proofs -----------------------
(* Proofs about LegacyMigration for every set of codes, controllers, ZIPs   *)
(* and rows. The facts of the archive follow its evidence because the plan  *)
(* in memory resolves a row only to a voucher of its code and two rows of   *)
(* one code alike (PlanOk); the first print stays the earliest because      *)
(* every step that adds prints to a voucher that may have some numbers them *)
(* again, and native prints are made in the order of time.                  *)
EXTENDS LegacyMigration, WellFoundedInduction, TLAPS

\* A plan resolves rows to vouchers of their code, rows of one code alike.
PlanOk ==
  /\ \A r \in Row : plan[r].status = "RESOLVED" =>
       plan[r].voucher \in Voucher /\ Clear(plan[r].voucher) = CodeOf[r]
  /\ \A r, s \in Row :
       /\ plan[r].status = "RESOLVED" /\ plan[s].status = "RESOLVED"
       /\ CodeOf[r] = CodeOf[s]
       => plan[r].voucher = plan[s].voucher

\* The steps of an import have their ZIP.
HasSource == pc \in {"zip backup", "repair", "candidates"} => source \in Zip

\* The parts of the inductive invariant beside the types.
Parts == PlanOk /\ HasSource /\ FactsFollowEvidence /\ FirstPrintIsEarliest

\* The inductive invariant.
IInv == TypeOK /\ Parts

-----------------------------------------------------------------------------
(* The first print.                                                         *)

\* Nonempty sets of prints have a unique earliest one.
LEMMA EarliestExists ==
  ASSUME NEW P \in SUBSET (PrintRow \cup {Native}), P # {}
  PROVE  Earliest(P) \in P /\ \A g \in P : Time[Earliest(P)] <= Time[g]
<1> DEFINE Less == {ss \in Nat \X Nat : ss[1] < ss[2]}
           T == {Time[f] : f \in P}
<1>1. T \subseteq Nat /\ T # {}
  BY TimeAssumption
<1>2. PICK n \in T : \A m \in T : n <= m
  <2>1. IsWellFoundedOn(Less, Nat)
    BY NatLessThanWellFounded, Zenon DEF OpToRel
  <2>2. PICK n \in T : \A m \in T : <<m, n>> \notin Less
    <3> HIDE DEF Less, T
    <3> QED
      BY <1>1, <2>1, WFMin
  <2>3. \A m \in Nat : m < n => <<m, n>> \in Less
    BY <1>1
  <2>4. ASSUME NEW m \in T
        PROVE  n <= m
    <3>1. m \in Nat /\ n \in Nat /\ <<m, n>> \notin Less
      BY <1>1, <2>2
    <3>2. ~(m < n)
      <4> HIDE DEF Less
      <4> QED
        BY <2>3, <3>1
    <3>3. QED
      BY <3>1, <3>2
  <2>5. QED
    <3> HIDE DEF T
    <3> QED
      BY <2>4
<1>3. \E f \in P : \A g \in P : Time[f] <= Time[g]
  BY <1>2
<1>4. QED
  BY <1>3 DEF Earliest

\* The prints of a voucher are legacy or native ones.
LEMMA PrintsType ==
  ASSUME NEW F, NEW v
  PROVE  PrintsIn(F, v) \in SUBSET (PrintRow \cup {Native})
  BY DEF PrintsIn

\* The earliest print of a voucher is a print, or none.
LEMMA FirstOfType ==
  ASSUME NEW F, NEW v
  PROVE  FirstOf(F, v) \in PrintRow \cup {Native, None}
  BY EarliestExists, PrintsType DEF FirstOf

\* A voucher whose prints do not change keeps its first one.
LEMMA SamePrints ==
  ASSUME NEW F, NEW G, NEW v, NEW w,
         \A f \in PrintRow \cup {Native} : <<f, v>> \in F <=> <<f, w>> \in G
  PROVE  FirstOf(F, v) = FirstOf(G, w)
<1>1. PrintsIn(F, v) = PrintsIn(G, w)
  BY DEF PrintsIn
<1>2. QED
  BY <1>1 DEF FirstOf

\* A print later than all others is not the first.
LEMMA LaterPrint ==
  ASSUME NEW P \in SUBSET (PrintRow \cup {Native}), P # {},
         \A f \in P : Time[f] < Time[Native]
  PROVE  Earliest(P \cup {Native}) = Earliest(P)
<1> DEFINE Q == P \cup {Native}
<1>1. Earliest(P) \in P /\ \A g \in P : Time[Earliest(P)] <= Time[g]
  BY EarliestExists
<1>2. Earliest(Q) \in Q /\ \A g \in Q : Time[Earliest(Q)] <= Time[g]
  BY EarliestExists
<1>3. Time[Earliest(Q)] <= Time[Earliest(P)] /\ Time[Earliest(P)] < Time[Native]
  BY <1>1, <1>2
<1>4. \A f \in Q : Time[f] \in Nat
  BY TimeAssumption
<1>5. Earliest(Q) \in P
  BY <1>1, <1>2, <1>3, <1>4
<1>6. Time[Earliest(P)] <= Time[Earliest(Q)]
  BY <1>1, <1>5
<1>7. Time[Earliest(P)] = Time[Earliest(Q)]
  BY <1>1, <1>2, <1>3, <1>4, <1>6
<1>8. QED
  BY <1>1, <1>2, <1>7, TimeAssumption

-----------------------------------------------------------------------------
(* Plans.                                                                   *)

\* A row is resolved to one of the candidates, with the code of the row.
LEMMA ResolutionFacts ==
  ASSUME NEW r \in Row, NEW C \in SUBSET Voucher
  PROVE  /\ Resolution(r, C) \in [status : Status, voucher : Voucher \cup {None}]
         /\ Resolution(r, C).status = "RESOLVED" =>
              /\ Resolution(r, C).voucher \in C
              /\ Clear(Resolution(r, C).voucher) = CodeOf[r]
<1> DEFINE matches == {v \in C : Clear(v) = CodeOf[r]}
<1>1. CASE matches = {}
  <2>1. Resolution(r, C) = [status |-> "UNRESOLVED", voucher |-> None]
    BY <1>1 DEF Resolution
  <2>2. QED
    BY <2>1 DEF Status
<1>2. CASE \E v \in matches : matches = {v}
  <2>1. PICK v \in matches : matches = {v}
    BY <1>2
  <2>2. Resolution(r, C) = [status |-> "RESOLVED", voucher |-> v]
    BY <2>1 DEF Resolution
  <2>3. QED
    BY <2>1, <2>2 DEF Status
<1>3. CASE matches # {} /\ ~\E v \in matches : matches = {v}
  <2>1. Resolution(r, C) = [status |-> "AMBIGUOUS", voucher |-> None]
    BY <1>3 DEF Resolution
  <2>2. QED
    BY <2>1 DEF Status
<1>4. QED
  BY <1>1, <1>2, <1>3

\* Rows of one code are resolved alike.
LEMMA ResolutionByCode ==
  ASSUME NEW r \in Row, NEW s \in Row, NEW C, CodeOf[r] = CodeOf[s]
  PROVE  Resolution(r, C) = Resolution(s, C)
  BY DEF Resolution

\* A plan made from rows and candidates is sound.
LEMMA PlanFacts ==
  ASSUME NEW R \in SUBSET Row, NEW C \in SUBSET Voucher, plan' = PlanOf(R, C)
  PROVE  /\ plan' \in [Row -> [status : Status, voucher : Voucher \cup {None}]]
         /\ PlanOk'
<1>1. \A r \in Row : plan'[r] = IF r \in R THEN Resolution(r, C) ELSE Absent
  BY DEF PlanOf
<1>2. \A r \in Row : plan'[r] \in [status : Status, voucher : Voucher \cup {None}]
  BY <1>1, ResolutionFacts DEF Absent, Status
<1>3. \A r \in Row : plan'[r].status = "RESOLVED" =>
        r \in R /\ plan'[r] = Resolution(r, C)
  BY <1>1 DEF Absent
<1>4. QED
  BY <1>2, <1>3, ResolutionFacts, ResolutionByCode DEF PlanOk, PlanOf

\* No plan is a sound plan.
LEMMA NoPlanFacts ==
  ASSUME plan' = NoPlan
  PROVE  /\ plan' \in [Row -> [status : Status, voucher : Voucher \cup {None}]]
         /\ PlanOk'
  BY DEF NoPlan, Absent, Status, PlanOk

-----------------------------------------------------------------------------
(* Moves.                                                                   *)

\* Only placeholders move, to rows of the archive with their code that are
\* none.
LEMMA MovesFacts ==
  ASSUME TypeOK, Applicable, NEW m \in Moves
  PROVE  /\ m = <<m[1], m[2]>>
         /\ m[1] \in (vouchers \cap Placeholder) \ retained
         /\ m[2] \in vouchers \ Placeholder
         /\ Clear(m[1]) = Clear(m[2])
<1>1. CanMove(m[1], m[2])
  BY DEF Applicable
<1>2. m = <<m[1], m[2]>>
  BY DEF Moves
<1>3. QED
  BY <1>1, <1>2 DEF CanMove, Visible

\* A row without a voucher is not moved by a merge.
LEMMA NoneUnmoved ==
  ASSUME TypeOK, Applicable
  PROVE  Moved(None) = None
<1>1. None \notin vouchers
  BY LegacyAssumption DEF TypeOK
<1>2. ~\E n \in Voucher : <<None, n>> \in Moves
  BY <1>1, MovesFacts
<1>3. QED
  BY <1>2 DEF Moved

\* Where a merge takes a voucher: to the target of its move, else nowhere.
LEMMA MovedFacts ==
  ASSUME TypeOK, Applicable, NEW v
  PROVE  /\ Moved(v) # v => <<v, Moved(v)>> \in Moves
         /\ Moved(v) = v => \A m \in Moves : m[1] # v
         /\ v \in vouchers => Moved(v) \in vouchers \ {m[1] : m \in Moves}
         /\ v \in vouchers => Clear(Moved(v)) = Clear(v)
         /\ Moved(None) = None
<1>1. CASE \E n \in Voucher : <<v, n>> \in Moves
  <2>1. Moved(v) \in Voucher /\ <<v, Moved(v)>> \in Moves
    BY <1>1 DEF Moved
  <2>2. v \in Placeholder /\ Moved(v) \in vouchers \ Placeholder
        /\ Clear(v) = Clear(Moved(v))
    BY <2>1, MovesFacts
  <2>3. \A m \in Moves : m[1] # Moved(v)
    BY <2>2, MovesFacts
  <2>4. QED
    BY <2>1, <2>2, <2>3, NoneUnmoved
<1>2. CASE ~\E n \in Voucher : <<v, n>> \in Moves
  <2>1. Moved(v) = v
    BY <1>2 DEF Moved
  <2>2. ASSUME NEW m \in Moves, m[1] = v
        PROVE  FALSE
    <3>1. m = <<v, m[2]>> /\ m[2] \in vouchers
      BY <2>2, MovesFacts
    <3>2. <<v, m[2]>> \in Moves /\ m[2] \in Voucher
      BY <3>1, Zenon DEF TypeOK
    <3>3. QED
      BY <1>2, <3>2
  <2>3. QED
    BY <2>1, <2>2, NoneUnmoved
<1>3. QED
  BY <1>1, <1>2
-----------------------------------------------------------------------------
(* The transactions.                                                        *)

\* What applying a plan makes of a row of evidence.
LEMMA AppliedRow ==
  ASSUME IInv, Applicable, ApplyEvidence, NEW r \in Row
  PROVE  /\ Resolved(r) => /\ evidence'[r].status = "RESOLVED"
                           /\ evidence'[r].done = evidence[r].done
                           /\ evidence'[r].voucher = Moved(evidence[r].voucher)
         /\ ~Resolved(r) => (evidence'[r].done => evidence[r].done)
         /\ ~Resolved(r) /\ evidence'[r].status = "RESOLVED" =>
              /\ ~evidence'[r].done
              /\ plan[r].status = "RESOLVED"
              /\ evidence'[r].voucher = plan[r].voucher
         /\ evidence'[r] \in [status : Status, voucher : Voucher \cup {None},
                              done : BOOLEAN]
<1>1. evidence[r] \in [status : Status, voucher : Voucher \cup {None}, done : BOOLEAN]
  BY DEF IInv, TypeOK
<1>2. plan[r].status \in Status /\ plan[r].voucher \in Voucher \cup {None}
  BY DEF IInv, TypeOK
<1>3. Moved(evidence[r].voucher) \in Voucher \cup {None}
  <2>1. Moved(evidence[r].voucher) = evidence[r].voucher
        \/ <<evidence[r].voucher, Moved(evidence[r].voucher)>> \in Moves
    BY MovedFacts DEF IInv
  <2>2. QED
    BY <1>1, <2>1, MovesFacts DEF IInv, TypeOK
<1>4. CASE Resolved(r) \/ plan[r].status = "none"
  <2>1. evidence'[r] = [evidence[r] EXCEPT !.voucher = Moved(@)]
    BY <1>4 DEF ApplyEvidence
  <2>2. /\ evidence'[r].voucher = Moved(evidence[r].voucher)
        /\ evidence'[r].status = evidence[r].status
        /\ evidence'[r].done = evidence[r].done
        /\ evidence'[r] \in [status : Status, voucher : Voucher \cup {None},
                             done : BOOLEAN]
    BY <1>1, <1>3, <2>1
  <2>3. QED
    BY <2>2, <1>4 DEF Resolved
<1>5. CASE ~Resolved(r) /\ plan[r].status # "none"
  <2>1. evidence'[r] = [status |-> plan[r].status, voucher |-> plan[r].voucher,
                        done |-> FALSE]
    BY <1>5 DEF ApplyEvidence
  <2>2. /\ evidence'[r].voucher = plan[r].voucher
        /\ evidence'[r].status = plan[r].status
        /\ evidence'[r].done = FALSE
        /\ evidence'[r] \in [status : Status, voucher : Voucher \cup {None},
                             done : BOOLEAN]
    BY <1>2, <2>1
  <2>3. QED
    BY <2>2, <1>5
<1>6. QED
  BY <1>4, <1>5

\* A voucher that a new resolution names is not moved away: a row of the same
\* code is resolved by the same plan to where the placeholder goes.
LEMMA ResolvedStays ==
  ASSUME IInv, Applicable, NEW r \in Row, plan[r].status = "RESOLVED"
  PROVE  plan[r].voucher \in vouchers \ {m[1] : m \in Moves}
<1>1. plan[r].voucher \in vouchers
  BY DEF Applicable
<1>2. ASSUME NEW m \in Moves, m[1] = plan[r].voucher
      PROVE  FALSE
  <2>1. PICK s \in Row : Contradicted(s) /\ m = <<evidence[s].voucher, plan[s].voucher>>
    BY DEF Moves
  <2>2. CodeOf[r] = Clear(m[1]) /\ CodeOf[s] = Clear(m[2]) /\ Clear(m[1]) = Clear(m[2])
    BY <1>2, <2>1, MovesFacts DEF IInv, Parts, PlanOk, Contradicted
  <2>3. plan[s].voucher = plan[r].voucher
    BY <2>1, <2>2 DEF IInv, Parts, PlanOk, Contradicted
  <2>4. m[1] \in Placeholder /\ m[2] \notin Placeholder
    BY MovesFacts DEF IInv
  <2>5. QED
    BY <1>2, <2>1, <2>3, <2>4
<1>3. QED
  BY <1>1, <1>2

\* After a merge a fact is of the voucher its old one was moved to.
LEMMA FactsMoved ==
  ASSUME IInv, Applicable, Merged
  PROVE  \A g, v : <<g, v>> \in facts' <=>
           \E u \in vouchers : <<g, u>> \in facts /\ Moved(u) = v
<1>1. facts' = {<<f[1], Moved(f[2])>> : f \in facts}
  BY DEF Merged
<1>2. \A f \in facts : f = <<f[1], f[2]>>
  <2>1. facts \subseteq Fact \X Voucher
    BY DEF IInv, TypeOK
  <2>2. QED
    BY <2>1
<1>3. \A f \in facts : f[2] \in vouchers
  BY DEF IInv, Parts, FactsFollowEvidence
<1>4. QED
  BY <1>1, <1>2, <1>3

\* Applying the evidence keeps the facts with the evidence.
LEMMA ApplyFacts ==
  ASSUME IInv, Applicable, ApplyEvidence
  PROVE  FactsFollowEvidence'
<1> USE DEF IInv, Parts
<1>0. vouchers' = vouchers \ {m[1] : m \in Moves} /\ Merged
  BY DEF ApplyEvidence
<1>1. ASSUME NEW r \in Row, NEW v \in Voucher
      PROVE  <<r, v>> \in facts' <=>
               (Resolved(r) /\ evidence[r].done /\ evidence[r].voucher = v)'
  <2>1. <<r, v>> \in facts' <=>
          \E u \in vouchers : <<r, u>> \in facts /\ Moved(u) = v
    BY <1>0, FactsMoved
  <2>2. \A u \in vouchers : <<r, u>> \in facts <=>
          Resolved(r) /\ evidence[r].done /\ evidence[r].voucher = u
    BY DEF FactsFollowEvidence, TypeOK
  <2>3. Resolved(r) => evidence[r].voucher \in vouchers
    BY DEF FactsFollowEvidence
  <2>4. <<r, v>> \in facts' <=>
          Resolved(r) /\ evidence[r].done /\ Moved(evidence[r].voucher) = v
    BY <2>1, <2>2, <2>3
  <2>5. QED
    BY <2>4, AppliedRow DEF Resolved
<1>2. ASSUME NEW f \in facts'
      PROVE  f[2] \in vouchers'
  <2>1. PICK g \in facts : f = <<g[1], Moved(g[2])>>
    BY <1>0 DEF Merged
  <2>2. g[2] \in vouchers
    BY DEF FactsFollowEvidence
  <2>3. QED
    BY <1>0, <2>1, <2>2, MovedFacts
<1>3. ASSUME NEW r \in Row, Resolved(r)'
      PROVE  evidence'[r].voucher \in vouchers'
             /\ Clear(evidence'[r].voucher) = CodeOf[r]
  <2>1. CASE Resolved(r)
    <3>1. evidence[r].voucher \in vouchers /\ Clear(evidence[r].voucher) = CodeOf[r]
      BY <2>1 DEF FactsFollowEvidence
    <3>2. evidence'[r].voucher = Moved(evidence[r].voucher)
      BY <2>1, AppliedRow
    <3>3. QED
      BY <1>0, <3>1, <3>2, MovedFacts
  <2>2. CASE ~Resolved(r)
    <3>1. plan[r].status = "RESOLVED" /\ evidence'[r].voucher = plan[r].voucher
      BY <1>3, <2>2, AppliedRow DEF Resolved
    <3>2. QED
      BY <1>0, <3>1, ResolvedStays DEF PlanOk
  <2>3. QED
    BY <2>1, <2>2
<1>4. ASSUME NEW r \in Row, evidence'[r].done
      PROVE  Resolved(r)'
  <2>1. Resolved(r)
    BY <1>4, AppliedRow DEF FactsFollowEvidence
  <2>2. QED
    BY <2>1, AppliedRow DEF Resolved
<1>5. QED
  BY <1>1, <1>2, <1>3, <1>4 DEF FactsFollowEvidence

\* Vouchers that receive no prints keep theirs, those moved away have none.
LEMMA ApplyFirst ==
  ASSUME IInv, Applicable, Merged
  PROVE  FirstPrintIsEarliest'
<1> USE DEF IInv, Parts
<1>0. first' = [v \in Voucher |->
                 IF Moved(v) # v THEN None
                 ELSE IF \E m \in Moves : m[2] = v /\ PrintsIn(facts, m[1]) # {}
                 THEN FirstOf(facts', v) ELSE first[v]]
  BY DEF Merged
<1>1. ASSUME NEW v \in Voucher
      PROVE  first'[v] = FirstOf(facts', v)
  <2>1. CASE Moved(v) # v
    <3>1. first'[v] = None
      BY <1>0, <2>1
    <3>2. ASSUME NEW u \in vouchers, Moved(u) = v
          PROVE  FALSE
      <4>1. v \notin {m[1] : m \in Moves}
        BY <3>2, MovedFacts
      <4>2. <<v, Moved(v)>> \in Moves
        BY <2>1, MovedFacts
      <4>3. QED
        BY <4>1, <4>2
    <3>3. PrintsIn(facts', v) = {}
      BY <3>2, FactsMoved DEF PrintsIn
    <3>4. QED
      BY <3>1, <3>3 DEF FirstOf
  <2>2. CASE /\ Moved(v) = v
             /\ \E m \in Moves : m[2] = v /\ PrintsIn(facts, m[1]) # {}
    BY <1>0, <2>2
  <2>3. CASE /\ Moved(v) = v
             /\ ~\E m \in Moves : m[2] = v /\ PrintsIn(facts, m[1]) # {}
    <3>1. first'[v] = first[v]
      BY <1>0, <2>3
    <3>2. ASSUME NEW f \in PrintRow \cup {Native}
          PROVE  <<f, v>> \in facts' <=> <<f, v>> \in facts
      <4>1. ASSUME <<f, v>> \in facts'
            PROVE  <<f, v>> \in facts
        <5>1. PICK u \in vouchers : <<f, u>> \in facts /\ Moved(u) = v
          BY <4>1, FactsMoved
        <5>2. f \in PrintsIn(facts, u)
          BY <5>1 DEF PrintsIn
        <5>3. u = v
          BY <2>3, <5>1, <5>2, MovedFacts
        <5>4. QED
          BY <5>1, <5>3
      <4>2. ASSUME <<f, v>> \in facts
            PROVE  <<f, v>> \in facts'
        <5>1. v \in vouchers
          BY <4>2 DEF FactsFollowEvidence
        <5>2. QED
          BY <2>3, <4>2, <5>1, FactsMoved
      <4>3. QED
        BY <4>1, <4>2
    <3>3. FirstOf(facts', v) = FirstOf(facts, v)
      BY <3>2, SamePrints
    <3>4. QED
      BY <3>1, <3>3 DEF FirstPrintIsEarliest
  <2>4. QED
    BY <2>1, <2>2, <2>3
<1>2. QED
  BY <1>1 DEF FirstPrintIsEarliest

\* Applying the evidence keeps the types.
LEMMA ApplyType ==
  ASSUME IInv, Applicable, ApplyEvidence
  PROVE  /\ evidence' \in [Row -> [status : Status, voucher : Voucher \cup {None},
                                   done : BOOLEAN]]
         /\ facts' \subseteq Fact \X Voucher
         /\ first' \in [Voucher -> PrintRow \cup {Native, None}]
         /\ retained \subseteq vouchers' /\ vouchers' \subseteq Voucher
<1>1. \A r \in Row : evidence'[r] \in [status : Status, voucher : Voucher \cup {None},
                                       done : BOOLEAN]
  <2> TAKE r \in Row
  <2>1. QED
    BY AppliedRow
<1>2. evidence' \in [Row -> [status : Status, voucher : Voucher \cup {None},
                             done : BOOLEAN]]
  BY <1>1 DEF ApplyEvidence
<1>3. ASSUME NEW f \in facts'
      PROVE  f \in Fact \X Voucher
  <2>1. PICK g \in facts : f = <<g[1], Moved(g[2])>>
    BY DEF ApplyEvidence, Merged
  <2>2. g[1] \in Fact /\ g[2] \in vouchers
    BY DEF IInv, Parts, TypeOK, FactsFollowEvidence
  <2>3. QED
    BY <2>1, <2>2, MovedFacts DEF IInv, TypeOK
<1>4. ASSUME NEW v \in Voucher
      PROVE  first'[v] \in PrintRow \cup {Native, None}
  BY ApplyFirst, FirstOfType DEF ApplyEvidence, FirstPrintIsEarliest
<1>5. first' \in [Voucher -> PrintRow \cup {Native, None}]
  BY <1>4 DEF ApplyEvidence, Merged
<1>6. \A m \in Moves : m[1] \notin retained
  BY MovesFacts DEF IInv
<1>7. QED
  BY <1>2, <1>3, <1>5, <1>6 DEF ApplyEvidence, IInv, TypeOK

\* The materialisation keeps types, facts and first prints.
LEMMA MaterialisedKeeps ==
  ASSUME IInv, Materialised, UNCHANGED vouchers
  PROVE  /\ FactsFollowEvidence' /\ FirstPrintIsEarliest'
         /\ evidence' \in [Row -> [status : Status, voucher : Voucher \cup {None},
                                   done : BOOLEAN]]
         /\ facts' \subseteq Fact \X Voucher
         /\ first' \in [Voucher -> PrintRow \cup {Native, None}]
<1> USE DEF IInv, Parts
<1> DEFINE new == {<<r, evidence[r].voucher>> : r \in {s \in Row : Resolved(s)}}
<1>1. facts' = facts \cup new
  BY DEF Materialised
<1>2. ASSUME NEW r \in Row
      PROVE  /\ evidence'[r].status = evidence[r].status
             /\ evidence'[r].voucher = evidence[r].voucher
             /\ evidence'[r].done = Resolved(r)
             /\ evidence'[r] \in [status : Status, voucher : Voucher \cup {None},
                                  done : BOOLEAN]
  <2>1. evidence'[r] = [evidence[r] EXCEPT !.done = Resolved(r)]
    BY DEF Materialised
  <2>2. evidence[r] \in [status : Status, voucher : Voucher \cup {None}, done : BOOLEAN]
    BY DEF TypeOK
  <2>3. Resolved(r) \in BOOLEAN
    BY DEF Resolved
  <2>4. QED
    BY <2>1, <2>2, <2>3
<1>3. \A r \in Row : Resolved(r) => evidence[r].voucher \in vouchers
  BY DEF FactsFollowEvidence
<1>4. ASSUME NEW r \in Row, NEW v \in Voucher
      PROVE  <<r, v>> \in facts' <=>
               (Resolved(r) /\ evidence[r].done /\ evidence[r].voucher = v)'
  <2>1. <<r, v>> \in facts' <=>
          <<r, v>> \in facts \/ (Resolved(r) /\ evidence[r].voucher = v)
    BY <1>1
  <2>2. <<r, v>> \in facts => Resolved(r) /\ evidence[r].voucher = v
    BY DEF FactsFollowEvidence
  <2>3. QED
    BY <1>2, <2>1, <2>2 DEF Resolved
<1>5. FactsFollowEvidence'
  <2>1. \A f \in facts' : f[2] \in vouchers'
    BY <1>1, <1>3 DEF FactsFollowEvidence
  <2>2. \A r \in Row : Resolved(r)' => /\ evidence'[r].voucher \in vouchers'
                                       /\ Clear(evidence'[r].voucher) = CodeOf[r]
    BY <1>2 DEF FactsFollowEvidence, Resolved
  <2>3. \A r \in Row : evidence'[r].done => Resolved(r)'
    BY <1>2 DEF Resolved
  <2>4. QED
    BY <1>4, <2>1, <2>2, <2>3 DEF FactsFollowEvidence
<1>6. ASSUME NEW v \in Voucher
      PROVE  first'[v] = FirstOf(facts', v)
  <2>1. CASE \E r \in PrintRow : Resolved(r) /\ evidence[r].voucher = v
    BY <2>1 DEF Materialised
  <2>2. CASE ~\E r \in PrintRow : Resolved(r) /\ evidence[r].voucher = v
    <3>1. first'[v] = first[v]
      BY <2>2 DEF Materialised
    <3>2. \A f \in PrintRow \cup {Native} : <<f, v>> \in facts' <=> <<f, v>> \in facts
      BY <1>1, <2>2, LegacyAssumption
    <3>3. QED
      BY <3>1, <3>2, SamePrints DEF FirstPrintIsEarliest
  <2>3. QED
    BY <2>1, <2>2
<1>7. evidence' \in [Row -> [status : Status, voucher : Voucher \cup {None},
                             done : BOOLEAN]]
  BY <1>2 DEF Materialised
<1>8. facts' \subseteq Fact \X Voucher
  <2>1. facts \subseteq Fact \X Voucher /\ vouchers \subseteq Voucher
    BY DEF TypeOK
  <2>2. \A r \in Row : Resolved(r) => <<r, evidence[r].voucher>> \in Fact \X Voucher
    BY <1>3, <2>1 DEF Fact
  <2>3. QED
    BY <1>1, <2>1, <2>2
<1>9. first' \in [Voucher -> PrintRow \cup {Native, None}]
  <2>1. \A v \in Voucher : first'[v] \in PrintRow \cup {Native, None}
    BY <1>6, FirstOfType
  <2>2. QED
    BY <2>1 DEF Materialised
<1>10. QED
  BY <1>5, <1>6, <1>7, <1>8, <1>9 DEF FirstPrintIsEarliest

\* A native print keeps facts and first prints.
LEMMA NativeKeeps ==
  ASSUME IInv, NEW v \in Voucher, NativePrint(v)
  PROVE  /\ FactsFollowEvidence' /\ FirstPrintIsEarliest'
         /\ facts' \subseteq Fact \X Voucher
         /\ first' \in [Voucher -> PrintRow \cup {Native, None}]
<1> USE DEF IInv, Parts
<1>1. /\ facts' = facts \cup {<<Native, v>>} /\ v \in vouchers
      /\ first' = [first EXCEPT ![v] = IF @ = None THEN Native ELSE @]
      /\ UNCHANGED <<vouchers, evidence>>
  BY DEF NativePrint
<1>2. FactsFollowEvidence'
  BY <1>1, LegacyAssumption DEF FactsFollowEvidence, Resolved
<1>3. facts' \subseteq Fact \X Voucher
  <2>1. facts \subseteq Fact \X Voucher
    BY DEF TypeOK
  <2>2. <<Native, v>> \in Fact \X Voucher
    BY DEF Fact
  <2>3. QED
    BY <1>1, <2>1, <2>2
<1>4. first' \in [Voucher -> PrintRow \cup {Native, None}]
  BY <1>1 DEF TypeOK
<1>5. ASSUME NEW w \in Voucher, w # v
      PROVE  first'[w] = FirstOf(facts', w)
  <2>1. first'[w] = first[w]
    BY <1>1, <1>5 DEF TypeOK
  <2>2. \A f \in PrintRow \cup {Native} : <<f, w>> \in facts' <=> <<f, w>> \in facts
    BY <1>1, <1>5
  <2>3. QED
    BY <2>1, <2>2, SamePrints DEF FirstPrintIsEarliest
<1>6. first'[v] = FirstOf(facts', v)
  <2> DEFINE P == PrintsIn(facts, v)
  <2>1. PrintsIn(facts', v) = P \cup {Native}
    BY <1>1 DEF PrintsIn
  <2>2. first[v] = FirstOf(facts, v) /\ P \in SUBSET (PrintRow \cup {Native})
    BY PrintsType DEF FirstPrintIsEarliest
  <2>3. first'[v] = IF first[v] = None THEN Native ELSE first[v]
    BY <1>1 DEF TypeOK
  <2>4. CASE P = {}
    <3>1. first'[v] = Native
      BY <2>2, <2>3, <2>4 DEF FirstOf
    <3>2. Earliest({Native}) = Native
      BY EarliestExists
    <3>3. QED
      BY <2>1, <2>4, <3>1, <3>2 DEF FirstOf
  <2>5. CASE P # {}
    <3>1. \A f \in P : Time[f] < Time[Native]
      BY DEF NativePrint
    <3>2. Earliest(P \cup {Native}) = Earliest(P) /\ Earliest(P) \in P
      BY <2>2, <2>5, <3>1, LaterPrint, EarliestExists
    <3>3. first[v] = Earliest(P) /\ first[v] # None
      <4>1. None # Native /\ None \notin PrintRow
        BY LegacyAssumption
      <4>2. QED
        BY <2>2, <2>5, <3>2, <4>1 DEF FirstOf
    <3>4. QED
      BY <2>1, <2>3, <3>2, <3>3 DEF FirstOf
  <2>6. QED
    BY <2>4, <2>5
<1>7. QED
  BY <1>2, <1>3, <1>4, <1>5, <1>6 DEF FirstPrintIsEarliest
-----------------------------------------------------------------------------
(* Every action.                                                            *)

\* The initial state satisfies the invariant.
LEMMA InitInductive == Init => IInv
<1> SUFFICES ASSUME Init PROVE IInv
  OBVIOUS
<1>1. /\ first = [v \in Voucher |-> FirstOf(facts, v)]
      /\ retained \subseteq vouchers /\ scrubbed \subseteq retained
      /\ pc = "idle" /\ source = None /\ plan = NoPlan /\ active = None
      /\ checked = FALSE
  BY DEF Init
<1>2. first \in [Voucher -> PrintRow \cup {Native, None}] /\ FirstPrintIsEarliest
  BY <1>1, FirstOfType DEF FirstPrintIsEarliest
<1>3. PlanOk /\ plan \in [Row -> [status : Status, voucher : Voucher \cup {None}]]
  BY <1>1 DEF PlanOk, NoPlan, Absent, Status
<1>4. CASE vouchers = {} /\ facts = {} /\ complete = {} /\ evidence = [r \in Row |-> Unknown]
  <2>1. TypeOK
    BY <1>1, <1>2, <1>3, <1>4 DEF TypeOK, Unknown, Status
  <2>2. FactsFollowEvidence
    BY <1>4 DEF FactsFollowEvidence, Resolved, Unknown
  <2>3. QED
    BY <2>1, <2>2, <1>1, <1>2, <1>3 DEF IInv, Parts, HasSource
<1>5. ASSUME NEW z \in Zip, Imported(z)
      PROVE  TypeOK /\ FactsFollowEvidence
  <2>1. \A r \in Contains[z] : r \in Row /\ CodeOf[r] \in Code
                               /\ <<z, CodeOf[r]>> \in Voucher
    BY LegacyAssumption DEF Voucher
  <2>2. ASSUME NEW r \in Row
        PROVE  /\ r \in Contains[z] => /\ evidence[r].status = "RESOLVED"
                                       /\ evidence[r].voucher = <<z, CodeOf[r]>>
                                       /\ evidence[r].done = TRUE
               /\ r \notin Contains[z] => evidence[r].status = "none"
               /\ evidence[r] \in [status : Status, voucher : Voucher \cup {None},
                                   done : BOOLEAN]
    <3>1. CASE r \in Contains[z]
      <4>1. evidence[r] = [status |-> "RESOLVED", voucher |-> <<z, CodeOf[r]>>,
                           done |-> TRUE]
        BY <1>5, <3>1 DEF Imported
      <4>2. QED
        BY <2>1, <3>1, <4>1 DEF Status
    <3>2. CASE r \notin Contains[z]
      <4>1. evidence[r] = Unknown
        BY <1>5, <3>2 DEF Imported
      <4>2. QED
        BY <3>2, <4>1 DEF Status, Unknown
    <3>3. QED
      BY <3>1, <3>2
  <2>3. \A r \in Row : evidence[r] \in [status : Status, voucher : Voucher \cup {None},
                                        done : BOOLEAN]
    BY <2>2
  <2>4. evidence \in [Row -> [status : Status, voucher : Voucher \cup {None},
                              done : BOOLEAN]]
    BY <1>5, <2>3 DEF Imported
  <2>5. vouchers \subseteq Voucher /\ facts \subseteq Fact \X Voucher
    BY <1>5, <2>1 DEF Imported, Fact
  <2>6. TypeOK
    BY <1>1, <1>2, <1>3, <1>5, <2>4, <2>5 DEF TypeOK, Imported
  <2>7. \A r \in Row : Resolved(r) <=> r \in Contains[z]
    BY <2>2 DEF Resolved
  <2>8. ASSUME NEW r \in Row, NEW v \in Voucher
        PROVE  <<r, v>> \in facts <=>
                 Resolved(r) /\ evidence[r].done /\ evidence[r].voucher = v
    BY <1>5, <2>2, <2>7 DEF Imported
  <2>9. \A f \in facts : f[2] \in vouchers
    BY <1>5, <2>1 DEF Imported
  <2>10. \A r \in Row : Resolved(r) => /\ evidence[r].voucher \in vouchers
                                       /\ Clear(evidence[r].voucher) = CodeOf[r]
    BY <1>5, <2>2, <2>7 DEF Imported, Clear
  <2>11. \A r \in Row : evidence[r].done => Resolved(r)
    BY <1>5, <2>2 DEF Imported, Unknown, Resolved
  <2>12. QED
    BY <2>6, <2>8, <2>9, <2>10, <2>11 DEF FactsFollowEvidence
<1>6. QED
  BY <1>1, <1>2, <1>3, <1>4, <1>5 DEF Init, IInv, Parts, HasSource

\* Steps that leave evidence and facts alone and only add vouchers.
LEMMA OnlyMore ==
  ASSUME IInv, vouchers \subseteq vouchers',
         UNCHANGED <<evidence, facts, first>>
  PROVE  FactsFollowEvidence' /\ FirstPrintIsEarliest'
  BY DEF IInv, Parts, FactsFollowEvidence, FirstPrintIsEarliest, Resolved

\* What a list shows are vouchers.
LEMMA LiveType ==
  ASSUME NEW c \in Controller, NEW S \in SUBSET Code
  PROVE  Live(c, S) \subseteq Voucher
  BY DEF Live, Voucher

\* The candidates of a plan are vouchers.
LEMMA CandidatesType ==
  ASSUME TypeOK, NEW c
  PROVE  Candidates(c) \in SUBSET Voucher
  BY DEF TypeOK, Candidates, Visible

\* The rows an import chooses among are vouchers.
LEMMA ChosenType ==
  ASSUME TypeOK, NEW z \in Zip, NEW code \in Code
  PROVE  Chosen(z, code) \in SUBSET Voucher
  BY DEF TypeOK, Chosen, MinimisedOf, Selected, RowsOf, Visible, Voucher

\* Every action keeps the types and the parts of the invariant.
LEMMA NextInductive ==
  ASSUME IInv, [Next]_vars
  PROVE  IInv'
<1> USE DEF IInv, Parts, HasSource
<1>1. CASE \E S \in SUBSET Code, c \in Controller : Connect(c, S)
  <2>1. PICK S \in SUBSET Code, c \in Controller : Connect(c, S)
    BY <1>1
  <2>2. Live(c, S) \subseteq Voucher
    BY LiveType
  <2>3. FactsFollowEvidence' /\ FirstPrintIsEarliest'
    BY <2>1, OnlyMore DEF Connect
  <2>4. QED
    BY <2>1, <2>2, <2>3 DEF Connect, TypeOK, PlanOk
<1>2. CASE \E S \in SUBSET Code : Refresh(S)
  <2>1. PICK S \in SUBSET Code : Refresh(S)
    BY <1>2
  <2>2. Live(active, S) \subseteq Voucher
    BY <2>1, LiveType DEF Refresh, TypeOK
  <2>3. FactsFollowEvidence' /\ FirstPrintIsEarliest'
    BY <2>1, OnlyMore DEF Refresh
  <2>4. QED
    BY <2>1, <2>2, <2>3 DEF Refresh, TypeOK, PlanOk, session
<1>3. CASE OfferReconciliation \/ MigrateFromMaintenance
  <2>1. PICK step \in {"compare", "confirm"} : PlanLive(step)
    BY <1>3 DEF OfferReconciliation, MigrateFromMaintenance
  <2>2. UNCHANGED archive /\ source' \in Zip \cup {None}
        /\ UNCHANGED <<active, checked>> /\ pc' \in {"idle", "compare", "confirm"}
    BY <2>1 DEF PlanLive, Stop, Continue, TypeOK
  <2>3. PlanOk' /\ plan' \in [Row -> [status : Status, voucher : Voucher \cup {None}]]
    <3>1. CASE LiveRows = {}
      BY <2>1, <3>1, NoPlanFacts DEF PlanLive, Stop
    <3>2. CASE LiveRows # {}
      <4>1. plan' = PlanOf(LiveRows, Candidates(active))
        BY <2>1, <3>2 DEF PlanLive
      <4>2. LiveRows \in SUBSET Row /\ Candidates(active) \in SUBSET Voucher
        BY LegacyAssumption, CandidatesType
      <4>3. QED
        BY <4>1, <4>2, PlanFacts
    <3>3. QED
      BY <3>1, <3>2
  <2>4. FactsFollowEvidence' /\ FirstPrintIsEarliest'
    BY <2>2, OnlyMore DEF archive
  <2>5. QED
    BY <2>2, <2>3, <2>4 DEF TypeOK, archive
<1>4. CASE Compare \/ Confirm \/ Decline \/ SafetyBackup \/ Fail
  <2>1. UNCHANGED archive /\ source' \in Zip \cup {None}
        /\ UNCHANGED <<active, checked>>
        /\ pc' \in {"idle", "confirm", "backup", "evidence", "repair"}
    BY <1>4 DEF Compare, Confirm, Decline, SafetyBackup, Fail, Stop, Continue, TypeOK
  <2>2. plan' = NoPlan \/ UNCHANGED plan
    BY <1>4 DEF Compare, Confirm, Decline, SafetyBackup, Fail, Stop
  <2>3. PlanOk' /\ plan' \in [Row -> [status : Status, voucher : Voucher \cup {None}]]
    <3>1. CASE plan' = NoPlan
      BY <3>1, NoPlanFacts
    <3>2. CASE UNCHANGED plan
      BY <3>2 DEF TypeOK, PlanOk
    <3>3. QED
      BY <2>2, <3>1, <3>2
  <2>4. HasSource'
    BY <1>4 DEF Compare, Confirm, Decline, SafetyBackup, Fail, Stop, Continue
  <2>5. FactsFollowEvidence' /\ FirstPrintIsEarliest'
    BY <2>1, OnlyMore DEF archive
  <2>6. QED
    BY <2>1, <2>3, <2>4, <2>5 DEF TypeOK, archive
<1>5. CASE Apply
  <2>1. CASE Applicable
    <3>1. /\ ApplyEvidence /\ Continue("materialise")
          /\ UNCHANGED <<retained, scrubbed, plan>>
      BY <1>5, <2>1 DEF Apply
    <3>2. FactsFollowEvidence' /\ FirstPrintIsEarliest'
      BY <2>1, <3>1, ApplyFacts, ApplyFirst DEF ApplyEvidence
    <3>3. complete' \subseteq Zip
      BY <3>1 DEF ApplyEvidence, TypeOK
    <3>4. QED
      BY <2>1, <3>1, <3>2, <3>3, ApplyType DEF TypeOK, PlanOk, Continue
  <2>2. CASE ~Applicable
    <3>1. Stop /\ UNCHANGED archive
      BY <1>5, <2>2 DEF Apply
    <3>2. QED
      BY <3>1, NoPlanFacts, OnlyMore DEF Stop, archive, TypeOK
  <2>3. QED
    BY <2>1, <2>2
<1>6. CASE Materialise
  <2>1. Materialised /\ Stop /\ UNCHANGED <<vouchers, retained, scrubbed, complete>>
    BY <1>6 DEF Materialise
  <2>2. QED
    BY <2>1, MaterialisedKeeps, NoPlanFacts DEF Stop, TypeOK
<1>7. CASE \E z \in Zip : ImportZip(z)
  <2>1. PICK z \in Zip : ImportZip(z)
    BY <1>7
  <2>2. QED
    BY <2>1, NoPlanFacts, OnlyMore DEF ImportZip, archive, TypeOK
<1>8. CASE RepairMinimised
  <2>1. scrubbed' \subseteq retained
    BY <1>8 DEF RepairMinimised, MinimisedOf, TypeOK
  <2>2. FactsFollowEvidence' /\ FirstPrintIsEarliest'
    BY <1>8, OnlyMore DEF RepairMinimised
  <2>3. pc' \in {"materialise", "candidates"} /\ UNCHANGED <<source, active, checked>>
    BY <1>8 DEF RepairMinimised, Continue
  <2>4. QED
    BY <1>8, <2>1, <2>2, <2>3 DEF RepairMinimised, TypeOK, PlanOk
<1>9. CASE EnsureCandidates
  <2>1. CASE Stop /\ UNCHANGED vouchers
    <3>1. FactsFollowEvidence' /\ FirstPrintIsEarliest'
      BY <1>9, <2>1, OnlyMore DEF EnsureCandidates
    <3>2. QED
      BY <1>9, <2>1, <3>1, NoPlanFacts DEF EnsureCandidates, Stop, TypeOK
  <2>2. CASE ~(Stop /\ UNCHANGED vouchers)
    <3> DEFINE chosen == UNION {Chosen(source, code) : code \in RecoveredCodes(source)}
               others == {v \in Visible : \A w \in chosen : Clear(v) # Clear(w)}
    <3>1. /\ vouchers' = vouchers \cup chosen
          /\ plan' = PlanOf(Contains[source], chosen \cup others)
          /\ Continue("evidence")
          /\ UNCHANGED <<retained, scrubbed, evidence, facts, first, complete>>
      BY <1>9, <2>2 DEF EnsureCandidates
    <3>2. source \in Zip
      BY <1>9 DEF EnsureCandidates, HasSource
    <3>3. chosen \in SUBSET Voucher
      <4>1. \A code \in RecoveredCodes(source) : code \in Code
        BY <3>2, LegacyAssumption DEF RecoveredCodes
      <4>2. \A code \in RecoveredCodes(source) : Chosen(source, code) \in SUBSET Voucher
        BY <3>2, <4>1, ChosenType
      <4>3. QED
        BY <4>2
    <3>4. others \in SUBSET Voucher
      BY DEF Visible, TypeOK
    <3>5. PlanOk' /\ plan' \in [Row -> [status : Status, voucher : Voucher \cup {None}]]
      <4> HIDE DEF chosen, others
      <4>1. Contains[source] \in SUBSET Row /\ chosen \cup others \in SUBSET Voucher
        BY <3>2, <3>3, <3>4, LegacyAssumption
      <4>2. QED
        BY <3>1, <4>1, PlanFacts
    <3>6. FactsFollowEvidence' /\ FirstPrintIsEarliest'
      BY <3>1, OnlyMore
    <3>7. QED
      BY <3>1, <3>3, <3>5, <3>6 DEF TypeOK, Continue
  <2>3. QED
    BY <2>1, <2>2
<1>10. CASE \E v \in Voucher : NativePrint(v)
  <2>1. PICK v \in Voucher : NativePrint(v)
    BY <1>10
  <2>2. UNCHANGED <<vouchers, retained, scrubbed, evidence, complete, session>>
    BY <2>1 DEF NativePrint
  <2>3. QED
    BY <2>1, <2>2, NativeKeeps DEF session, TypeOK, PlanOk
<1>11. CASE Restart
  <2>1. UNCHANGED archive /\ plan' = NoPlan
    BY <1>11 DEF Restart
  <2>2. QED
    BY <1>11, <2>1, NoPlanFacts, OnlyMore DEF Restart, archive, TypeOK
<1>12. CASE UNCHANGED vars
  <2>1. FactsFollowEvidence' /\ FirstPrintIsEarliest'
    BY <1>12, OnlyMore DEF vars, archive
  <2>2. QED
    BY <1>12, <2>1 DEF vars, archive, session, TypeOK, PlanOk
<1>13. QED
  BY <1>1, <1>2, <1>3, <1>4, <1>5, <1>6, <1>7, <1>8, <1>9, <1>10, <1>11, <1>12
     DEF Next
-----------------------------------------------------------------------------
(* Theorems.                                                                *)

\* The invariant holds of every behaviour.
LEMMA Invariant == Spec => []IInv
  BY InitInductive, NextInductive, PTL DEF Spec

\* The state of the migration keeps its types.
THEOREM TypeCorrect == Spec => []TypeOK
<1>1. IInv => TypeOK
  BY DEF IInv
<1>2. QED
  BY Invariant, <1>1, PTL

\* Every legacy row is in the archive exactly once, where it was resolved.
THEOREM FactsAlwaysFollow == Spec => []FactsFollowEvidence
<1>1. IInv => FactsFollowEvidence
  BY DEF IInv, Parts
<1>2. QED
  BY Invariant, <1>1, PTL

\* Number 1 is the earliest print of its voucher, merged or not.
THEOREM FirstAlwaysEarliest == Spec => []FirstPrintIsEarliest
<1>1. IInv => FirstPrintIsEarliest
  BY DEF IInv, Parts
<1>2. QED
  BY Invariant, <1>1, PTL

\* A materialised row is a resolved one.
LEMMA DoneIsResolved ==
  ASSUME IInv, NEW r \in Row
  PROVE  evidence[r].done => Resolved(r)
  BY DEF IInv, Parts, FactsFollowEvidence

\* A step forgets no evidence, and moves it only from a placeholder to a
\* voucher with its code.
LEMMA StepMonotone ==
  ASSUME IInv, [Next]_vars, NEW r \in Row
  PROVE  /\ evidence[r].status # "none" => evidence'[r].status # "none"
         /\ evidence[r].done => evidence'[r].done
         /\ Resolved(r) =>
              /\ evidence'[r].status = "RESOLVED"
              /\ \/ evidence'[r].voucher = evidence[r].voucher
                 \/ /\ evidence[r].voucher \in Placeholder
                    /\ evidence'[r].voucher \notin Placeholder
                    /\ Clear(evidence'[r].voucher) = Clear(evidence[r].voucher)
<1>1. CASE Apply /\ Applicable
  <2>1. ApplyEvidence
    BY <1>1 DEF Apply
  <2>2. CASE Resolved(r)
    <3>1. /\ evidence'[r].status = "RESOLVED"
          /\ evidence'[r].done = evidence[r].done
          /\ evidence'[r].voucher = Moved(evidence[r].voucher)
      BY <1>1, <2>1, <2>2, AppliedRow
    <3>2. Moved(evidence[r].voucher) # evidence[r].voucher =>
            <<evidence[r].voucher, Moved(evidence[r].voucher)>> \in Moves
      BY <1>1, MovedFacts DEF IInv
    <3>3. Moved(evidence[r].voucher) # evidence[r].voucher =>
            /\ evidence[r].voucher \in Placeholder
            /\ Moved(evidence[r].voucher) \notin Placeholder
            /\ Clear(Moved(evidence[r].voucher)) = Clear(evidence[r].voucher)
      BY <1>1, <3>2, MovesFacts DEF IInv
    <3>4. QED
      BY <2>2, <3>1, <3>3
  <2>3. CASE ~Resolved(r)
    <3>1. evidence[r].done = FALSE
      BY <2>3, DoneIsResolved
    <3>2. evidence[r].status # "none" => evidence'[r].status # "none"
      <4>1. CASE plan[r].status = "none"
        BY <2>1, <4>1 DEF ApplyEvidence, IInv, TypeOK
      <4>2. CASE plan[r].status # "none"
        BY <2>1, <2>3, <4>2 DEF ApplyEvidence
      <4>3. QED
        BY <4>1, <4>2
    <3>3. QED
      BY <2>3, <3>1, <3>2
  <2>4. QED
    BY <2>2, <2>3
<1>2. CASE Materialise
  BY <1>2, DoneIsResolved DEF Materialise, Materialised, IInv, TypeOK, Resolved
<1>3. CASE UNCHANGED evidence
  BY <1>3 DEF Resolved
<1>4. QED
  BY <1>1, <1>2, <1>3
     DEF Next, Connect, Refresh, OfferReconciliation, MigrateFromMaintenance,
         PlanLive, Compare, Confirm, Decline, SafetyBackup, Fail, Apply,
         ImportZip, RepairMinimised, EnsureCandidates, NativePrint, Restart,
         archive, vars

\* Evidence is never lost, and moves only to the voucher it always named.
THEOREM EvidenceOnlyGrows == Spec => EvidenceMonotone
<1>1. IInv /\ [Next]_vars =>
        [\A r \in Row :
           /\ evidence[r].status # "none" => evidence'[r].status # "none"
           /\ evidence[r].done => evidence'[r].done
           /\ Resolved(r) =>
                /\ evidence'[r].status = "RESOLVED"
                /\ \/ evidence'[r].voucher = evidence[r].voucher
                   \/ /\ evidence[r].voucher \in Placeholder
                      /\ evidence'[r].voucher \notin Placeholder
                      /\ Clear(evidence'[r].voucher) = Clear(evidence[r].voucher)]_vars
  BY StepMonotone
<1>2. QED
  BY Invariant, <1>1, PTL DEF Spec, EvidenceMonotone

\* A step neither removes a minimised row nor brings its code back in clear.
LEMMA StepMinimised ==
  ASSUME IInv, [Next]_vars
  PROVE  /\ retained \subseteq vouchers'
         /\ \A v \in (vouchers' \ vouchers) \cap Placeholder :
              \A w \in retained, r \in Row :
                Resolved(r) /\ evidence[r].voucher = w => CodeOf[r] # Clear(v)
<1>1. CASE Apply /\ Applicable
  <2>1. ApplyEvidence
    BY <1>1 DEF Apply
  <2>2. vouchers' \subseteq vouchers
    BY <2>1 DEF ApplyEvidence
  <2>3. QED
    BY <1>1, <2>1, <2>2, ApplyType
<1>2. CASE \E S \in SUBSET Code : Refresh(S) \/ \E c \in Controller : Connect(c, S)
  <2>1. PICK c \in Controller, S \in SUBSET Code : vouchers' = vouchers \cup Live(c, S)
    BY <1>2 DEF Refresh, Connect, IInv, TypeOK
  <2>2. Live(c, S) \cap Placeholder = {}
    BY LegacyAssumption DEF Live, Placeholder
  <2>3. QED
    BY <2>1, <2>2 DEF IInv, TypeOK
<1>3. CASE EnsureCandidates
  <2>1. ASSUME NEW v \in vouchers' \ vouchers, NEW w \in retained, NEW r \in Row,
               Resolved(r), evidence[r].voucher = w, CodeOf[r] = Clear(v)
        PROVE  FALSE
    <3>1. PICK code \in RecoveredCodes(source) : v \in Chosen(source, code)
      BY <1>3, <2>1 DEF EnsureCandidates
    <3>2. /\ \A u \in MinimisedOf(code) : u \in vouchers
          /\ \A u \in Selected(code) : u \in vouchers
      BY DEF MinimisedOf, Selected, RowsOf, Visible, IInv, TypeOK
    <3>3. MinimisedOf(code) = {} /\ v = <<source, code>>
      BY <2>1, <3>1, <3>2 DEF Chosen
    <3>4. Clear(v) = code
      BY <3>3 DEF Clear
    <3>5. w \in MinimisedOf(code)
      BY <2>1, <3>4 DEF MinimisedOf
    <3>6. QED
      BY <3>3, <3>5
  <2>2. vouchers \subseteq vouchers'
    BY <1>3 DEF EnsureCandidates
  <2>3. QED
    BY <2>1, <2>2 DEF IInv, TypeOK
<1>4. CASE UNCHANGED vouchers
  BY <1>4 DEF IInv, TypeOK
<1>5. QED
  BY <1>1, <1>2, <1>3, <1>4
     DEF Next, OfferReconciliation, MigrateFromMaintenance, PlanLive, Compare,
         Confirm, Decline, SafetyBackup, Fail, Apply, Materialise, ImportZip,
         RepairMinimised, NativePrint, Restart, archive, vars

\* No import brings a minimised code back in clear.
THEOREM MinimisedForEver == Spec => MinimisedStays
<1>1. IInv /\ [Next]_vars =>
        [/\ retained \subseteq vouchers'
         /\ \A v \in (vouchers' \ vouchers) \cap Placeholder :
              \A w \in retained, r \in Row :
                Resolved(r) /\ evidence[r].voucher = w => CodeOf[r] # Clear(v)]_vars
  BY StepMinimised
<1>2. QED
  BY Invariant, <1>1, PTL DEF Spec, MinimisedStays

=============================================================================
