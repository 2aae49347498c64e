---------------------------- MODULE EpicRunProofs ----------------------------
(* Proofs about EpicRun, for any table of children, any dependencies, any      *)
(* number of slots and any number of troubles.                                 *)
EXTENDS EpicRun, TLAPS, FiniteSetTheorems

\* A child takes a slot from its dispatch until its end is known; the slots are
\* never exceeded.
Slots ==
    /\ \A c \in Children : c \in active <=> records[c].status \in {"active", "unknown"}
    /\ Cardinality(active) <= MaxActive

\* A child is worked on only in a slot, and has not reported then; what the
\* coordinator knows of its end is what was reported.
Executions ==
    \A c \in Children :
        /\ task[c].alive \in {0, 1}
        /\ task[c].alive = 1 => c \in active /\ task[c].report = NoReport
        /\ records[c].status = "determined" =>
              task[c].report # NoReport /\ records[c].outcome = task[c].report.outcome
        /\ records[c].status # "determined" =>
              records[c].outcome = "none" /\ records[c].acceptance = "none"

\* Only a child that ended with success is judged.
Judgements ==
    \A c \in Children :
        /\ records[c].acceptance # "none" => records[c].acceptance = accepted[c]
        /\ accepted[c] # "none" => records[c].status = "determined" /\ records[c].outcome = "pass"

\* Only accepted children are completed in the table, and in what is written next.
Rows ==
    /\ \A c \in Children : table[c] = "completed" => accepted[c] = "allowed"
    /\ \A w \in Writers : writer[w] # Idle =>
          /\ writer[w].status = "completed" => accepted[writer[w].child] = "allowed"
          /\ \A c \in Children : writer[w].body[c] = "completed" => accepted[c] = "allowed"

IInv == TypeOK /\ Slots /\ Executions /\ Judgements /\ Rows

-----------------------------------------------------------------------------
(* The slots.                                                                  *)

LEMMA FreeSlotsType == ASSUME Cardinality(active) \in Nat PROVE FreeSlots \in Nat
BY EpicAssumption DEF FreeSlots

LEMMA FinitelyManyChildren == IsFiniteSet(Children)
<1>1. DOMAIN Order = 1..Len(Order) /\ Len(Order) \in Nat
    BY EpicAssumption
<1>2. IsFiniteSet(DOMAIN Order)
    BY <1>1, FS_Interval
<1>3. Order \in Surjection(DOMAIN Order, Children)
    BY EpicAssumption DEF Surjection, Children
<1>4. QED
    BY <1>2, <1>3, FS_Surjection

\* The candidates before one that is admitted are fewer than the free slots, and no
\* two have equally many before them.
LEMMA AdmittedFit ==
    ASSUME FreeSlots \in Nat
    PROVE  IsFiniteSet(Admitted) /\ Cardinality(Admitted) <= FreeSlots
<1> DEFINE rank == [i \in Admitted |-> Cardinality(Before(i))]
<1>1. DOMAIN Order = 1..Len(Order) /\ Len(Order) \in Nat
    BY EpicAssumption
<1>2. \A i \in Admitted : i \in 1..Len(Order) /\ Admissible(Order[i]) /\ Cardinality(Before(i)) < FreeSlots
    BY <1>1 DEF Admitted
<1>3. \A i \in Admitted : IsFiniteSet(Before(i)) /\ Cardinality(Before(i)) \in Nat
    <2>1. TAKE i \in Admitted
    <2>2. IsFiniteSet(1..(i - 1))
        BY <1>2, FS_Interval
    <2>3. Before(i) \in SUBSET (1..(i - 1))
        BY DEF Before
    <2>4. QED
        BY <2>2, <2>3, FS_Subset, FS_CardinalityType
<1>4. rank \in [Admitted -> 0..(FreeSlots - 1)]
    BY <1>2, <1>3
<1>5. ASSUME NEW i \in Admitted, NEW j \in Admitted, i < j
      PROVE  Cardinality(Before(i)) < Cardinality(Before(j))
    <2>1. i \notin Before(i) /\ Before(i) \cup {i} \in SUBSET Before(j)
        <3>1. i \in Nat /\ j \in Nat /\ 1 <= i /\ i < j /\ Admissible(Order[i])
            BY <1>1, <1>2, <1>5
        <3>2. i \notin Before(i) /\ i \in Before(j)
            BY <3>1 DEF Before
        <3>3. ASSUME NEW k \in Before(i) PROVE k \in Before(j)
            BY <3>1 DEF Before
        <3>4. QED
            BY <3>2, <3>3
    <2>2. Cardinality(Before(i) \cup {i}) = Cardinality(Before(i)) + 1
        BY <2>1, <1>3, FS_AddElement
    <2>3. Cardinality(Before(i) \cup {i}) <= Cardinality(Before(j))
        BY <2>1, <1>3, FS_Subset
    <2>4. QED
        BY <2>2, <2>3, <1>3
<1>6. \A i, j \in Admitted : rank[i] = rank[j] => i = j
    BY <1>2, <1>3, <1>5
<1>7. rank \in Injection(Admitted, 0..(FreeSlots - 1))
    BY <1>4, <1>6 DEF Injection, IsInjective
<1>8. IsFiniteSet(0..(FreeSlots - 1)) /\ Cardinality(0..(FreeSlots - 1)) = FreeSlots
    BY FS_Interval
<1>9. QED
    BY <1>7, <1>8, FS_Injection

\* With those that are admitted the slots are not exceeded.
LEMMA AdmissionsFit ==
    ASSUME active \in SUBSET Children, Cardinality(active) <= MaxActive
    PROVE  /\ IsFiniteSet(active \cup Admissions)
           /\ Cardinality(active \cup Admissions) <= MaxActive
           /\ Admissions \in SUBSET Children
           /\ \A c \in Admissions : Admissible(c)
<1> DEFINE row == [i \in Admitted |-> Order[i]]
<1>1. IsFiniteSet(active) /\ Cardinality(active) \in Nat
    BY FinitelyManyChildren, FS_Subset, FS_CardinalityType
<1>2. IsFiniteSet(Admitted) /\ Cardinality(Admitted) <= FreeSlots /\ FreeSlots \in Nat
    BY <1>1, FreeSlotsType, AdmittedFit
<1>3. row \in Surjection(Admitted, Admissions)
    BY DEF Surjection, Admissions
<1>4. IsFiniteSet(Admissions) /\ Cardinality(Admissions) <= Cardinality(Admitted)
    BY <1>2, <1>3, FS_Surjection
<1>5. /\ IsFiniteSet(active \cup Admissions)
      /\ Cardinality(active \cup Admissions) <= Cardinality(active) + Cardinality(Admissions)
    <2> DEFINE both == active \cap Admissions
    <2>1. both \in SUBSET active
        OBVIOUS
    <2>2. IsFiniteSet(both)
        BY <1>1, <2>1, FS_Subset
    <2>3. Cardinality(both) \in Nat /\ Cardinality(Admissions) \in Nat
        BY <2>2, <1>4, FS_CardinalityType
    <2>4. /\ IsFiniteSet(active \cup Admissions)
          /\ Cardinality(active \cup Admissions)
                = Cardinality(active) + Cardinality(Admissions) - Cardinality(both)
        BY <1>1, <1>4, FS_Union
    <2> HIDE DEF both
    <2>5. QED
        BY <1>1, <2>3, <2>4
<1>6. Cardinality(Admissions) \in Nat /\ Cardinality(Admitted) \in Nat
      /\ Cardinality(active \cup Admissions) \in Nat
    BY <1>2, <1>4, <1>5, FS_CardinalityType
<1>7. Cardinality(active \cup Admissions) <= MaxActive
    BY <1>1, <1>2, <1>4, <1>5, <1>6, EpicAssumption DEF FreeSlots
<1>8. QED
    BY <1>5, <1>7 DEF Admissions, Admitted, Children

-----------------------------------------------------------------------------
(* The steps.                                                                  *)

\* What becomes known of a child whose execution has ended.
LEMMA EndedType ==
    ASSUME TypeOK, NEW c \in Children
    PROVE  /\ Ended(c) \in Records
           /\ Ended(c).status \in {"pending", "determined"}
           /\ Ended(c).status = "determined" <=> task[c].report # NoReport
           /\ Ended(c).status = "determined" =>
                 Ended(c).outcome = task[c].report.outcome /\ Ended(c).acceptance = accepted[c]
           /\ Ended(c).status # "determined" =>
                 Ended(c).outcome = "none" /\ Ended(c).acceptance = "none"
BY DEF TypeOK, Ended, Records, Reports, NoReport, Unseen, Verdicts

LEMMA UnseenType ==
    /\ Unseen \in Records /\ [Unseen EXCEPT !.status = "active"] \in Records
    /\ [Unseen EXCEPT !.status = "unknown"] \in Records
    /\ Unseen.outcome = "none" /\ Unseen.acceptance = "none" /\ Unseen.status = "pending"
BY DEF Unseen, Records, Verdicts

\* A record that is changed in one field is a record.
LEMMA RecordChanges ==
    ASSUME NEW r \in Records, NEW verdict \in Verdicts
    PROVE  /\ [r EXCEPT !.status = "unknown"] \in Records
           /\ [r EXCEPT !.repair = "mended"] \in Records
           /\ [r EXCEPT !.repair = "ready"] \in Records
           /\ [r EXCEPT !.acceptance = verdict] \in Records
           /\ [r EXCEPT !.sound = TRUE, !.acceptance = verdict] \in Records
BY DEF Records

LEMMA TroubleType ==
    ASSUME TypeOK, Trouble \/ UNCHANGED troubles
    PROVE  troubles' \in 0..MaxTroubles
BY EpicAssumption DEF TypeOK, Trouble

LEMMA DispatchStep ==
    ASSUME IInv, Dispatch
    PROVE  IInv'
<1> USE DEF IInv, TypeOK, Dispatch
<1>1. TypeOK'
    <2>1. active' \in SUBSET Children
        BY AdmissionsFit DEF Slots
    <2>2. records' \in [Children -> Records]
        BY UnseenType
    <2>3. task' \in [Children -> [alive : Nat, report : Reports \cup {NoReport}]]
        OBVIOUS
    <2>4. QED
        BY <2>1, <2>2, <2>3
<1>2. Slots'
    <2>1. /\ active' = active \cup Admissions /\ Cardinality(active') <= MaxActive
          /\ Admissions \in SUBSET Children
        BY AdmissionsFit DEF Slots
    <2>2. ASSUME NEW c \in Children
          PROVE  c \in active' <=> records'[c].status \in {"active", "unknown"}
        <3>1. CASE c \in Admissions
            BY <2>1, <3>1 DEF Unseen
        <3>2. CASE c \notin Admissions
            BY <2>1, <3>2 DEF Slots
        <3>3. QED
            BY <3>1, <3>2
    <2>3. QED
        BY <2>1, <2>2 DEF Slots
<1>3. Executions'
    <2>1. \A c \in Admissions : c \in Children /\ c \notin active
        BY AdmissionsFit DEF Slots, Admissible
    <2>2. ASSUME NEW c \in Admissions
          PROVE  task'[c] = [alive |-> 1, report |-> NoReport]
        BY <2>1, <2>2 DEF Executions
    <2>3. \A c \in Admissions : records'[c].status = "active" /\ records'[c].outcome = "none"
                                /\ records'[c].acceptance = "none"
        BY <2>1 DEF Unseen
    <2>4. \A c \in Children \ Admissions : task'[c] = task[c] /\ records'[c] = records[c]
        OBVIOUS
    <2>5. QED
        BY <2>1, <2>2, <2>3, <2>4 DEF Executions
<1>4. Judgements'
    <2>1. ASSUME NEW c \in Admissions
          PROVE  accepted[c] = "none" /\ records'[c].acceptance = "none"
        <3>1. c \in Children /\ Admissible(c)
            BY AdmissionsFit DEF Slots
        <3>2. records'[c].acceptance = "none"
            BY <3>1 DEF Unseen
        <3>3. QED
            BY <3>1, <3>2 DEF Admissible, Judgements
    <2>2. \A c \in Children \ Admissions : records'[c] = records[c]
        OBVIOUS
    <2>3. QED
        BY <2>1, <2>2 DEF Judgements
<1>5. Rows'
    BY DEF Rows, Judgements, Updates, Idle
<1>6. QED
    BY <1>1, <1>2, <1>3, <1>4, <1>5

LEMMA ReflectStep ==
    ASSUME IInv, Reflect
    PROVE  IInv'
<1> USE DEF IInv, TypeOK, Reflect
<1>1. TypeOK'
    BY EndedType
<1>2. Slots'
    BY DEF Slots
<1>3. Executions'
    BY DEF Executions, Slots, Records, Reports, NoReport
<1>4. Judgements'
    BY DEF Judgements, Executions, Verdicts, Records
<1>5. Rows'
    BY DEF Rows, Judgements, Updates, Idle
<1>6. QED
    BY <1>1, <1>2, <1>3, <1>4, <1>5

LEMMA EndMergeStep ==
    ASSUME IInv, EndMerge
    PROVE  IInv'
<1> USE DEF IInv, TypeOK, EndMerge
<1>1. TypeOK'
    BY EndedType
<1>2. Slots'
    BY DEF Slots
<1>3. Executions'
    BY DEF Executions, Slots, Records, Reports, NoReport
<1>4. Judgements'
    BY DEF Judgements, Executions, Verdicts, Records
<1>5. Rows'
    BY DEF Rows, Judgements, Updates, Idle
<1>6. QED
    BY <1>1, <1>2, <1>3, <1>4, <1>5

LEMMA CollectStep ==
    ASSUME IInv, NEW c \in Children, Collect(c)
    PROVE  IInv'
<1> USE DEF IInv, TypeOK, Collect
<1>1. TypeOK'
    BY EndedType
<1> records' = [records EXCEPT ![c] = Ended(c)] /\ active' = active \ {c}
    OBVIOUS
<1> Ended(c).status \notin {"active", "unknown"}
    BY EndedType
<1>2. Slots'
    <2>1. \A x \in Children : x \in active' <=> records'[x].status \in {"active", "unknown"}
        BY DEF Slots
    <2>2. Cardinality(active') <= Cardinality(active)
        BY FinitelyManyChildren, FS_Subset, FS_RemoveElement, FS_CardinalityType
    <2>3. Cardinality(active') \in Nat /\ Cardinality(active) \in Nat
        BY <1>1, FinitelyManyChildren, FS_Subset, FS_CardinalityType
    <2>4. QED
        BY <2>1, <2>2, <2>3, EpicAssumption DEF Slots
<1>3. Executions'
    <2>1. task[c].alive = 0
        BY DEF Executions
    <2>2. QED
        BY <2>1, EndedType DEF Executions
<1>4. Judgements'
    <2>1. accepted[c] = "none"
        BY DEF Judgements
    <2>2. records'[c] = Ended(c) /\ \A x \in Children \ {c} : records'[x] = records[x]
        OBVIOUS
    <2>3. QED
        BY <2>1, <2>2, EndedType DEF Judgements
<1>5. Rows'
    BY DEF Rows, Judgements, Updates, Idle
<1>6. QED
    BY <1>1, <1>2, <1>3, <1>4, <1>5

LEMMA LoseSightStep ==
    ASSUME IInv, NEW c \in Children, LoseSight(c)
    PROVE  IInv'
<1> USE DEF IInv, TypeOK, LoseSight
<1>1. TypeOK'
    <2>1. records' \in [Children -> Records]
        <3>1. records[c] \in Records
            OBVIOUS
        <3>2. [records[c] EXCEPT !.status = "unknown"] \in Records
            BY <3>1, RecordChanges DEF Verdicts
        <3>3. QED
            BY <3>2
    <2>2. QED
        BY <2>1, TroubleType
<1>2. Slots'
    BY DEF Slots
<1>3. Executions'
    BY DEF Executions, Slots, Records, Reports, NoReport
<1>4. Judgements'
    BY DEF Judgements, Executions, Verdicts, Records
<1>5. Rows'
    BY DEF Rows, Judgements, Updates, Idle
<1>6. QED
    BY <1>1, <1>2, <1>3, <1>4, <1>5

LEMMA ConfirmEndStep ==
    ASSUME IInv, NEW c \in Children, ConfirmEnd(c)
    PROVE  IInv'
<1> USE DEF IInv, TypeOK, ConfirmEnd, HasEnded
<1>1. TypeOK'
    BY EndedType
<1> records' = [records EXCEPT ![c] = Ended(c)] /\ active' = active \ {c}
    OBVIOUS
<1> Ended(c).status \notin {"active", "unknown"}
    BY EndedType
<1>2. Slots'
    <2>1. \A x \in Children : x \in active' <=> records'[x].status \in {"active", "unknown"}
        BY DEF Slots
    <2>2. Cardinality(active') <= Cardinality(active)
        BY FinitelyManyChildren, FS_Subset, FS_RemoveElement, FS_CardinalityType
    <2>3. Cardinality(active') \in Nat /\ Cardinality(active) \in Nat
        BY <1>1, FinitelyManyChildren, FS_Subset, FS_CardinalityType
    <2>4. QED
        BY <2>1, <2>2, <2>3, EpicAssumption DEF Slots
<1>3. Executions'
    <2>1. task[c].alive = 0
        BY DEF Executions
    <2>2. QED
        BY <2>1, EndedType DEF Executions
<1>4. Judgements'
    <2>1. accepted[c] = "none"
        BY DEF Judgements
    <2>2. records'[c] = Ended(c) /\ \A x \in Children \ {c} : records'[x] = records[x]
        OBVIOUS
    <2>3. QED
        BY <2>1, <2>2, EndedType DEF Judgements
<1>5. Rows'
    BY DEF Rows, Judgements, Updates, Idle
<1>6. QED
    BY <1>1, <1>2, <1>3, <1>4, <1>5

LEMMA RepairStep ==
    ASSUME IInv, NEW c \in Children, Repair(c)
    PROVE  IInv'
<1> USE DEF IInv, TypeOK, Repair
<1>1. TypeOK'
    <2>1. records' \in [Children -> Records]
        <3>1. records[c] \in Records
            OBVIOUS
        <3>2. /\ [records[c] EXCEPT !.repair = "mended"] \in Records
              /\ [records[c] EXCEPT !.repair = "ready"] \in Records
            BY <3>1, RecordChanges DEF Verdicts
        <3>3. QED
            BY <3>2
    <2>2. QED
        BY <2>1
<1> DEFINE same(x) == /\ records'[x].status = records[x].status
                       /\ records'[x].outcome = records[x].outcome
                       /\ records'[x].acceptance = records[x].acceptance
<1>a. \A x \in Children : same(x)
    <2>1. records[c] \in Records
        OBVIOUS
    <2>2. \A x \in Children \ {c} : records'[x] = records[x]
        OBVIOUS
    <2>3. same(c)
        BY <2>1 DEF Records
    <2>4. QED
        BY <2>2, <2>3
<1> HIDE DEF Repair
<1>b. UNCHANGED <<task, accepted, active, table, writer>>
    BY DEF Repair
<1>2. Slots'
    BY <1>a, <1>b DEF Slots
<1>3. Executions'
    BY <1>a, <1>b DEF Executions
<1>4. Judgements'
    BY <1>a, <1>b DEF Judgements
<1>5. Rows'
    BY <1>b DEF Rows
<1>6. QED
    BY <1>1, <1>2, <1>3, <1>4, <1>5

LEMMA ReworkStep ==
    ASSUME IInv, NEW c \in Children, Rework(c)
    PROVE  IInv'
<1> USE DEF IInv, TypeOK, Rework
<1>1. TypeOK'
    <2>1. accepted' \in [Children -> Verdicts]
        BY DEF Verdicts
    <2>2. records' \in [Children -> Records]
        <3>1. records[c] \in Records /\ accepted'[c] \in Verdicts
            BY <2>1
        <3>2. [records[c] EXCEPT !.sound = TRUE, !.acceptance = accepted'[c]] \in Records
            BY <3>1, RecordChanges
        <3>3. QED
            BY <3>2
    <2>3. task' \in [Children -> [alive : Nat, report : Reports \cup {NoReport}]]
        <3>1. task[c].report \in Reports /\ task[c].report.outcome = "pass"
            BY DEF Executions
        <3>2. [task[c].report EXCEPT !.sound = TRUE] \in Reports
            BY <3>1, EpicAssumption DEF Reports
        <3>3. QED
            BY <3>2
    <2>4. QED
        BY <2>1, <2>2, <2>3
<1>2. Slots'
    BY DEF Slots
<1>3. Executions'
    BY DEF Executions, Slots, Records, Reports, NoReport
<1>4. Judgements'
    BY DEF Judgements, Executions, Verdicts, Records
<1>5. Rows'
    BY DEF Rows, Judgements, Updates, Idle
<1>6. QED
    BY <1>1, <1>2, <1>3, <1>4, <1>5

LEMMA WorksStep ==
    ASSUME IInv, NEW c \in Children, Works(c)
    PROVE  IInv'
<1> USE DEF IInv, TypeOK, Works
<1>a. PICK report \in Reports \cup {NoReport} :
          task' = [task EXCEPT ![c] = [alive |-> @.alive - 1, report |-> report]]
    BY DEF Reports
<1>b. Trouble \/ UNCHANGED troubles
    OBVIOUS
<1> UNCHANGED <<accepted, records, active, reflected, inFlight, table, writer, judged, epic, confirmed>>
    OBVIOUS
<1>c. task[c].alive = 1
    BY DEF Executions
<1>d. /\ task'[c] = [alive |-> 0, report |-> report]
      /\ \A x \in Children \ {c} : task'[x] = task[x]
      /\ task' \in [Children -> [alive : Nat, report : Reports \cup {NoReport}]]
    BY <1>a, <1>c
<1> HIDE DEF Works
<1>1. TypeOK'
    BY <1>b, <1>d, TroubleType
<1>2. Slots'
    BY DEF Slots
<1>3. Executions'
    <2>1. c \in active /\ records[c].status # "determined"
        BY <1>c DEF Executions, Slots
    <2>2. QED
        BY <1>d, <2>1 DEF Executions
<1>4. Judgements'
    BY DEF Judgements
<1>5. Rows'
    BY DEF Rows, Judgements, Updates, Idle
<1>6. QED
    BY <1>1, <1>2, <1>3, <1>4, <1>5

LEMMA JudgeStep ==
    ASSUME IInv, NEW c \in Children, Judge(c)
    PROVE  IInv'
<1> USE DEF IInv, TypeOK, Judge
<1>1. TypeOK'
    <2>1. PICK verdict \in {"allowed", "denied"} :
              /\ IF verdict = "allowed" THEN UNCHANGED troubles ELSE Trouble
              /\ accepted' = [accepted EXCEPT ![c] = verdict]
              /\ records' = [records EXCEPT ![c].acceptance = verdict]
        OBVIOUS
    <2>2. accepted' \in [Children -> Verdicts] /\ verdict \in Verdicts
        BY <2>1 DEF Verdicts
    <2>3. records[c] \in Records
        OBVIOUS
    <2>4. [records[c] EXCEPT !.acceptance = verdict] \in Records
        BY <2>2, <2>3, RecordChanges
    <2>5. records' \in [Children -> Records]
        BY <2>1, <2>4
    <2>6. QED
        BY <2>1, <2>2, <2>5, TroubleType
<1>2. Slots'
    BY DEF Slots
<1>3. Executions'
    BY DEF Executions, Slots, Records, Reports, NoReport
<1>4. Judgements'
    BY DEF Judgements, Executions, Verdicts, Records
<1>5. Rows'
    BY DEF Rows, Judgements, Updates, Idle
<1>6. QED
    BY <1>1, <1>2, <1>3, <1>4, <1>5

LEMMA JudgeEpicStep ==
    ASSUME IInv, JudgeEpic
    PROVE  IInv'
<1> USE DEF IInv, TypeOK, JudgeEpic
<1>1. TypeOK'
    BY TroubleType DEF Verdicts
<1>2. Slots'
    BY DEF Slots
<1>3. Executions'
    BY DEF Executions, Slots, Records, Reports, NoReport
<1>4. Judgements'
    BY DEF Judgements, Executions, Verdicts, Records
<1>5. Rows'
    BY DEF Rows, Judgements, Updates, Idle
<1>6. QED
    BY <1>1, <1>2, <1>3, <1>4, <1>5

LEMMA CloseEpicStep ==
    ASSUME IInv, CloseEpic
    PROVE  IInv'
<1> USE DEF IInv, TypeOK, CloseEpic
<1>1. TypeOK'
    BY EndedType
<1>2. Slots'
    BY DEF Slots
<1>3. Executions'
    BY DEF Executions, Slots, Records, Reports, NoReport
<1>4. Judgements'
    BY DEF Judgements, Executions, Verdicts, Records
<1>5. Rows'
    BY DEF Rows, Judgements, Updates, Idle
<1>6. QED
    BY <1>1, <1>2, <1>3, <1>4, <1>5

LEMMA ChangeContractStep ==
    ASSUME IInv, ChangeContract
    PROVE  IInv'
<1> USE DEF IInv, TypeOK, ChangeContract
<1>1. TypeOK'
    BY TroubleType
<1>2. Slots'
    BY DEF Slots
<1>3. Executions'
    BY DEF Executions, Slots, Records, Reports, NoReport
<1>4. Judgements'
    BY DEF Judgements, Executions, Verdicts, Records
<1>5. Rows'
    BY DEF Rows, Judgements, Updates, Idle
<1>6. QED
    BY <1>1, <1>2, <1>3, <1>4, <1>5

LEMMA BeginMergeStep ==
    ASSUME IInv, BeginMerge
    PROVE  IInv'
<1> USE DEF IInv, TypeOK, BeginMerge
<1>1. TypeOK'
    BY TroubleType
<1>2. Slots'
    BY DEF Slots
<1>3. Executions'
    BY DEF Executions, Slots, Records, Reports, NoReport
<1>4. Judgements'
    BY DEF Judgements, Executions, Verdicts, Records
<1>5. Rows'
    BY DEF Rows, Judgements, Updates, Idle
<1>6. QED
    BY <1>1, <1>2, <1>3, <1>4, <1>5

\* What a writer has to write is a status of the table, and completed only if the
\* child was accepted.
LEMMA DueType ==
    ASSUME IInv, NEW w \in Writers, NEW c \in Children, NEW status \in Due(w, c)
    PROVE  /\ status \in Statuses
           /\ status = "completed" => accepted[c] = "allowed"
<1>1. RowStatus(records[c].outcome) \in {"failed", "blocked"}
    BY DEF RowStatus
<1>2. status \in {"completed", "pending", "failed", "blocked"}
    BY <1>1 DEF Due
<1>3. ASSUME status = "completed" PROVE accepted[c] = "allowed"
    <2>1. CanComplete(records[c])
        BY <1>1, <1>3 DEF Due
    <2>2. QED
        BY <2>1 DEF CanComplete, IInv, Judgements
<1>4. QED
    BY <1>2, <1>3 DEF Statuses

LEMMA FetchStep ==
    ASSUME IInv, NEW w \in Writers, Fetch(w)
    PROVE  IInv'
<1> DEFINE body(c, status) == IF status = "pending" THEN ResetToPending(table, c)
                                                    ELSE ApplyClosing(table, c, status)
<1>1. PICK c \in Children : \E status \in Due(w, c) :
          writer' = [writer EXCEPT ![w] =
              [at |-> "read", child |-> c, status |-> status, body |-> body(c, status)]]
    BY DEF Fetch
<1>2. PICK status \in Due(w, c) :
          writer' = [writer EXCEPT ![w] =
              [at |-> "read", child |-> c, status |-> status, body |-> body(c, status)]]
    BY <1>1
<1>3. status \in Statuses /\ (status = "completed" => accepted[c] = "allowed")
    BY DueType
<1>4. table \in [Children -> Statuses] /\ writer \in [Writers -> Updates \cup {Idle}]
    BY DEF IInv, TypeOK
<1>5. body(c, status) \in [Children -> Statuses]
    BY <1>3, <1>4 DEF ResetToPending, ApplyClosing, Statuses
<1>6. \A x \in Children : body(c, status)[x] = "completed" => accepted[x] = "allowed"
    BY <1>3, <1>4 DEF ResetToPending, ApplyClosing, IInv, Rows
<1> HIDE DEF body
<1>7. [at |-> "read", child |-> c, status |-> status, body |-> body(c, status)] \in Updates
    BY <1>3, <1>5 DEF Updates
<1>8. writer' \in [Writers -> Updates \cup {Idle}]
    BY <1>2, <1>4, <1>7
<1>9. UNCHANGED <<task, accepted, records, active, reflected, inFlight, table, judged, epic, troubles, confirmed>>
    BY DEF Fetch
<1>10. TypeOK'
    BY <1>8, <1>9 DEF IInv, TypeOK
<1>11. Rows'
    BY <1>2, <1>3, <1>4, <1>6, <1>9 DEF IInv, Rows
<1>12. QED
    BY <1>9, <1>10, <1>11 DEF IInv, Slots, Executions, Judgements

LEMMA SendStep ==
    ASSUME IInv, NEW w \in Writers, Send(w)
    PROVE  IInv'
<1>1. UNCHANGED <<task, accepted, records, active, reflected, inFlight, judged, epic, confirmed>>
    BY DEF Send
<1>2. writer[w] \in Updates /\ writer[w] # Idle
    BY DEF Send, IInv, TypeOK, Updates, Idle
<1>3. /\ writer'[w] \in Updates /\ writer'[w].status = writer[w].status
      /\ writer'[w].child = writer[w].child /\ writer'[w].body = writer[w].body
      /\ \A v \in Writers \ {w} : writer'[v] = writer[v]
      /\ writer' \in [Writers -> Updates \cup {Idle}]
    BY <1>2 DEF Send, IInv, TypeOK, Updates
<1>4. table' = writer[w].body \/ UNCHANGED table
    BY DEF Send
<1>5. TypeOK'
    <2>1. table' \in [Children -> Statuses]
        BY <1>2, <1>4 DEF IInv, TypeOK, Updates
    <2>2. troubles' \in 0..MaxTroubles
        BY TroubleType DEF Send, IInv
    <2>3. QED
        BY <1>1, <1>3, <2>1, <2>2 DEF IInv, TypeOK
<1>6. Rows'
    BY <1>1, <1>2, <1>3, <1>4 DEF IInv, Rows
<1>7. QED
    BY <1>1, <1>5, <1>6 DEF IInv, Slots, Executions, Judgements

LEMMA VerifyStep ==
    ASSUME IInv, NEW w \in Writers, Verify(w)
    PROVE  IInv'
<1>1. UNCHANGED <<task, accepted, records, active, reflected, inFlight, table, judged, epic, troubles>>
    BY DEF Verify
<1>2. writer' = [writer EXCEPT ![w] = Idle]
    BY DEF Verify
<1>3. confirmed' \in SUBSET Children
    <2>1. writer[w] \in Updates
        BY DEF Verify, IInv, TypeOK, Updates, Idle
    <2>2. writer[w].child \in Children
        BY <2>1 DEF Updates
    <2>3. QED
        BY <2>2 DEF Verify, IInv, TypeOK
<1>4. TypeOK'
    BY <1>1, <1>2, <1>3 DEF IInv, TypeOK
<1>5. Rows'
    BY <1>1, <1>2 DEF IInv, TypeOK, Rows
<1>6. QED
    BY <1>1, <1>4, <1>5 DEF IInv, Slots, Executions, Judgements

LEMMA RestartStep ==
    ASSUME IInv, Restart
    PROVE  IInv'
<1> DEFINE lost(c) == records[c].status \in {"active", "unknown"} /\ task[c].report = NoReport
<1>1. records' = [c \in Children |-> IF lost(c) THEN [Unseen EXCEPT !.status = "unknown"] ELSE Ended(c)]
    BY DEF Restart
<1>2. active' = {c \in Children : records'[c].status = "unknown"}
    BY DEF Restart, Counted
<1>3. /\ UNCHANGED <<task, accepted, reflected, inFlight, table, judged, epic, confirmed>> /\ Trouble
      /\ writer' = [w \in Writers |-> Idle]
    BY DEF Restart
<1>4. TypeOK /\ Slots /\ Executions /\ Judgements /\ Rows
    BY DEF IInv
<1>5. ASSUME NEW c \in Children
      PROVE  /\ records'[c] \in Records
             /\ lost(c) => /\ records'[c].status = "unknown" /\ records'[c].outcome = "none"
                           /\ records'[c].acceptance = "none"
             /\ ~ lost(c) => records'[c] = Ended(c)
    BY <1>1, <1>4, EndedType, UnseenType DEF Unseen
<1> HIDE DEF lost
<1>6. \A c \in Children : c \in active' <=> lost(c)
    BY <1>2, <1>4, <1>5, EndedType
<1>7. TypeOK'
    <2>1. records' \in [Children -> Records]
        BY <1>1, <1>5
    <2>2. troubles' \in 0..MaxTroubles
        BY <1>3, <1>4, TroubleType
    <2>3. writer' \in [Writers -> Updates \cup {Idle}]
        BY <1>3
    <2>4. active' \in SUBSET Children
        BY <1>2
    <2>5. QED
        BY <1>3, <1>4, <2>1, <2>2, <2>3, <2>4 DEF TypeOK
<1>8. Slots'
    <2>1. \A c \in Children : c \in active' <=> records'[c].status \in {"active", "unknown"}
        BY <1>4, <1>5, <1>6, EndedType
    <2>2. active' \in SUBSET active
        BY <1>2, <1>4, <1>6 DEF lost, Slots
    <2>3. active \in SUBSET Children
        BY <1>4 DEF TypeOK
    <2>4. IsFiniteSet(active) /\ Cardinality(active) \in Nat
        BY <2>3, FinitelyManyChildren, FS_Subset, FS_CardinalityType
    <2>5. Cardinality(active') <= Cardinality(active) /\ Cardinality(active') \in Nat
        BY <2>2, <2>4, FS_Subset, FS_CardinalityType
    <2>6. QED
        BY <1>4, <2>1, <2>4, <2>5, EpicAssumption DEF Slots
<1>9. Executions'
    <2>1. \A c \in Children : task[c].alive = 1 => lost(c)
        BY <1>4 DEF Executions, Slots, lost
    <2>2. \A c \in Children : lost(c) => task[c].report = NoReport
        BY DEF lost
    <2>3. QED
        BY <1>3, <1>4, <1>5, <1>6, <2>1, <2>2, EndedType DEF Executions
<1>10. Judgements'
    <2>1. \A c \in Children :
              accepted[c] # "none" => ~ lost(c) /\ task[c].report # NoReport /\ task[c].report.outcome = "pass"
        BY <1>4 DEF Judgements, Executions, lost
    <2>2. QED
        BY <1>3, <1>4, <1>5, <2>1, EndedType DEF Judgements
<1>11. Rows'
    BY <1>3, <1>4 DEF Rows
<1>12. QED
    BY <1>7, <1>8, <1>9, <1>10, <1>11 DEF IInv

-----------------------------------------------------------------------------
(* The theorems.                                                               *)

LEMMA IInvInit == Init => IInv
<1>1. SUFFICES ASSUME Init PROVE IInv
    OBVIOUS
<1>2. TypeOK
    <2>1. /\ task \in [Children -> [alive : Nat, report : Reports \cup {NoReport}]]
          /\ records \in [Children -> Records]
        BY <1>1, UnseenType DEF Init
    <2>2. /\ accepted \in [Children -> Verdicts] /\ table \in [Children -> Statuses]
          /\ writer \in [Writers -> Updates \cup {Idle}]
        BY <1>1 DEF Init, Verdicts, Statuses
    <2>3. /\ active \in SUBSET Children /\ judged \in Verdicts /\ epic \in {"open", "closed"}
          /\ confirmed \in SUBSET Children
        BY <1>1 DEF Init, Verdicts
    <2>4. reflected \in BOOLEAN /\ inFlight \in BOOLEAN
        BY <1>1 DEF Init
    <2>5. troubles \in 0..MaxTroubles
        BY <1>1, EpicAssumption DEF Init
    <2>6. QED
        BY <2>1, <2>2, <2>3, <2>4, <2>5 DEF TypeOK
<1>3. Slots
    BY <1>1, EpicAssumption, FS_EmptySet DEF Init, Slots, Unseen
<1>4. Executions /\ Judgements /\ Rows
    BY <1>1 DEF Init, Executions, Judgements, Rows, Unseen
<1>5. QED
    BY <1>2, <1>3, <1>4 DEF IInv

LEMMA IInvNext == IInv /\ [Next]_vars => IInv'
<1>1. SUFFICES ASSUME IInv, [Next]_vars PROVE IInv'
    OBVIOUS
<1>2. CASE CoordinatorStep
    BY <1>1, <1>2, DispatchStep, ReflectStep, EndMergeStep, CollectStep, LoseSightStep, ConfirmEndStep, RepairStep,
       ReworkStep DEF CoordinatorStep
<1>3. CASE \E c \in Children : Works(c)
    BY <1>1, <1>3, WorksStep
<1>4. CASE CloseStep
    BY <1>1, <1>4, JudgeStep, JudgeEpicStep, CloseEpicStep DEF CloseStep
<1>5. CASE WriteStep
    BY <1>1, <1>5, FetchStep, SendStep, VerifyStep DEF WriteStep
<1>6. CASE ChangeContract \/ BeginMerge \/ Restart
    BY <1>1, <1>6, ChangeContractStep, BeginMergeStep, RestartStep
<1>7. CASE UNCHANGED vars
    BY <1>1, <1>7 DEF vars, IInv, TypeOK, Slots, Executions, Judgements, Rows
<1>8. QED
    BY <1>1, <1>2, <1>3, <1>4, <1>5, <1>6, <1>7 DEF Next, Work

LEMMA IInvAlways == Spec => []IInv
BY IInvInit, IInvNext, PTL DEF Spec

\* Every variable has its type, for any Epic.
THEOREM TypeCorrect == Spec => []TypeOK
<1>1. IInv => TypeOK
    BY DEF IInv
<1>2. QED
    BY <1>1, IInvAlways, PTL

\* No child is worked on twice at a time: a slot is given back only when the end of
\* the execution is known, also after a restart of the coordinator.
THEOREM OneExecutionAlways == Spec => []OneExecution
<1>1. IInv => OneExecution
    BY DEF IInv, Executions, OneExecution
<1>2. QED
    BY <1>1, IInvAlways, PTL

\* A row says completed only for a child that was accepted and is not worked on.
THEOREM CompletedIsAcceptedAlways == Spec => []CompletedIsAccepted
<1>1. IInv => CompletedIsAccepted
    <2>1. SUFFICES ASSUME IInv, NEW c \in Children, table[c] = "completed"
                   PROVE  accepted[c] = "allowed" /\ task[c].alive = 0
        BY DEF CompletedIsAccepted
    <2>2. accepted[c] = "allowed"
        BY <2>1 DEF IInv, Rows
    <2>3. task[c].report # NoReport
        BY <2>1, <2>2 DEF IInv, Judgements, Executions
    <2>4. QED
        BY <2>1, <2>2, <2>3 DEF IInv, Executions
<1>2. QED
    BY <1>1, IInvAlways, PTL

-----------------------------------------------------------------------------
(* The refinement.                                                             *)

PhaseOf(c) == IF task[c].alive > 0 THEN "running" ELSE IF accepted[c] = "allowed" THEN "accepted" ELSE "open"

Phases == [c \in Children |-> PhaseOf(c)]

\* An accepted child is not worked on, and one that is worked on is not judged.
LEMMA PhaseFacts ==
    ASSUME IInv, NEW c \in Children
    PROVE  /\ task[c].alive > 0 <=> task[c].alive = 1
           /\ task[c].alive = 1 => accepted[c] = "none" /\ c \in active
           /\ accepted[c] = "allowed" => task[c].alive = 0
           /\ records[c].status = "determined" => task[c].alive = 0
           /\ CanComplete(records[c]) => accepted[c] = "allowed"
<1>1. task[c].alive \in {0, 1}
    BY DEF IInv, Executions
<1>2. task[c].alive = 1 => task[c].report = NoReport /\ c \in active
    BY DEF IInv, Executions
<1>3. records[c].status = "determined" => task[c].report # NoReport
    BY DEF IInv, Executions
<1>4. accepted[c] # "none" => records[c].status = "determined"
    BY DEF IInv, Judgements
<1>5. CanComplete(records[c]) => accepted[c] = "allowed"
    BY DEF CanComplete, IInv, Judgements
<1>6. QED
    BY <1>1, <1>2, <1>3, <1>4, <1>5

\* The contract counts as the run does.
LEMMA SameCardinality == ASSUME NEW S PROVE Contract!Cardinality(S) = Cardinality(S)
    BY DEF Contract!Cardinality, Cardinality

LEMMA DispatchStarts ==
    ASSUME IInv, IInv', Dispatch
    PROVE  Contract!Start
<1> DEFINE S == Admissions
<1>1. S \in (SUBSET Children) \ {{}} /\ \A c \in S : Admissible(c)
    BY AdmissionsFit DEF Dispatch, IInv, TypeOK, Slots
<1>2. ASSUME NEW c \in S
      PROVE  /\ PhaseOf(c) = "open"
             /\ \A p \in DependsOn[c] : PhaseOf(p) = "accepted"
    <2>1. c \in Children /\ c \notin active /\ DependsOn[c] \in SUBSET Children
        BY <1>1, EpicAssumption DEF Admissible
    <2>2. task[c].alive = 0
        BY <2>1, PhaseFacts DEF IInv, Executions
    <2>3. accepted[c] # "allowed"
        BY <1>1, <2>1 DEF Admissible, IInv, Judgements
    <2>4. \A p \in DependsOn[c] : CanComplete(records[p])
        BY <1>1 DEF Admissible
    <2>5. QED
        BY <2>1, <2>2, <2>3, <2>4, PhaseFacts DEF PhaseOf
<1>3. ASSUME NEW c \in Children
      PROVE  PhaseOf(c)' = IF c \in S THEN "running" ELSE PhaseOf(c)
    <2>1. c \in S => task'[c].alive = task[c].alive + 1
        BY <1>1 DEF Dispatch
    <2>2. c \notin S => task'[c] = task[c]
        BY DEF Dispatch
    <2>3. accepted' = accepted
        BY DEF Dispatch
    <2>4. task[c].alive \in {0, 1}
        BY DEF IInv, Executions
    <2>5. QED
        BY <2>1, <2>2, <2>3, <2>4 DEF PhaseOf
<1>4. Cardinality({c \in Children : PhaseOf(c) = "running"} \cup S) <= MaxActive
    <2> DEFINE R == {c \in Children : PhaseOf(c) = "running"} \cup S
    <2>1. R \in SUBSET (active \cup Admissions)
        BY PhaseFacts DEF PhaseOf
    <2>2. IsFiniteSet(active \cup Admissions) /\ Cardinality(active \cup Admissions) <= MaxActive
        BY AdmissionsFit DEF IInv, TypeOK, Slots
    <2>3. Cardinality(R) <= Cardinality(active \cup Admissions)
          /\ Cardinality(R) \in Nat /\ Cardinality(active \cup Admissions) \in Nat
        BY <2>1, <2>2, FS_Subset, FS_CardinalityType
    <2> HIDE DEF R
    <2>4. Cardinality(R) <= MaxActive
        BY <2>2, <2>3, EpicAssumption
    <2>5. QED
        BY <2>4 DEF R
<1>5. epic' = epic
    BY DEF Dispatch
<1> HIDE DEF S
<1>6. Phases' = [c \in Children |-> IF c \in S THEN "running" ELSE Phases[c]]
    BY <1>3 DEF Phases
<1>7. {c \in Children : Phases[c] = "running"} = {c \in Children : PhaseOf(c) = "running"}
    BY DEF Phases
<1>8. \A c \in S : Phases[c] = "open" /\ \A p \in DependsOn[c] : Phases[p] = "accepted"
    <2>1. \A c \in S : DependsOn[c] \in SUBSET Children
        BY <1>1, EpicAssumption
    <2>2. QED
        BY <1>1, <1>2, <2>1 DEF Phases
<1>9. Contract!Running = {c \in Children : Phases[c] = "running"}
    BY DEF Contract!Running, Phases, PhaseOf
<1>10. Contract!With(S, "running") = [c \in Children |-> IF c \in S THEN "running" ELSE Phases[c]]
    BY DEF Contract!With, Phases, PhaseOf
<1>11. Phases' = Contract!With(S, "running")
    BY <1>6, <1>10
<1>12. Contract!Cardinality(Contract!Running \cup S) <= MaxActive
    BY <1>4, <1>7, <1>9, SameCardinality
<1>13. QED
    BY <1>1, <1>5, <1>8, <1>11, <1>12 DEF Contract!Start, Phases, PhaseOf

LEMMA WorksEnds ==
    ASSUME IInv, IInv', NEW c \in Children, Works(c)
    PROVE  Contract!End
<1>1. task[c].alive = 1 /\ accepted[c] = "none"
    BY PhaseFacts DEF Works
<1>2. PICK report \in Reports \cup {NoReport} :
          task' = [task EXCEPT ![c] = [alive |-> @.alive - 1, report |-> report]]
    BY DEF Works, Reports
<1>3. task'[c].alive = 0 /\ \A x \in Children \ {c} : task'[x] = task[x]
    BY <1>1, <1>2 DEF IInv, TypeOK
<1>4. accepted' = accepted /\ epic' = epic
    BY DEF Works
<1>5. Phases[c] = "running" /\ Phases' = [x \in Children |-> IF x \in {c} THEN "open" ELSE Phases[x]]
    BY <1>1, <1>3, <1>4 DEF Phases, PhaseOf
<1>6. QED
    BY <1>4, <1>5 DEF Contract!End, Contract!Running, Contract!With, Phases, PhaseOf

LEMMA JudgeAccepts ==
    ASSUME IInv, IInv', NEW c \in Children, Judge(c)
    PROVE  Contract!Accept \/ UNCHANGED <<Phases, epic>>
<1>1. PICK verdict \in {"allowed", "denied"} : accepted' = [accepted EXCEPT ![c] = verdict]
    BY DEF Judge
<1>2. task' = task /\ epic' = epic /\ accepted[c] = "none" /\ task[c].alive = 0
    BY PhaseFacts DEF Judge
<1>3. accepted'[c] = verdict /\ \A x \in Children \ {c} : accepted'[x] = accepted[x]
    BY <1>1 DEF IInv, TypeOK
<1>4. CASE verdict = "denied"
    BY <1>2, <1>3, <1>4 DEF Phases, PhaseOf
<1>5. CASE verdict = "allowed"
    <2>1. Phases[c] = "open" /\ Phases' = [x \in Children |-> IF x \in {c} THEN "accepted" ELSE Phases[x]]
        BY <1>2, <1>3, <1>5 DEF Phases, PhaseOf
    <2>2. QED
        BY <1>2, <2>1 DEF Contract!Accept, Contract!With, Phases, PhaseOf
<1>6. QED
    BY <1>1, <1>4, <1>5

LEMMA EpicCloses ==
    ASSUME IInv, CloseEpic
    PROVE  Contract!Close
<1>1. \A c \in Children : accepted[c] = "allowed" /\ task[c].alive = 0
    BY PhaseFacts DEF CloseEpic, CanClose
<1>2. UNCHANGED <<task, accepted>> /\ epic = "open" /\ epic' = "closed"
    BY DEF CloseEpic
<1>3. \A c \in Children : Phases[c] = "accepted"
    BY <1>1 DEF Phases, PhaseOf
<1>4. Phases' = Phases
    BY <1>2 DEF Phases, PhaseOf
<1>5. QED
    BY <1>2, <1>3, <1>4 DEF Contract!Close, Phases, PhaseOf

LEMMA OthersStutter ==
    ASSUME IInv, [Next]_vars, ~ Dispatch, \A c \in Children : ~ Works(c) /\ ~ Judge(c), ~ CloseEpic
    PROVE  UNCHANGED <<Phases, epic>>
<1>1. CASE \E c \in Children : Rework(c)
    <2>1. PICK c \in Children : Rework(c)
        BY <1>1
    <2>2. \A x \in Children : task'[x].alive = task[x].alive /\ (accepted'[x] = "allowed" <=> accepted[x] = "allowed")
        BY <2>1 DEF Rework, IInv, TypeOK
    <2>3. epic' = epic
        BY <2>1 DEF Rework
    <2>4. QED
        BY <2>2, <2>3 DEF Phases, PhaseOf
<1>2. CASE ~ \E c \in Children : Rework(c)
    <2>1. UNCHANGED <<task, accepted, epic>>
        BY <1>2 DEF Next, Work, CoordinatorStep, CloseStep, WriteStep, Reflect, Collect, LoseSight, ConfirmEnd,
           Repair, JudgeEpic, Fetch, Send, Verify, ChangeContract, BeginMerge, EndMerge, Restart, vars
    <2>2. QED
        BY <2>1 DEF Phases, PhaseOf
<1>3. QED
    BY <1>1, <1>2

\* The orchestration keeps its contract: every step starts children whose providers
\* are accepted, within the slots, ends or accepts one, closes the Epic when all are
\* accepted, or changes nothing the contract speaks of.
THEOREM ContractKept == Spec => KeepsContract
<1>1. Init => Contract!Init
    BY EpicAssumption DEF Init, Contract!Init, Verdicts
<1>2. ASSUME IInv, IInv', [Next]_vars
      PROVE  Contract!Next \/ UNCHANGED <<Phases, epic>>
    BY <1>2, DispatchStarts, WorksEnds, JudgeAccepts, EpicCloses, OthersStutter DEF Contract!Next
<1>3. IInv /\ IInv' /\ [Next]_vars => [Contract!Next]_(Contract!vars)
    BY <1>2 DEF Contract!vars, Phases, PhaseOf
<1>4. QED
    BY <1>1, <1>3, IInvAlways, PTL DEF Spec, KeepsContract, Contract!Spec
=============================================================================
