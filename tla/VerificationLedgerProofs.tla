---------------------- MODULE VerificationLedgerProofs ----------------------
(* Proofs about VerificationLedger, for any resources and number of crashes.   *)
EXTENDS VerificationLedger, TLAPS, SequenceTheorems

\* The contents a ledger has: an entry's id is its place.
Ledgers == {entries \in Seq(Entries) : \A i \in DOMAIN entries : entries[i].id = i}

PlannedWrites == [fact : Facts, id : Nat \ {0}, about : Resources, content : Ledgers]
PlannedDeletions == [fact : {"reclaimed"}, id : {0}, about : Ledgers, content : {Missing}]

Writes(p) == plan[p] \in PlannedWrites
Deletes(p) == plan[p] \in PlannedDeletions

\* Every content that is written, planned, reviewed or deleted is one of them.
Numbered ==
    /\ ledger \in Ledgers \cup {Missing, Damaged}
    /\ review \in Ledgers \cup {Missing}
    /\ \A p \in Processes :
          /\ Writes(p) \/ Deletes(p) \/ plan[p] = None
          /\ step[p] = "idle" <=> plan[p] = None
          /\ step[p] = "writing" => Writes(p)

NumInv == TypeOK /\ Numbered

\* What an entry of the old content says is said by an entry of the new one.
Extends(old, new) ==
    \A e \in EntriesOf(old) : \E f \in EntriesOf(new) :
        /\ f.id = e.id /\ f.resource = e.resource
        /\ e.confirmed => f.confirmed
        /\ e.collected => f.collected

Current == IF ledger = Missing THEN <<>> ELSE ledger

\* What process p is about to report.
FactOf(p) == [fact |-> plan[p].fact, id |-> plan[p].id, resource |-> plan[p].about]

\* How the file and the plan of a process that is alone relate.
Alone(p) ==
    /\ step[p] = "planned" => ledger # Damaged
    /\ step[p] = "planned" /\ Writes(p) => Extends(Current, plan[p].content)
    /\ step[p] = "planned" /\ Deletes(p) => ledger = plan[p].about
    /\ step[p] = "writing" => ledger = Damaged
    /\ step[p] = "reporting" /\ Writes(p) => ledger = plan[p].content
    /\ step[p] = "reporting" /\ Deletes(p) => ledger = Missing
    /\ Writes(p) => \E e \in EntriesOf(plan[p].content) : Stands(FactOf(p), e)

\* As long as no ledger was deleted since, a review is of entries the ledger still
\* has, with the same resources.
ReviewCurrent ==
    review # Missing /\ ~ outdated =>
        /\ ledger # Missing
        /\ Present => Extends(review, ledger)
        /\ \A p \in Processes : Writes(p) => Extends(review, plan[p].content)

IInv ==
    /\ NumInv
    /\ \A p \in Processes : Alone(p)
    /\ ReportsKept
    /\ ReviewCurrent

-----------------------------------------------------------------------------
(* Ledgers and what operations make of them.                                   *)

\* An entry is found at the place its id names.
LEMMA AtItsPlace ==
    ASSUME NEW entries \in Ledgers, NEW e \in EntriesOf(entries)
    PROVE  /\ e \in Entries
           /\ e.id \in 1..Len(entries)
           /\ e = entries[e.id]
<1>1. PICK i \in DOMAIN entries : e = entries[i]
    BY DEF EntriesOf
<1>2. entries \in Seq(Entries) /\ DOMAIN entries = 1..Len(entries)
    BY DEF Ledgers
<1>3. entries[i].id = i
    BY DEF Ledgers
<1>4. QED
    BY <1>1, <1>2, <1>3

\* In a ledger no number is left out, so the next one is the number of entries
\* plus one.
LEMMA NextIsFree ==
    ASSUME NEW entries \in Ledgers
    PROVE  NextId(entries) = Len(entries) + 1
<1> DEFINE n == Len(entries) + 1
<1> DEFINE Free(m) ==
        /\ \A e \in EntriesOf(entries) : e.id # m
        /\ \A k \in (Len(entries) + 1)..(m - 1) : \E e \in EntriesOf(entries) : e.id = k
<1>1. Len(entries) \in Nat
    BY DEF Ledgers
<1>2. \A e \in EntriesOf(entries) : e.id \in 1..Len(entries)
    BY AtItsPlace
<1>3. n \in (Len(entries) + 1)..(2 * Len(entries) + 1) /\ Free(n)
    BY <1>1, <1>2
<1>4. ASSUME NEW m \in (Len(entries) + 1)..(2 * Len(entries) + 1), Free(m)
      PROVE  m = n
    BY <1>1, <1>2, <1>4
<1> HIDE DEF n, Free
<1>5. n = CHOOSE m \in (Len(entries) + 1)..(2 * Len(entries) + 1) : Free(m)
    BY <1>3, <1>4
<1>6. QED
    BY <1>5 DEF NextId, n, Free

\* A registration appends an entry and keeps the others.
LEMMA Appended ==
    ASSUME NEW entries \in Ledgers, NEW r \in Resources,
           NEW entry \in Entries,
           entry.id = NextId(entries), entry.resource = r
    PROVE  /\ Append(entries, entry) \in Ledgers
           /\ Extends(entries, Append(entries, entry))
           /\ entry \in EntriesOf(Append(entries, entry))
<1> DEFINE new == Append(entries, entry)
<1>1. entries \in Seq(Entries) /\ Len(entries) \in Nat /\ DOMAIN entries = 1..Len(entries)
    BY DEF Ledgers
<1>2. /\ new \in Seq(Entries)
      /\ Len(new) = Len(entries) + 1
      /\ \A i \in 1..Len(entries) : new[i] = entries[i]
      /\ new[Len(entries) + 1] = entry
    BY <1>1, AppendProperties
<1>3. DOMAIN new = 1..(Len(entries) + 1)
    BY <1>2
<1>4. entry.id = Len(entries) + 1
    BY NextIsFree
<1> HIDE DEF new
<1>5. \A i \in 1..Len(entries) : entries[i].id = i
    BY <1>1 DEF Ledgers
<1>6. new \in Ledgers
    <2>1. \A i \in DOMAIN new : new[i].id = i
        BY <1>1, <1>2, <1>3, <1>4, <1>5
    <2>2. QED
        BY <2>1, <1>2 DEF Ledgers
<1>7. EntriesOf(entries) \subseteq EntriesOf(new)
    BY <1>1, <1>2, <1>3 DEF EntriesOf
<1>8. entry \in EntriesOf(new)
    BY <1>1, <1>2, <1>3 DEF EntriesOf
<1>9. Extends(entries, new)
    BY <1>7 DEF Extends
<1>10. QED
    BY <1>6, <1>8, <1>9 DEF new

\* A fact recorded of an entry replaces the entry and keeps the others.
LEMMA Replaced ==
    ASSUME NEW entries \in Ledgers, NEW e \in EntriesOf(entries), NEW f \in Entries,
           f.id = e.id, f.resource = e.resource,
           e.confirmed => f.confirmed, e.collected => f.collected
    PROVE  /\ WithEntry(entries, e.id, f) \in Ledgers
           /\ Extends(entries, WithEntry(entries, e.id, f))
           /\ f \in EntriesOf(WithEntry(entries, e.id, f))
<1> DEFINE new == WithEntry(entries, e.id, f)
<1>1. entries \in Seq(Entries) /\ Len(entries) \in Nat /\ DOMAIN entries = 1..Len(entries)
    BY DEF Ledgers
<1>2. /\ DOMAIN new = 1..Len(entries)
      /\ \A i \in 1..Len(entries) : new[i] = IF entries[i].id = e.id THEN f ELSE entries[i]
    BY <1>1 DEF WithEntry
<1>3. \A i \in 1..Len(entries) : entries[i].id = i /\ entries[i] \in Entries
    BY <1>1 DEF Ledgers
<1>4. e.id \in 1..Len(entries) /\ e = entries[e.id]
    BY AtItsPlace
<1>5. new = [i \in 1..Len(entries) |-> new[i]]
    BY <1>1 DEF WithEntry
<1> HIDE DEF new
<1>6. \A i \in 1..Len(entries) : new[i] \in Entries /\ new[i].id = i
    BY <1>2, <1>3
<1>7. new \in Seq(Entries)
    BY <1>1, <1>5, <1>6
<1>8. new \in Ledgers
    BY <1>2, <1>6, <1>7 DEF Ledgers
<1>9. f \in EntriesOf(new)
    BY <1>2, <1>3, <1>4 DEF EntriesOf
<1>10. Extends(entries, new)
    <2>1. SUFFICES ASSUME NEW d \in EntriesOf(entries)
                   PROVE  \E g \in EntriesOf(new) :
                            /\ g.id = d.id /\ g.resource = d.resource
                            /\ d.confirmed => g.confirmed
                            /\ d.collected => g.collected
        BY DEF Extends
    <2>2. d.id \in 1..Len(entries) /\ d = entries[d.id]
        BY AtItsPlace
    <2>3. CASE d.id = e.id
        <3>1. d = e
            BY <1>4, <2>2, <2>3
        <3>2. QED
            BY <3>1, <1>9
    <2>4. CASE d.id # e.id
        <3>1. new[d.id] = d
            BY <1>2, <1>3, <2>2, <2>4
        <3>2. d \in EntriesOf(new)
            BY <3>1, <1>2, <2>2 DEF EntriesOf
        <3>3. QED
            BY <3>2
    <2>5. QED
        BY <2>3, <2>4
<1>11. QED
    BY <1>8, <1>9, <1>10 DEF new

\* A content extends itself.
LEMMA ExtendsItself ==
    ASSUME NEW entries PROVE Extends(entries, entries)
    BY DEF Extends

\* What extends an extension extends the content it extends.
LEMMA ExtendsOn ==
    ASSUME NEW a, NEW b, NEW c, Extends(a, b), Extends(b, c)
    PROVE  Extends(a, c)
<1>1. SUFFICES ASSUME NEW e \in EntriesOf(a)
               PROVE  \E g \in EntriesOf(c) :
                        /\ g.id = e.id /\ g.resource = e.resource
                        /\ e.confirmed => g.confirmed
                        /\ e.collected => g.collected
    BY DEF Extends
<1>2. PICK f \in EntriesOf(b) : /\ f.id = e.id /\ f.resource = e.resource
                                /\ e.confirmed => f.confirmed
                                /\ e.collected => f.collected
    BY DEF Extends
<1>3. PICK g \in EntriesOf(c) : /\ g.id = f.id /\ g.resource = f.resource
                                /\ f.confirmed => g.confirmed
                                /\ f.collected => g.collected
    BY DEF Extends
<1>4. QED
    BY <1>2, <1>3

\* A fact that stands in a content stands in what extends it.
LEMMA StandsOn ==
    ASSUME NEW a, NEW b, Extends(a, b), NEW fact,
           NEW e \in EntriesOf(a), Stands(fact, e)
    PROVE  \E f \in EntriesOf(b) : Stands(fact, f)
<1>1. PICK f \in EntriesOf(b) : /\ f.id = e.id /\ f.resource = e.resource
                                /\ e.confirmed => f.confirmed
                                /\ e.collected => f.collected
    BY DEF Extends
<1>2. Stands(fact, f)
    BY <1>1 DEF Stands
<1>3. QED
    BY <1>2

-----------------------------------------------------------------------------
(* Types and numbers, for any number of processes.                             *)

\* No file, a damaged file and no plan are told apart from contents and plans.
LEMMA Distinct ==
    /\ Missing # Damaged
    /\ Missing \notin Ledgers
    /\ Damaged \notin Ledgers
    /\ None \notin PlannedWrites
    /\ None \notin PlannedDeletions
<1>1. Ledgers \subseteq Seq(Entries)
    BY DEF Ledgers
<1>2. /\ PlannedWrites \subseteq Planned
      /\ PlannedDeletions \subseteq Planned
    BY <1>1 DEF PlannedWrites, PlannedDeletions, Planned
<1>3. QED
    BY <1>1, <1>2, LedgerAssumption DEF LedgerAssumption

\* What a plan holds, by its kind.
LEMMA PlanParts ==
    ASSUME NEW p \in Processes
    PROVE  /\ Writes(p) => /\ plan[p].content \in Ledgers
                           /\ plan[p].fact \in Facts
                           /\ plan[p].id \in Nat \ {0}
                           /\ plan[p].about \in Resources
                           /\ plan[p].content # Missing
                           /\ p \notin Reclaiming
                           /\ plan[p] # None
           /\ Deletes(p) => /\ plan[p].content = Missing
                            /\ plan[p].about \in Ledgers
                            /\ p \in Reclaiming
                            /\ plan[p] # None
           /\ plan[p] = None => p \notin Reclaiming
<1>1. ASSUME Writes(p)
      PROVE  /\ plan[p].content \in Ledgers /\ plan[p].fact \in Facts
             /\ plan[p].id \in Nat \ {0} /\ plan[p].about \in Resources
    BY <1>1 DEF Writes, PlannedWrites
<1>2. Writes(p) => plan[p].content # Missing /\ plan[p] # None
    BY <1>1, Distinct DEF Writes
<1>3. Writes(p) => p \notin Reclaiming
    BY <1>1 DEF Facts, Reclaiming
<1>4. ASSUME Deletes(p)
      PROVE  plan[p].content = Missing /\ plan[p].about \in Ledgers /\ plan[p].fact = "reclaimed"
    BY <1>4 DEF Deletes, PlannedDeletions
<1>5. Deletes(p) => plan[p] # None
    BY Distinct DEF Deletes
<1>6. Deletes(p) => p \in Reclaiming
    BY <1>4, <1>5 DEF Reclaiming
<1>7. QED
    BY <1>1, <1>2, <1>3, <1>4, <1>5, <1>6 DEF Reclaiming

\* Initially there is no file, no review and no plan.
LEMMA NumInit == Init => NumInv
<1>1. SUFFICES ASSUME Init PROVE NumInv
    OBVIOUS
<1>2. TypeOK
    <2>1. crashes \in 0..MaxCrashes
        BY <1>1, LedgerAssumption DEF Init, LedgerAssumption
    <2>2. /\ step \in [Processes -> {"idle", "planned", "writing", "reporting"}]
          /\ plan \in [Processes -> Planned \cup {None}]
        BY <1>1 DEF Init
    <2>3. told = {} /\ final = {} /\ unrecorded \in BOOLEAN /\ outdated \in BOOLEAN
        BY <1>1 DEF Init
    <2>4. QED
        BY <1>1, <2>1, <2>2, <2>3 DEF Init, TypeOK
<1>3. Numbered
    BY <1>1, Distinct DEF Init, Numbered, Writes, Deletes
<1>4. QED
    BY <1>2, <1>3 DEF NumInv

\* A process that is idle plans a write or a deletion.
LEMMA NumPlans ==
    ASSUME NumInv, NEW p \in Processes,
           NEW fact, NEW id, NEW about, NEW content,
           [fact |-> fact, id |-> id, about |-> about, content |-> content]
               \in PlannedWrites \cup PlannedDeletions,
           Plans(p, fact, id, about, content),
           review' \in Ledgers \cup {Missing}
    PROVE  NumInv'
<1> DEFINE new == [fact |-> fact, id |-> id, about |-> about, content |-> content]
<1>1. new \in PlannedWrites \cup PlannedDeletions
    OBVIOUS
<1>2. /\ step[p] = "idle"
      /\ step' = [step EXCEPT ![p] = "planned"]
      /\ plan' = [plan EXCEPT ![p] = new]
      /\ UNCHANGED <<ledger, told, final, crashes, unrecorded, outdated>>
    BY DEF Plans
<1> HIDE DEF new
<1>3. Ledgers \subseteq Seq(Entries)
    BY DEF Ledgers
<1>4. new \in Planned /\ new # None
    BY <1>1, <1>3, Distinct DEF PlannedWrites, PlannedDeletions, Planned
<1>5. TypeOK'
    BY <1>2, <1>3, <1>4 DEF NumInv, TypeOK
<1>6. ASSUME NEW q \in Processes
      PROVE  /\ (Writes(q) \/ Deletes(q) \/ plan[q] = None)'
             /\ (step[q] = "idle" <=> plan[q] = None)'
             /\ (step[q] = "writing" => Writes(q))'
    <2>1. CASE q = p
        <3>1. plan'[q] = new /\ step'[q] = "planned"
            BY <2>1, <1>2 DEF NumInv, TypeOK
        <3>2. QED
            BY <3>1, <1>1, <1>4 DEF Writes, Deletes
    <2>2. CASE q # p
        <3>1. plan'[q] = plan[q] /\ step'[q] = step[q]
            BY <2>2, <1>2 DEF NumInv, TypeOK
        <3>2. QED
            BY <3>1 DEF NumInv, Numbered, Writes, Deletes
    <2>3. QED
        BY <2>1, <2>2
<1>7. Numbered'
    BY <1>2, <1>6 DEF NumInv, Numbered
<1>8. QED
    BY <1>5, <1>7 DEF NumInv

\* A process goes on to its next step and keeps its plan.
LEMMA NumGoesOn ==
    ASSUME NumInv, NEW p \in Processes, NEW next \in {"writing", "reporting"},
           step[p] # "idle",
           next = "writing" => Writes(p),
           step' = [step EXCEPT ![p] = next],
           ledger' \in Ledgers \cup {Missing, Damaged}, outdated' \in BOOLEAN,
           UNCHANGED <<plan, review, told, final, crashes, unrecorded>>
    PROVE  NumInv'
<1>1. TypeOK'
    BY DEF NumInv, TypeOK, Ledgers
<1>2. ASSUME NEW q \in Processes
      PROVE  /\ (Writes(q) \/ Deletes(q) \/ plan[q] = None)'
             /\ (step[q] = "idle" <=> plan[q] = None)'
             /\ (step[q] = "writing" => Writes(q))'
    <2>1. step'[q] = IF q = p THEN next ELSE step[q]
        BY DEF NumInv, TypeOK
    <2>2. plan'[q] = plan[q]
        OBVIOUS
    <2>3. QED
        BY <2>1, <2>2 DEF NumInv, Numbered, Writes, Deletes
<1>3. Numbered'
    BY <1>2 DEF NumInv, Numbered
<1>4. QED
    BY <1>1, <1>3 DEF NumInv

\* A process ends, with its report or without.
LEMMA NumEnds ==
    ASSUME NumInv, NEW p \in Processes, Ends(p),
           UNCHANGED <<ledger, review>>, TypeOK'
    PROVE  NumInv'
<1>1. ASSUME NEW q \in Processes
      PROVE  /\ (Writes(q) \/ Deletes(q) \/ plan[q] = None)'
             /\ (step[q] = "idle" <=> plan[q] = None)'
             /\ (step[q] = "writing" => Writes(q))'
    <2>1. step'[q] = IF q = p THEN "idle" ELSE step[q]
        BY DEF Ends, NumInv, TypeOK
    <2>2. plan'[q] = IF q = p THEN None ELSE plan[q]
        BY DEF Ends, NumInv, TypeOK
    <2>3. QED
        BY <2>1, <2>2 DEF NumInv, Numbered, Writes, Deletes
<1>2. Numbered'
    BY <1>1 DEF NumInv, Numbered
<1>3. QED
    BY <1>2 DEF NumInv

\* What every operation that records a fact plans: a content that keeps what the
\* file says and adds the fact.
PlansExtension(p) ==
    /\ ledger # Damaged
    /\ UNCHANGED review
    /\ \E fact \in Facts, id \in Nat \ {0}, about \in Resources, content \in Ledgers :
          /\ Plans(p, fact, id, about, content)
          /\ Extends(Current, content)
          /\ \E e \in EntriesOf(content) :
                Stands([fact |-> fact, id |-> id, resource |-> about], e)

\* A registration plans such a content.
LEMMA RegisterExtends ==
    ASSUME NumInv, NEW p \in Processes, Register(p)
    PROVE  PlansExtension(p)
<1>1. PICK read \in Readable, r \in Resources :
          LET entries == IF read = Missing THEN <<>> ELSE read
              entry == [id |-> NextId(entries), resource |-> r,
                        confirmed |-> FALSE, collected |-> FALSE]
          IN  Plans(p, "registered", entry.id, r, Append(entries, entry))
    BY DEF Register
<1> DEFINE entries == IF read = Missing THEN <<>> ELSE read
<1> DEFINE entry == [id |-> NextId(entries), resource |-> r,
                     confirmed |-> FALSE, collected |-> FALSE]
<1> DEFINE content == Append(entries, entry)
<1>2. ledger # Damaged /\ entries = Current
    BY DEF Readable, Current
<1>3. <<>> \in Ledgers
    BY DEF Ledgers
<1>4. entries \in Ledgers
    BY <1>2, <1>3 DEF NumInv, Numbered, Current
<1>5. Plans(p, "registered", entry.id, r, content)
    BY <1>1
<1>6. NextId(entries) \in Nat \ {0}
    <2>1. Len(entries) \in Nat
        BY <1>4 DEF Ledgers
    <2>2. QED
        BY <2>1, <1>4, NextIsFree
<1>7. /\ entry \in Entries
      /\ entry.id = NextId(entries)
      /\ entry.resource = r
      /\ entry.id \in Nat \ {0}
    BY <1>6 DEF Entries
<1> HIDE DEF entry, entries
<1>8. /\ content \in Ledgers
      /\ Extends(entries, content)
      /\ entry \in EntriesOf(content)
    BY <1>4, <1>7, Appended
<1>9. Stands([fact |-> "registered", id |-> entry.id, resource |-> r], entry)
    BY <1>7 DEF Stands
<1>10. UNCHANGED review /\ "registered" \in Facts
    BY DEF Register, Facts
<1> HIDE DEF content
<1>11. QED
    BY <1>2, <1>5, <1>7, <1>8, <1>9, <1>10 DEF PlansExtension

\* The same for a fact about an entry of the ledger.
LEMMA FactExtends ==
    ASSUME NumInv, NEW p \in Processes, Present, NEW e \in EntriesOf(ledger),
           NEW f \in Entries, NEW fact \in {"confirmed", "collected"},
           f.id = e.id, f.resource = e.resource,
           e.confirmed => f.confirmed, e.collected => f.collected,
           fact = "confirmed" => f.confirmed, fact = "collected" => f.collected,
           Plans(p, fact, e.id, e.resource, WithEntry(ledger, e.id, f)),
           UNCHANGED review
    PROVE  PlansExtension(p)
<1>1. ledger \in Ledgers /\ ledger # Damaged /\ Current = ledger
    BY DEF NumInv, Numbered, Present, Current
<1>2. e \in Entries /\ e.id \in Nat \ {0} /\ e.resource \in Resources
    BY <1>1, AtItsPlace DEF Entries
<1>3. /\ WithEntry(ledger, e.id, f) \in Ledgers
      /\ Extends(ledger, WithEntry(ledger, e.id, f))
      /\ f \in EntriesOf(WithEntry(ledger, e.id, f))
    BY <1>1, Replaced
<1>4. Stands([fact |-> fact, id |-> e.id, resource |-> e.resource], f)
    BY DEF Stands
<1>5. fact \in Facts
    BY DEF Facts
<1>6. QED
    BY <1>1, <1>2, <1>3, <1>4, <1>5 DEF PlansExtension

\* A confirmation of a deletion plans such a content.
LEMMA ConfirmExtends ==
    ASSUME NumInv, NEW p \in Processes, Confirm(p)
    PROVE  PlansExtension(p)
<1>1. Present /\ UNCHANGED review
    BY DEF Confirm
<1>2. PICK e \in EntriesOf(ledger) :
          Plans(p, "confirmed", e.id, e.resource,
                WithEntry(ledger, e.id, [e EXCEPT !.confirmed = TRUE]))
    BY DEF Confirm
<1> DEFINE f == [e EXCEPT !.confirmed = TRUE]
<1>3. e \in Entries
    BY <1>1, AtItsPlace DEF NumInv, Numbered, Present
<1>4. /\ f \in Entries /\ f.id = e.id /\ f.resource = e.resource
      /\ f.confirmed /\ f.collected = e.collected
    BY <1>3 DEF Entries
<1> HIDE DEF f
<1>5. QED
    BY <1>1, <1>2, <1>4, FactExtends DEF f

\* So does the record that a resource is collected.
LEMMA CollectsExtends ==
    ASSUME NumInv, NEW p \in Processes, Present, NEW e \in EntriesOf(ledger),
           Collects(p, e), UNCHANGED review
    PROVE  PlansExtension(p)
<1> DEFINE f == [e EXCEPT !.collected = TRUE]
<1>1. Plans(p, "collected", e.id, e.resource, WithEntry(ledger, e.id, f))
    BY DEF Collects
<1>2. e \in Entries
    BY AtItsPlace DEF NumInv, Numbered, Present
<1>3. /\ f \in Entries /\ f.id = e.id /\ f.resource = e.resource
      /\ f.collected /\ f.confirmed = e.confirmed
    BY <1>2 DEF Entries
<1> HIDE DEF f
<1>4. QED
    BY <1>1, <1>3, FactExtends

\* An entry that is collected already is reported again, and nothing is written.
ToldAgain ==
    /\ Present
    /\ \E e \in EntriesOf(ledger) :
          /\ e.collected
          /\ told' = told \cup {[fact |-> "collected", id |-> e.id,
                                resource |-> e.resource]}
    /\ UNCHANGED <<ledger, step, plan, review, final, crashes, unrecorded, outdated>>

\* The alternatives of a step, for the proofs below.
LEMMA Steps ==
    ASSUME NumInv, [Next]_vars
    PROVE  \/ \E p \in Processes :
                 \/ PlansExtension(p) \/ Reclaim(p)
                 \/ Truncate(p) \/ Fill(p) \/ Delete(p) \/ Report(p) \/ Crash(p)
           \/ ToldAgain \/ Review \/ UNCHANGED vars
<1>1. ASSUME NEW p \in Processes, MarkCollected(p)
      PROVE  PlansExtension(p)
    BY <1>1, CollectsExtends DEF MarkCollected
<1>2. ASSUME NEW p \in Processes, RecordCollected(p)
      PROVE  PlansExtension(p) \/ ToldAgain
    BY <1>2, CollectsExtends DEF RecordCollected, ToldAgain
<1>3. QED
    BY <1>1, <1>2, RegisterExtends, ConfirmExtends DEF Next

\* Every step keeps the types and the numbers.
LEMMA NumNext == NumInv /\ [Next]_vars => NumInv'
<1>1. SUFFICES ASSUME NumInv, [Next]_vars PROVE NumInv'
    OBVIOUS
<1>2. /\ ledger \in Ledgers \cup {Missing, Damaged}
      /\ review \in Ledgers \cup {Missing}
      /\ \A p \in Processes :
            /\ Writes(p) \/ Deletes(p) \/ plan[p] = None
            /\ step[p] = "idle" <=> plan[p] = None
            /\ step[p] = "writing" => Writes(p)
    BY <1>1 DEF NumInv, Numbered
<1>3. TypeOK
    BY <1>1 DEF NumInv
<1>4. ASSUME NEW p \in Processes, PlansExtension(p) PROVE NumInv'
    <2>1. PICK fact \in Facts, id \in Nat \ {0}, about \in Resources, content \in Ledgers :
              Plans(p, fact, id, about, content)
        BY <1>4 DEF PlansExtension
    <2>2. [fact |-> fact, id |-> id, about |-> about, content |-> content] \in PlannedWrites
        BY DEF PlannedWrites
    <2>3. review' \in Ledgers \cup {Missing}
        BY <1>2, <1>4 DEF PlansExtension
    <2>4. QED
        BY <1>1, <2>1, <2>2, <2>3, NumPlans
<1>5. ASSUME NEW p \in Processes, Reclaim(p) PROVE NumInv'
    <2>1. Present /\ Plans(p, "reclaimed", 0, ledger, Missing) /\ review' \in Ledgers \cup {Missing}
        BY <1>2, <1>5 DEF Reclaim
    <2>2. ledger \in Ledgers
        BY <1>2, <2>1 DEF Present
    <2>3. [fact |-> "reclaimed", id |-> 0, about |-> ledger, content |-> Missing]
              \in PlannedDeletions
        BY <2>2 DEF PlannedDeletions
    <2>4. QED
        BY <1>1, <2>1, <2>3, NumPlans
<1>6. ASSUME NEW p \in Processes, Truncate(p) PROVE NumInv'
    <2>1. Writes(p)
        BY <1>6, <1>2, PlanParts DEF Truncate
    <2>2. QED
        BY <1>1, <1>3, <1>6, <2>1, NumGoesOn DEF Truncate, TypeOK
<1>7. ASSUME NEW p \in Processes, Fill(p) PROVE NumInv'
    <2>1. plan[p].content \in Ledgers
        BY <1>7, <1>2, PlanParts DEF Fill
    <2>2. ledger' \in Ledgers \cup {Missing, Damaged}
        BY <1>7, <2>1 DEF Fill, Written
    <2>3. QED
        BY <1>1, <1>3, <1>7, <2>2, NumGoesOn DEF Fill, TypeOK
<1>8. ASSUME NEW p \in Processes, Delete(p) PROVE NumInv'
    BY <1>1, <1>8, NumGoesOn DEF Delete
<1>9. ASSUME NEW p \in Processes, Report(p) PROVE NumInv'
    <2>1. Ends(p) /\ UNCHANGED <<ledger, review, crashes, unrecorded, outdated>>
        BY <1>9 DEF Report
    <2>2. /\ step' \in [Processes -> {"idle", "planned", "writing", "reporting"}]
          /\ plan' \in [Processes -> Planned \cup {None}]
        BY <2>1, <1>3 DEF Ends, TypeOK
    <2>3. plan[p] # None
        BY <1>9, <1>2 DEF Report
    <2>4. CASE p \in Reclaiming
        <3>1. plan[p].about \in Ledgers
            BY <2>3, <2>4, <1>2, PlanParts
        <3>2. EntriesOf(plan[p].about) \subseteq Entries
            BY <3>1, AtItsPlace
        <3>3. final' \subseteq Entries /\ told' = told
            BY <1>9, <2>4, <3>2, <1>3 DEF Report, TypeOK
        <3>4. TypeOK'
            BY <2>1, <2>2, <3>3, <1>3 DEF TypeOK
        <3>5. QED
            BY <1>1, <2>1, <3>4, NumEnds
    <2>5. CASE p \notin Reclaiming
        <3>1. /\ plan[p].fact \in Facts
              /\ plan[p].id \in Nat \ {0}
              /\ plan[p].about \in Resources
            BY <2>3, <2>5, <1>2, PlanParts
        <3>2. /\ told' \subseteq [fact : Facts, id : Nat \ {0}, resource : Resources]
              /\ final' = final
            BY <1>9, <2>5, <3>1, <1>3 DEF Report, TypeOK
        <3>3. TypeOK'
            BY <2>1, <2>2, <3>2, <1>3 DEF TypeOK
        <3>4. QED
            BY <1>1, <2>1, <3>3, NumEnds
    <2>6. QED
        BY <2>4, <2>5
<1>10. ASSUME NEW p \in Processes, Crash(p) PROVE NumInv'
    <2>1. Ends(p) /\ UNCHANGED <<ledger, review, told, final, outdated>>
        BY <1>10 DEF Crash
    <2>2. /\ step' \in [Processes -> {"idle", "planned", "writing", "reporting"}]
          /\ plan' \in [Processes -> Planned \cup {None}]
        BY <2>1, <1>3 DEF Ends, TypeOK
    <2>3. crashes' \in 0..MaxCrashes
        BY <1>10, <1>3, LedgerAssumption DEF Crash, TypeOK, LedgerAssumption
    <2>4. unrecorded' \in BOOLEAN
        BY <1>10 DEF Crash
    <2>5. TypeOK'
        BY <2>1, <2>2, <2>3, <2>4, <1>3 DEF TypeOK
    <2>6. QED
        BY <1>1, <2>1, <2>5, NumEnds
<1>11. ASSUME ToldAgain PROVE NumInv'
    <2>1. PICK e \in EntriesOf(ledger) :
              told' = told \cup {[fact |-> "collected", id |-> e.id, resource |-> e.resource]}
        BY <1>11 DEF ToldAgain
    <2>2. e \in Entries
        BY <1>11, <1>2, AtItsPlace DEF ToldAgain, Present
    <2>3. told' \subseteq [fact : Facts, id : Nat \ {0}, resource : Resources]
        BY <2>1, <2>2, <1>3 DEF TypeOK, Entries, Facts
    <2>4. TypeOK'
        BY <1>11, <2>3, <1>3 DEF ToldAgain, TypeOK
    <2>5. Numbered'
        BY <1>11, <1>2 DEF ToldAgain, Numbered, Writes, Deletes
    <2>6. QED
        BY <2>4, <2>5 DEF NumInv
<1>12. ASSUME Review PROVE NumInv'
    <2>1. review' \in Ledgers
        BY <1>12, <1>2 DEF Review, Present
    <2>2. TypeOK'
        BY <1>12, <2>1, <1>3 DEF Review, TypeOK, Ledgers
    <2>3. Numbered'
        BY <1>12, <2>1, <1>2 DEF Review, Numbered, Writes, Deletes
    <2>4. QED
        BY <2>2, <2>3 DEF NumInv
<1>13. ASSUME UNCHANGED vars PROVE NumInv'
    <2>1. TypeOK'
        BY <1>13, <1>3 DEF vars, TypeOK
    <2>2. Numbered'
        BY <1>13, <1>2 DEF vars, Numbered, Writes, Deletes
    <2>3. QED
        BY <2>1, <2>2 DEF NumInv
<1>14. QED
    BY <1>1, <1>4, <1>5, <1>6, <1>7, <1>8, <1>9, <1>10, <1>11, <1>12, <1>13, Steps

\* Every reachable state is well typed, for any number of processes: entries are
\* numbered from one, and only contents of entries are written or reviewed.
THEOREM TypeCorrect == Spec => []TypeOK
<1>1. NumInv => TypeOK
    BY DEF NumInv
<1>2. QED
    BY <1>1, NumInit, NumNext, PTL DEF Spec

-----------------------------------------------------------------------------
(* One operation of the case after another: a single process, any crashes.     *)

OneProcess == \A p, q \in Processes : p = q

\* The places where an entry is recorded, one by one.
Holds(e) ==
    \/ e \in final
    \/ Present /\ e \in EntriesOf(ledger)
    \/ \E p \in Processes : step[p] = "writing" /\ e \in EntriesOf(plan[p].content)
    \/ \E p \in Reclaiming : step[p] = "reporting" /\ e \in EntriesOf(plan[p].about)

\* An entry is recorded exactly when one of these places holds it.
LEMMA RecordedIn ==
    ASSUME NEW e
    PROVE  /\ e \in Recorded <=> Holds(e)
           /\ e \in Recorded' <=> Holds(e)'
<1>1. e \in Recorded <=> Holds(e)
    <2>1. e \in InWriting
          <=> (\E p \in Processes : step[p] = "writing" /\ e \in EntriesOf(plan[p].content))
        BY DEF InWriting
    <2>2. e \in InReport
          <=> (\E p \in Reclaiming : step[p] = "reporting" /\ e \in EntriesOf(plan[p].about))
        BY DEF InReport
    <2>3. e \in InFile <=> (Present /\ e \in EntriesOf(ledger))
        BY DEF InFile
    <2>4. e \in Recorded <=> \/ e \in final \/ e \in InFile
                               \/ e \in InWriting \/ e \in InReport
        BY DEF Recorded
    <2>5. QED
        BY <2>1, <2>2, <2>3, <2>4 DEF Holds
<1>2. e \in Recorded' <=> Holds(e)'
    <2>1. e \in InWriting'
          <=> (\E p \in Processes : step[p] = "writing" /\ e \in EntriesOf(plan[p].content))'
        BY DEF InWriting
    <2>2. e \in InReport'
          <=> (\E p \in Reclaiming : step[p] = "reporting" /\ e \in EntriesOf(plan[p].about))'
        BY DEF InReport
    <2>3. e \in InFile' <=> (Present /\ e \in EntriesOf(ledger))'
        BY DEF InFile
    <2>4. e \in Recorded' <=> \/ e \in final' \/ e \in InFile'
                               \/ e \in InWriting' \/ e \in InReport'
        BY DEF Recorded
    <2>5. QED
        BY <2>1, <2>2, <2>3, <2>4 DEF Holds
<1>3. QED
    BY <1>1, <1>2

\* Initially nothing is recorded, reported or reviewed.
LEMMA AloneInit == Init => IInv
<1>1. SUFFICES ASSUME Init PROVE IInv
    OBVIOUS
<1>2. NumInv
    BY <1>1, NumInit
<1>3. ASSUME NEW p \in Processes PROVE Alone(p)
    <2>1. step[p] = "idle" /\ plan[p] = None
        BY <1>1 DEF Init
    <2>2. ~Writes(p)
        BY <2>1, Distinct DEF Writes
    <2>3. QED
        BY <2>1, <2>2 DEF Alone
<1>4. ReportsKept
    BY <1>1 DEF Init, ReportsKept, FactsStand
<1>5. ReviewCurrent
    BY <1>1 DEF Init, ReviewCurrent
<1>6. QED
    BY <1>2, <1>3, <1>4, <1>5 DEF IInv

\* Facts that stand go on standing when every entry recorded is extended.
LEMMA FactsGoOn ==
    ASSUME FactsStand,
           \A e \in Recorded : \E f \in Recorded' :
               /\ f.id = e.id /\ f.resource = e.resource
               /\ e.confirmed => f.confirmed
               /\ e.collected => f.collected,
           UNCHANGED told
    PROVE  FactsStand'
<1>1. SUFFICES ASSUME NEW fact \in told PROVE \E f \in Recorded' : Stands(fact, f)
    BY DEF FactsStand, Stands
<1>2. PICK e \in Recorded : Stands(fact, e)
    BY DEF FactsStand
<1>3. PICK f \in Recorded' : /\ f.id = e.id /\ f.resource = e.resource
                             /\ e.confirmed => f.confirmed
                             /\ e.collected => f.collected
    OBVIOUS
<1>4. Stands(fact, f)
    BY <1>2, <1>3 DEF Stands
<1>5. QED
    BY <1>4

\* In particular when no recorded entry disappears.
LEMMA FactsStay ==
    ASSUME FactsStand, Recorded \subseteq Recorded', UNCHANGED told
    PROVE  FactsStand'
    BY FactsGoOn

\* The process that is alone keeps its plan from one step to the next.
LEMMA AloneSame ==
    ASSUME OneProcess, NumInv, NumInv', NEW p \in Processes
    PROVE  /\ \A q \in Processes : q = p
           /\ step \in [Processes -> {"idle", "planned", "writing", "reporting"}]
           /\ plan[p] = None \/ Writes(p) \/ Deletes(p)
           /\ step[p] = "idle" <=> plan[p] = None
           /\ step[p] = "writing" => Writes(p)
           /\ ~(Writes(p) /\ Deletes(p))
           /\ Reclaiming = {q \in {p} : Deletes(q)}
<1>1. \A q \in Processes : q = p
    BY DEF OneProcess
<1>2. /\ plan[p] = None \/ Writes(p) \/ Deletes(p)
      /\ step[p] = "idle" <=> plan[p] = None
      /\ step[p] = "writing" => Writes(p)
    BY DEF NumInv, Numbered
<1>3. ~(Writes(p) /\ Deletes(p))
    BY PlanParts
<1>4. p \in Reclaiming <=> Deletes(p)
    BY <1>2, PlanParts
<1>5. Reclaiming = {q \in {p} : Deletes(q)}
    BY <1>1, <1>4 DEF Reclaiming
<1>6. QED
    BY <1>1, <1>2, <1>3, <1>5 DEF NumInv, TypeOK

\* The two kinds of plans, by what they hold.
LEMMA Kinds ==
    ASSUME NEW x
    PROVE  /\ x \in PlannedWrites => /\ x.content \in Ledgers
                                     /\ x.fact # "reclaimed"
                                     /\ x \notin PlannedDeletions
                                     /\ x # None
           /\ x \in PlannedDeletions => /\ x.fact = "reclaimed"
                                        /\ x.about \in Ledgers
                                        /\ x.content = Missing
                                        /\ x # None
<1>1. x \in PlannedWrites => x.content \in Ledgers /\ x.fact # "reclaimed"
    BY DEF PlannedWrites, Facts
<1>2. x \in PlannedDeletions
      => x.fact = "reclaimed" /\ x.about \in Ledgers /\ x.content = Missing
    BY DEF PlannedDeletions
<1>3. QED
    BY <1>1, <1>2, Distinct

\* The strengthening beyond NumInv.
Rest ==
    /\ \A p \in Processes : Alone(p)
    /\ ReportsKept
    /\ ReviewCurrent

\* A planned content keeps what the file says and what was reviewed.
LEMMA RestPlans ==
    ASSUME OneProcess, IInv, NumInv', NEW p \in Processes, PlansExtension(p)
    PROVE  Rest'
<1>1. PICK fact \in Facts, id \in Nat \ {0}, about \in Resources, content \in Ledgers :
          /\ Plans(p, fact, id, about, content)
          /\ Extends(Current, content)
          /\ \E e \in EntriesOf(content) :
                Stands([fact |-> fact, id |-> id, resource |-> about], e)
    BY DEF PlansExtension
<1> DEFINE new == [fact |-> fact, id |-> id, about |-> about, content |-> content]
<1>2. /\ new \in PlannedWrites /\ new \notin PlannedDeletions
      /\ new.fact # "reclaimed" /\ new # None
    <2>1. new \in PlannedWrites
        BY DEF PlannedWrites
    <2>2. QED
        BY <2>1, Kinds
<1>3. /\ step[p] = "idle" /\ step'[p] = "planned"
      /\ plan'[p] = new
      /\ UNCHANGED <<ledger, review, told, final, crashes, unrecorded, outdated>>
    BY <1>1 DEF Plans, PlansExtension, IInv, NumInv, TypeOK
<1>4. \A q \in Processes : q = p
    BY DEF OneProcess
<1>5. /\ new.fact = fact /\ new.id = id
      /\ new.about = about /\ new.content = content
    OBVIOUS
<1> HIDE DEF new
<1>6. /\ Writes(p)' /\ ~Deletes(p)'
      /\ p \notin Reclaiming'
      /\ FactOf(p)' = [fact |-> fact, id |-> id, resource |-> about]
    BY <1>2, <1>3, <1>5 DEF Writes, Deletes, Reclaiming, FactOf
<1>7. ledger # Damaged /\ Current' = Current
    BY <1>3 DEF PlansExtension, Current
<1>8. Alone(p)'
    BY <1>1, <1>3, <1>5, <1>6, <1>7 DEF Alone
<1>9. ReportsKept'
    <2>1. Recorded \subseteq Recorded'
        <3>1. SUFFICES ASSUME NEW e, Holds(e) PROVE Holds(e)'
            BY RecordedIn
        <3>2. e \in final \/ (Present /\ e \in EntriesOf(ledger))
            BY <3>1, <1>3, <1>4 DEF Holds, Reclaiming
        <3>3. QED
            BY <3>2, <1>3 DEF Holds, Present
    <2>2. FactsStand => FactsStand'
        BY <2>1, <1>3, FactsStay
    <2>3. QED
        BY <2>2, <1>3, <1>7 DEF IInv, ReportsKept, Broken
<1>10. ReviewCurrent'
    <2>1. SUFFICES ASSUME review # Missing, ~ outdated
                   PROVE  /\ ledger # Missing
                          /\ Present' => Extends(review, ledger)
                          /\ \A q \in Processes : Writes(q)' => Extends(review, plan'[q].content)
        BY <1>3 DEF ReviewCurrent
    <2>2. ledger # Missing /\ (Present => Extends(review, ledger))
        BY <2>1 DEF IInv, ReviewCurrent
    <2>3. Present /\ Current = ledger
        BY <2>2, <1>7 DEF Present, Current
    <2>4. Extends(review, content)
        BY <2>2, <2>3, <1>1, ExtendsOn
    <2>5. QED
        BY <2>2, <2>3, <2>4, <1>3, <1>4, <1>5
<1>11. QED
    BY <1>4, <1>8, <1>9, <1>10 DEF Rest

\* Nothing changes but the review, which is given for the ledger.
LEMMA RestSame ==
    ASSUME IInv, UNCHANGED <<ledger, step, plan, told, final, crashes, unrecorded>>,
           ReviewCurrent'
    PROVE  Rest'
<1>1. \A p \in Processes : Alone(p)'
    <2>1. SUFFICES ASSUME NEW p \in Processes PROVE Alone(p)'
        OBVIOUS
    <2>2. Alone(p)
        BY DEF IInv
    <2>3. /\ Writes(p)' <=> Writes(p)
          /\ Deletes(p)' <=> Deletes(p)
          /\ FactOf(p)' = FactOf(p)
          /\ Current' = Current
        BY DEF Writes, Deletes, FactOf, Current
    <2>4. QED
        BY <2>2, <2>3 DEF Alone
<1>2. Recorded' = Recorded
    BY DEF Recorded, InFile, InWriting, InReport, Present, Reclaiming
<1>3. ReportsKept'
    BY <1>2 DEF IInv, ReportsKept, FactsStand, Broken
<1>4. QED
    BY <1>1, <1>3 DEF Rest

\* A reclamation plans to delete what the file says now.
LEMMA RestReclaim ==
    ASSUME OneProcess, IInv, NumInv', NEW p \in Processes, Reclaim(p)
    PROVE  Rest'
<1> DEFINE new == [fact |-> "reclaimed", id |-> 0, about |-> ledger, content |-> Missing]
<1>1. Present /\ Plans(p, "reclaimed", 0, ledger, Missing) /\ UNCHANGED review
    BY DEF Reclaim
<1>2. new \in PlannedDeletions /\ new \notin PlannedWrites /\ new.about = ledger
    <2>1. ledger \in Ledgers
        BY <1>1 DEF IInv, NumInv, Numbered, Present
    <2>2. new \in PlannedDeletions
        BY <2>1 DEF PlannedDeletions
    <2>3. QED
        BY <2>2, Kinds
<1>3. /\ step[p] = "idle" /\ step'[p] = "planned"
      /\ plan'[p] = new
      /\ UNCHANGED <<ledger, told, final, crashes, unrecorded, outdated>>
    BY <1>1 DEF Plans, IInv, NumInv, TypeOK
<1>4. \A q \in Processes : q = p
    BY DEF OneProcess
<1> HIDE DEF new
<1>5. Deletes(p)' /\ ~Writes(p)'
    BY <1>2, <1>3 DEF Deletes, Writes
<1>6. ledger # Damaged
    BY <1>1 DEF Present
<1>7. Alone(p)'
    BY <1>2, <1>3, <1>5, <1>6 DEF Alone
<1>8. Recorded \subseteq Recorded'
    <2>1. SUFFICES ASSUME NEW e, Holds(e) PROVE Holds(e)'
        BY RecordedIn
    <2>2. e \in final \/ (Present /\ e \in EntriesOf(ledger))
        BY <2>1, <1>3, <1>4 DEF Holds, Reclaiming
    <2>3. QED
        BY <2>2, <1>3 DEF Holds, Present
<1>9. FactsStand => FactsStand'
    BY <1>8, <1>3, FactsStay
<1>10. ReportsKept'
    BY <1>9, <1>3, <1>6 DEF IInv, ReportsKept, Broken
<1>11. ReviewCurrent'
    <2>1. Present' <=> Present
        BY <1>3 DEF Present
    <2>2. \A q \in Processes : ~Writes(q)'
        BY <1>4, <1>5
    <2>3. QED
        BY <2>1, <2>2, <1>1, <1>3 DEF IInv, ReviewCurrent
<1>12. QED
    BY <1>4, <1>7, <1>10, <1>11 DEF Rest

\* The truncated file is in the hands of the process that will fill it.
LEMMA RestTruncate ==
    ASSUME OneProcess, IInv, NumInv', NEW p \in Processes, Truncate(p)
    PROVE  Rest'
<1>1. /\ step[p] = "planned" /\ step'[p] = "writing" /\ ledger' = Damaged
      /\ UNCHANGED <<plan, review, told, final, crashes, unrecorded, outdated>>
    BY DEF Truncate, IInv, NumInv, TypeOK
<1>2. \A q \in Processes : q = p
    BY DEF OneProcess
<1>3. Writes(p) /\ ~Deletes(p)
    <2>1. Writes(p) \/ Deletes(p)
        BY <1>1 DEF IInv, NumInv, Numbered
    <2>2. ~Deletes(p)
        BY PlanParts DEF Truncate
    <2>3. QED
        BY <2>1, <2>2
<1>4. /\ Writes(p)' /\ ~Deletes(p)'
      /\ FactOf(p)' = FactOf(p)
      /\ Reclaiming' = Reclaiming
    BY <1>1, <1>3 DEF Writes, Deletes, FactOf, Reclaiming
<1>5. /\ ledger # Damaged
      /\ Extends(Current, plan[p].content)
      /\ \E e \in EntriesOf(plan[p].content) : Stands(FactOf(p), e)
    BY <1>1, <1>3 DEF IInv, Alone
<1>6. Alone(p)'
    BY <1>1, <1>4, <1>5 DEF Alone
<1>7. ReportsKept'
    <2>1. ASSUME NEW e \in Recorded
          PROVE  \E f \in Recorded' : /\ f.id = e.id /\ f.resource = e.resource
                                      /\ e.confirmed => f.confirmed
                                      /\ e.collected => f.collected
        <3>1. Holds(e)
            BY RecordedIn
        <3>2. e \in final \/ (Present /\ e \in EntriesOf(ledger))
            BY <3>1, <1>1, <1>2 DEF Holds, Reclaiming
        <3>3. CASE e \in final
            <4>1. Holds(e)'
                BY <3>3, <1>1 DEF Holds
            <4>2. QED
                BY <4>1, RecordedIn
        <3>4. CASE Present /\ e \in EntriesOf(ledger)
            <4>1. Current = ledger
                BY <3>4 DEF Present, Current
            <4>2. PICK f \in EntriesOf(plan[p].content) :
                      /\ f.id = e.id /\ f.resource = e.resource
                      /\ e.confirmed => f.confirmed
                      /\ e.collected => f.collected
                BY <3>4, <4>1, <1>5 DEF Extends
            <4>3. Holds(f)'
                BY <1>1 DEF Holds
            <4>4. QED
                BY <4>2, <4>3, RecordedIn
        <3>5. QED
            BY <3>2, <3>3, <3>4
    <2>2. FactsStand => FactsStand'
        BY <2>1, <1>1, FactsGoOn
    <2>3. QED
        BY <2>2, <1>1, <1>5 DEF IInv, ReportsKept, Broken
<1>8. ReviewCurrent'
    <2>1. ~Present'
        BY <1>1 DEF Present
    <2>2. ledger' # Missing
        BY <1>1, Distinct
    <2>3. \A q \in Processes : Writes(q)' <=> Writes(q)
        BY <1>1 DEF Writes
    <2>4. QED
        BY <2>1, <2>2, <2>3, <1>1, <1>4 DEF IInv, ReviewCurrent
<1>9. QED
    BY <1>2, <1>6, <1>7, <1>8 DEF Rest

\* Nobody else writes, so the file has the whole planned content.
LEMMA RestFill ==
    ASSUME OneProcess, IInv, NumInv', NEW p \in Processes, Fill(p)
    PROVE  Rest'
<1>1. /\ step[p] = "writing" /\ step'[p] = "reporting"
      /\ UNCHANGED <<plan, review, told, final, crashes, unrecorded, outdated>>
    BY DEF Fill, IInv, NumInv, TypeOK
<1>2. \A q \in Processes : q = p
    BY DEF OneProcess
<1>3. Writes(p) /\ ~Deletes(p) /\ plan[p].content \in Ledgers /\ p \notin Reclaiming
    <2>1. Writes(p)
        BY <1>1 DEF IInv, NumInv, Numbered
    <2>2. QED
        BY <2>1, PlanParts
<1>4. ledger = Damaged /\ \E e \in EntriesOf(plan[p].content) : Stands(FactOf(p), e)
    BY <1>1, <1>3 DEF IInv, Alone
<1>5. ledger' = plan[p].content
    BY <1>2, <1>4, Distinct DEF Fill, Written
<1>6. /\ Writes(p)' /\ ~Deletes(p)'
      /\ FactOf(p)' = FactOf(p)
      /\ Reclaiming' = Reclaiming
    BY <1>1, <1>3 DEF Writes, Deletes, FactOf, Reclaiming
<1>7. Present' /\ ledger' # Missing
    BY <1>3, <1>5, Distinct DEF Present
<1>8. Alone(p)'
    BY <1>1, <1>4, <1>5, <1>6 DEF Alone
<1>9. ReportsKept'
    <2>1. Recorded \subseteq Recorded'
        <3>1. SUFFICES ASSUME NEW e, Holds(e) PROVE Holds(e)'
            BY RecordedIn
        <3>2. e \in final \/ e \in EntriesOf(plan[p].content)
            BY <3>1, <1>1, <1>2, <1>3, <1>4 DEF Holds, Present, Reclaiming
        <3>3. QED
            BY <3>2, <1>1, <1>5, <1>7 DEF Holds
    <2>2. FactsStand => FactsStand'
        BY <2>1, <1>1, FactsStay
    <2>3. ~Broken
        BY <1>1 DEF Broken
    <2>4. QED
        BY <2>2, <2>3, <1>1 DEF IInv, ReportsKept
<1>10. ReviewCurrent'
    <2>1. \A q \in Processes : Writes(q)' <=> Writes(q)
        BY <1>1 DEF Writes
    <2>2. QED
        BY <2>1, <1>1, <1>3, <1>5, <1>6, <1>7 DEF IInv, ReviewCurrent
<1>11. QED
    BY <1>2, <1>8, <1>9, <1>10 DEF Rest

\* The deleted file is in the hands of the process that will report it.
LEMMA RestDelete ==
    ASSUME OneProcess, IInv, NumInv', NEW p \in Processes, Delete(p)
    PROVE  Rest'
<1>1. /\ step[p] = "planned" /\ step'[p] = "reporting" /\ ledger' = Missing
      /\ outdated'
      /\ UNCHANGED <<plan, review, told, final, crashes, unrecorded>>
    BY DEF Delete, IInv, NumInv, TypeOK
<1>2. \A q \in Processes : q = p
    BY DEF OneProcess
<1>3. Deletes(p) /\ ~Writes(p) /\ p \in Reclaiming
    <2>1. Writes(p) \/ Deletes(p)
        BY <1>1 DEF IInv, NumInv, Numbered
    <2>2. ~Writes(p)
        BY PlanParts DEF Delete
    <2>3. QED
        BY <2>1, <2>2, PlanParts
<1>4. /\ ~Writes(p)' /\ Deletes(p)'
      /\ Reclaiming' = Reclaiming
    BY <1>1, <1>3 DEF Writes, Deletes, Reclaiming
<1>5. ledger = plan[p].about /\ ledger # Damaged
    BY <1>1, <1>3 DEF IInv, Alone
<1>6. Alone(p)'
    BY <1>1, <1>4, Distinct DEF Alone
<1>7. ReportsKept'
    <2>1. Recorded \subseteq Recorded'
        <3>1. SUFFICES ASSUME NEW e, Holds(e) PROVE Holds(e)'
            BY RecordedIn
        <3>2. e \in final \/ e \in EntriesOf(plan[p].about)
            BY <3>1, <1>1, <1>2, <1>5 DEF Holds, Reclaiming
        <3>3. QED
            BY <3>2, <1>1, <1>3, <1>4 DEF Holds
    <2>2. FactsStand => FactsStand'
        BY <2>1, <1>1, FactsStay
    <2>3. QED
        BY <2>2, <1>1, <1>5 DEF IInv, ReportsKept, Broken
<1>8. ReviewCurrent'
    BY <1>1 DEF ReviewCurrent
<1>9. QED
    BY <1>2, <1>6, <1>7, <1>8 DEF Rest

\* A process that ends has no plan any more, and its review stays current.
LEMMA RestEnds ==
    ASSUME OneProcess, IInv, NumInv', NEW p \in Processes, Ends(p),
           UNCHANGED <<ledger, review, outdated>>
    PROVE  /\ step'[p] = "idle" /\ plan'[p] = None
           /\ Alone(p)'
           /\ ReviewCurrent'
<1>1. step'[p] = "idle" /\ plan'[p] = None
    BY DEF Ends, IInv, NumInv, TypeOK
<1>2. \A q \in Processes : q = p
    BY DEF OneProcess
<1>3. ~Writes(p)' /\ ~Deletes(p)'
    BY <1>1, Distinct DEF Writes, Deletes
<1>4. Alone(p)'
    BY <1>1, <1>3 DEF Alone
<1>5. Present' <=> Present
    BY DEF Present
<1>6. ReviewCurrent'
    BY <1>2, <1>3, <1>5 DEF IInv, ReviewCurrent
<1>7. QED
    BY <1>1, <1>4, <1>6

\* What is reported is what was written or deleted.
LEMMA RestReport ==
    ASSUME OneProcess, IInv, NumInv', NEW p \in Processes, Report(p)
    PROVE  Rest'
<1>1. /\ step[p] = "reporting" /\ Ends(p)
      /\ UNCHANGED <<ledger, review, crashes, unrecorded, outdated>>
    BY DEF Report
<1>2. /\ step'[p] = "idle" /\ plan'[p] = None
      /\ Alone(p)' /\ ReviewCurrent'
    BY <1>1, RestEnds
<1>3. \A q \in Processes : q = p
    BY DEF OneProcess
<1>4. Writes(p) \/ Deletes(p)
    BY <1>1 DEF IInv, NumInv, Numbered
<1>5. CASE Deletes(p)
    <2>1. /\ ledger = Missing
          /\ final' = final \cup EntriesOf(plan[p].about)
          /\ told' = told
        BY <1>1, <1>5, PlanParts DEF IInv, Alone, Report
    <2>2. Recorded \subseteq Recorded'
        <3>1. SUFFICES ASSUME NEW e, Holds(e) PROVE Holds(e)'
            BY RecordedIn
        <3>2. e \in final \/ e \in EntriesOf(plan[p].about)
            BY <3>1, <2>1, <1>1, <1>3 DEF Holds, Present, Reclaiming
        <3>3. QED
            BY <3>2, <2>1 DEF Holds
    <2>3. FactsStand => FactsStand'
        BY <2>1, <2>2, FactsStay
    <2>4. ~Broken
        BY <2>1, Distinct DEF Broken
    <2>5. ReportsKept'
        BY <2>3, <2>4, <1>1 DEF IInv, ReportsKept
    <2>6. QED
        BY <2>5, <1>2, <1>3 DEF Rest
<1>6. CASE Writes(p)
    <2>1. /\ ledger = plan[p].content /\ ledger \in Ledgers
          /\ p \notin Reclaiming
          /\ told' = told \cup {FactOf(p)}
          /\ final' = final
        BY <1>1, <1>6, PlanParts DEF IInv, Alone, Report, FactOf
    <2>2. Present /\ Present'
        BY <2>1, <1>1, Distinct DEF Present
    <2>3. Recorded \subseteq Recorded'
        <3>1. SUFFICES ASSUME NEW e, Holds(e) PROVE Holds(e)'
            BY RecordedIn
        <3>2. e \in final \/ e \in EntriesOf(ledger)
            BY <3>1, <2>1, <1>1, <1>3 DEF Holds, Reclaiming
        <3>3. QED
            BY <3>2, <2>1, <2>2, <1>1 DEF Holds
    <2>4. \E e \in Recorded' : Stands(FactOf(p), e)
        <3>1. PICK e \in EntriesOf(plan[p].content) : Stands(FactOf(p), e)
            BY <1>6 DEF IInv, Alone
        <3>2. Holds(e)'
            BY <2>1, <2>2, <1>1 DEF Holds
        <3>3. QED
            BY <3>1, <3>2, RecordedIn
    <2>5. ASSUME FactsStand PROVE FactsStand'
        <3>1. SUFFICES ASSUME NEW fact \in told' PROVE \E e \in Recorded' : Stands(fact, e)
            BY DEF FactsStand, Stands
        <3>2. CASE fact \in told
            BY <3>2, <2>3, <2>5 DEF FactsStand
        <3>3. QED
            BY <3>2, <2>1, <2>4
    <2>6. ~Broken
        BY <2>1, Distinct DEF Broken
    <2>7. ReportsKept'
        BY <2>5, <2>6, <1>1 DEF IInv, ReportsKept
    <2>8. QED
        BY <2>7, <1>2, <1>3 DEF Rest
<1>7. QED
    BY <1>4, <1>5, <1>6

\* A process that is killed leaves the old file, the new one, or a damaged one.
LEMMA RestCrash ==
    ASSUME OneProcess, IInv, NumInv', NEW p \in Processes, Crash(p)
    PROVE  Rest'
<1>1. /\ step[p] # "idle" /\ Ends(p)
      /\ unrecorded' = (unrecorded \/ (p \in Reclaiming /\ step[p] = "reporting"))
      /\ UNCHANGED <<ledger, review, told, final, outdated>>
    BY DEF Crash
<1>2. /\ step'[p] = "idle" /\ plan'[p] = None
      /\ Alone(p)' /\ ReviewCurrent'
    BY <1>1, RestEnds
<1>3. \A q \in Processes : q = p
    BY DEF OneProcess
<1>4. CASE ledger = Damaged
    BY <1>1, <1>2, <1>3, <1>4 DEF Broken, ReportsKept, Rest
<1>5. CASE ledger # Damaged
    <2>1. step[p] # "writing" /\ ~Broken
        BY <1>5 DEF IInv, Alone, Broken
    <2>2. CASE p \in Reclaiming /\ step[p] = "reporting"
        BY <2>2, <1>1, <1>2, <1>3 DEF ReportsKept, Rest
    <2>3. CASE ~(p \in Reclaiming /\ step[p] = "reporting")
        <3>1. Recorded \subseteq Recorded'
            <4>1. SUFFICES ASSUME NEW e, Holds(e) PROVE Holds(e)'
                BY RecordedIn
            <4>2. e \in final \/ (Present /\ e \in EntriesOf(ledger))
                BY <4>1, <2>1, <2>3, <1>3 DEF Holds, Reclaiming
            <4>3. QED
                BY <4>2, <1>1 DEF Holds, Present
        <3>2. FactsStand => FactsStand'
            BY <3>1, <1>1, FactsStay
        <3>3. ReportsKept'
            BY <3>2, <2>1, <2>3, <1>1 DEF IInv, ReportsKept
        <3>4. QED
            BY <3>3, <1>2, <1>3 DEF Rest
    <2>4. QED
        BY <2>2, <2>3
<1>6. QED
    BY <1>4, <1>5

\* An entry that is reported again is in the file.
LEMMA RestTold ==
    ASSUME IInv, ToldAgain
    PROVE  Rest'
<1>1. PICK e \in EntriesOf(ledger) :
          /\ e.collected
          /\ told' = told \cup {[fact |-> "collected", id |-> e.id, resource |-> e.resource]}
    BY DEF ToldAgain
<1>2. Present /\ UNCHANGED <<ledger, step, plan, review, final, crashes, unrecorded, outdated>>
    BY DEF ToldAgain
<1>3. ASSUME NEW p \in Processes PROVE Alone(p)'
    <2>1. Alone(p)
        BY DEF IInv
    <2>2. /\ Writes(p)' <=> Writes(p)
          /\ Deletes(p)' <=> Deletes(p)
          /\ FactOf(p)' = FactOf(p)
          /\ Current' = Current
        BY <1>2 DEF Writes, Deletes, FactOf, Current
    <2>3. QED
        BY <2>1, <2>2, <1>2 DEF Alone
<1>4. Recorded' = Recorded
    BY <1>2 DEF Recorded, InFile, InWriting, InReport, Present, Reclaiming
<1>5. ASSUME FactsStand PROVE FactsStand'
    <2>1. SUFFICES ASSUME NEW fact \in told' PROVE \E f \in Recorded : Stands(fact, f)
        BY <1>4 DEF FactsStand, Stands
    <2>2. CASE fact \in told
        BY <2>2, <1>5 DEF FactsStand
    <2>3. CASE fact = [fact |-> "collected", id |-> e.id, resource |-> e.resource]
        <3>1. Stands(fact, e)
            BY <2>3, <1>1 DEF Stands
        <3>2. Holds(e)
            BY <1>2 DEF Holds
        <3>3. QED
            BY <3>1, <3>2, RecordedIn
    <2>4. QED
        BY <2>2, <2>3, <1>1
<1>6. ReportsKept'
    BY <1>2, <1>5 DEF IInv, ReportsKept, Broken, Present
<1>7. ReviewCurrent'
    <2>1. Reclaiming' = Reclaiming /\ (Present' <=> Present)
        BY <1>2 DEF Reclaiming, Present
    <2>2. \A q \in Processes : Writes(q)' <=> Writes(q)
        BY <1>2 DEF Writes
    <2>3. QED
        BY <2>1, <2>2, <1>2 DEF IInv, ReviewCurrent
<1>8. QED
    BY <1>3, <1>6, <1>7 DEF Rest

\* What is reviewed is what the file says and every planned content extends.
LEMMA RestReview ==
    ASSUME IInv, Review
    PROVE  Rest'
<1>1. /\ Present /\ review' = ledger
      /\ UNCHANGED <<ledger, step, plan, told, final, crashes, unrecorded>>
    BY DEF Review
<1>2. ASSUME NEW q \in Processes, Writes(q) PROVE Extends(ledger, plan[q].content)
    <2>1. step[q] \in {"planned", "writing", "reporting"}
        <3>1. plan[q] # None
            BY <1>2, PlanParts
        <3>2. step[q] \in {"idle", "planned", "writing", "reporting"}
            BY DEF IInv, NumInv, TypeOK
        <3>3. step[q] # "idle"
            BY <3>1 DEF IInv, NumInv, Numbered
        <3>4. QED
            BY <3>2, <3>3
    <2>2. ledger # Damaged /\ Current = ledger
        BY <1>1 DEF Present, Current
    <2>3. CASE step[q] = "planned"
        BY <2>2, <2>3, <1>2 DEF IInv, Alone
    <2>4. CASE step[q] = "reporting"
        <3>1. ledger = plan[q].content
            BY <2>4, <1>2 DEF IInv, Alone
        <3>2. QED
            BY <3>1, ExtendsItself
    <2>5. step[q] # "writing"
        BY <2>2 DEF IInv, Alone
    <2>6. QED
        BY <2>1, <2>3, <2>4, <2>5
<1>3. ReviewCurrent'
    <2>1. Present' /\ ledger' # Missing
        BY <1>1 DEF Present
    <2>2. \A q \in Processes : Writes(q)' <=> Writes(q)
        BY <1>1 DEF Writes
    <2>3. QED
        BY <2>1, <2>2, <1>1, <1>2, ExtendsItself DEF ReviewCurrent
<1>4. QED
    BY <1>1, <1>3, RestSame

\* Every step keeps the whole strengthening.
LEMMA AloneNext ==
    ASSUME OneProcess, IInv, [Next]_vars
    PROVE  IInv'
<1>1. NumInv'
    BY NumNext DEF IInv
<1>2. ASSUME UNCHANGED vars PROVE Rest'
    <2>1. UNCHANGED <<ledger, step, plan, review, told, final, crashes, unrecorded, outdated>>
        BY <1>2 DEF vars
    <2>2. /\ Reclaiming' = Reclaiming /\ (Present' <=> Present)
          /\ \A q \in Processes : Writes(q)' <=> Writes(q)
        BY <2>1 DEF Reclaiming, Present, Writes
    <2>3. ReviewCurrent'
        BY <2>1, <2>2 DEF IInv, ReviewCurrent
    <2>4. QED
        BY <2>1, <2>3, RestSame
<1>3. NumInv
    BY DEF IInv
<1>4. Rest'
    BY <1>1, <1>2, <1>3, Steps, RestPlans, RestReclaim, RestTruncate, RestFill,
       RestDelete, RestReport, RestCrash, RestTold, RestReview
<1>5. QED
    BY <1>1, <1>4 DEF Rest, IInv

\* It holds in every reachable state.
LEMMA AloneAlways == ASSUME OneProcess PROVE Spec => []IInv
    BY AloneInit, AloneNext, PTL DEF Spec

\* With one operation after another, whatever an operation reported as recorded
\* is in the ledger, in the hands of the process or in a final record, for any
\* resources and any number of processes killed.
THEOREM ReportsKeptAlone == ASSUME OneProcess PROVE Spec => []ReportsKept
<1>1. IInv => ReportsKept
    BY DEF IInv
<1>2. QED
    BY <1>1, AloneAlways, PTL

\* With one operation after another, a ledger that a killed process left damaged
\* is never overwritten or deleted.
THEOREM DamageStaysAlone == ASSUME OneProcess PROVE Spec => DamageStays
<1>1. ASSUME IInv, Broken, [Next]_vars PROVE Broken'
    <2>1. NumInv /\ ledger = Damaged /\ ~Present
        BY <1>1 DEF IInv, Broken, Present
    <2>2. \A p \in Processes : step[p] # "writing" /\ step[p] # "planned"
        BY <1>1 DEF Broken, IInv, Alone
    <2>3. ASSUME NEW p \in Processes
          PROVE  ~PlansExtension(p) /\ ~Truncate(p) /\ ~Fill(p) /\ ~Delete(p)
        BY <2>1, <2>2 DEF PlansExtension, Truncate, Fill, Delete
    <2>4. ~ToldAgain /\ ~Review
        BY <2>1 DEF ToldAgain, Review
    <2>5. ASSUME NEW p \in Processes, Reclaim(p) PROVE Broken'
        BY <2>1, <2>5, <1>1 DEF Reclaim, Broken
    <2>6. ASSUME NEW p \in Processes, Report(p) \/ Crash(p) PROVE Broken'
        <3>1. /\ step' = [step EXCEPT ![p] = "idle"]
              /\ UNCHANGED ledger
            BY <2>6 DEF Report, Crash, Ends
        <3>2. \A q \in Processes : step'[q] # "writing"
            BY <3>1, <1>1 DEF Broken, IInv, NumInv, TypeOK
        <3>3. QED
            BY <3>1, <3>2, <2>1 DEF Broken
    <2>7. ASSUME UNCHANGED vars PROVE Broken'
        BY <2>7, <1>1 DEF vars, Broken
    <2>8. QED
        BY <1>1, <2>1, <2>3, <2>4, <2>5, <2>6, <2>7, Steps
<1>2. QED
    BY <1>1, AloneAlways, PTL DEF Spec, DamageStays

\* With one operation after another, a ledger is reclaimed only when each of its
\* entries is collected and, unless a ledger was deleted since the confirmation, was
\* confirmed under this id for this resource.
THEOREM ReclaimedAsReviewedAlone == ASSUME OneProcess PROVE Spec => ReclaimedAsReviewed
<1> DEFINE Safe ==
        \A p \in Processes :
            step[p] = "idle" /\ step'[p] = "planned" /\ plan'[p].fact = "reclaimed"
            => \A e \in EntriesOf(ledger) :
                  /\ e.collected
                  /\ outdated \/ \E seen \in EntriesOf(review) :
                                    seen.id = e.id /\ seen.resource = e.resource
<1>1. ASSUME IInv, [Next]_vars PROVE Safe
    <2>1. SUFFICES ASSUME NEW p \in Processes, step[p] = "idle", step'[p] = "planned",
                          plan'[p].fact = "reclaimed", NEW e \in EntriesOf(ledger)
                   PROVE  /\ e.collected
                          /\ ~ outdated => \E seen \in EntriesOf(review) :
                                               seen.id = e.id /\ seen.resource = e.resource
        OBVIOUS
    <2>2. NumInv /\ \A q \in Processes : q = p
        BY <1>1 DEF IInv, OneProcess
    <2>3. ~PlansExtension(p)
        <3>1. SUFFICES ASSUME PlansExtension(p) PROVE FALSE
            OBVIOUS
        <3>2. PICK fact \in Facts, id \in Nat \ {0}, about \in Resources, content \in Ledgers :
                  Plans(p, fact, id, about, content)
            BY <3>1 DEF PlansExtension
        <3>3. plan'[p].fact = fact
            BY <3>2, <2>2 DEF Plans, NumInv, TypeOK
        <3>4. QED
            BY <3>3, <2>1 DEF Facts
    <2>4. ~Truncate(p) /\ ~Fill(p) /\ ~Delete(p) /\ ~Report(p) /\ ~Crash(p)
        BY <2>1 DEF Truncate, Fill, Delete, Report, Crash
    <2>5. ~ToldAgain /\ ~Review /\ ~UNCHANGED vars
        BY <2>1 DEF ToldAgain, Review, vars
    <2>6. Reclaim(p)
        BY <1>1, <2>2, <2>3, <2>4, <2>5, Steps
    <2>7. Present /\ MayReclaim(EntriesOf(ledger)) /\ review # Missing
        BY <2>1, <2>6 DEF Reclaim
    <2>8. ledger \in Ledgers /\ review \in Ledgers
        BY <2>2, <2>7 DEF NumInv, Numbered, Present
    <2>9. e.collected /\ e.id \in Ids(EntriesOf(review))
        BY <2>7 DEF MayReclaim, Ids
    <2>10. PICK seen \in EntriesOf(review) : seen.id = e.id
        BY <2>9 DEF Ids
    <2>11. ASSUME ~ outdated PROVE seen.resource = e.resource
        <3>1. Extends(review, ledger)
            BY <1>1, <2>7, <2>11 DEF IInv, ReviewCurrent
        <3>2. PICK f \in EntriesOf(ledger) : f.id = seen.id /\ f.resource = seen.resource
            BY <3>1 DEF Extends
        <3>3. f = ledger[f.id] /\ e = ledger[e.id]
            BY <2>8, AtItsPlace
        <3>4. QED
            BY <2>10, <3>2, <3>3
    <2>12. QED
        BY <2>9, <2>10, <2>11
<1>2. QED
    BY <1>1, AloneAlways, PTL DEF Spec, ReclaimedAsReviewed

-----------------------------------------------------------------------------
(* The contract of the ledger: every operation happens at one point.           *)

\* A new entry under a free id, or one fact of one entry.
OneChange(old, new) ==
    \/ \E e \in new :
          /\ \A d \in old : d.id # e.id
          /\ ~ e.confirmed /\ ~ e.collected
          /\ new = old \cup {e}
    \/ \E e \in old : ~ e.confirmed /\ new = (old \ {e}) \cup {[e EXCEPT !.confirmed = TRUE]}
    \/ \E e \in old : ~ e.collected /\ new = (old \ {e}) \cup {[e EXCEPT !.collected = TRUE]}

\* What an operation has planned is one change of the ledger as it still is, or the
\* deletion of entries that are collected.
PlanIsOneChange ==
    \A p \in Processes :
        /\ step[p] = "planned" /\ Writes(p)
             => OneChange(EntriesOf(Current), EntriesOf(plan[p].content))
        /\ Deletes(p) => \A e \in EntriesOf(plan[p].about) : e.collected

\* An operation plans one change.
PlansOneChange(p) ==
    \E fact \in Facts, id \in Nat \ {0}, about \in Resources, content \in Ledgers :
        /\ Plans(p, fact, id, about, content)
        /\ OneChange(EntriesOf(Current), EntriesOf(content))

LEMMA AppendedExactly ==
    ASSUME NEW entries \in Ledgers, NEW entry \in Entries
    PROVE  EntriesOf(Append(entries, entry)) = EntriesOf(entries) \cup {entry}
<1> DEFINE new == Append(entries, entry)
<1>1. entries \in Seq(Entries) /\ Len(entries) \in Nat /\ DOMAIN entries = 1..Len(entries)
    BY DEF Ledgers
<1>2. /\ new \in Seq(Entries)
      /\ Len(new) = Len(entries) + 1
      /\ \A i \in 1..Len(entries) : new[i] = entries[i]
      /\ new[Len(entries) + 1] = entry
    BY <1>1, AppendProperties
<1>3. DOMAIN new = 1..(Len(entries) + 1)
    BY <1>2
<1> HIDE DEF new
<1>4. EntriesOf(new) \subseteq EntriesOf(entries) \cup {entry}
    BY <1>1, <1>2, <1>3 DEF EntriesOf
<1>5. EntriesOf(entries) \cup {entry} \subseteq EntriesOf(new)
    BY <1>1, <1>2, <1>3 DEF EntriesOf
<1>6. QED
    BY <1>4, <1>5 DEF new

LEMMA ReplacedExactly ==
    ASSUME NEW entries \in Ledgers, NEW e \in EntriesOf(entries), NEW f
    PROVE  EntriesOf(WithEntry(entries, e.id, f)) = (EntriesOf(entries) \ {e}) \cup {f}
<1> DEFINE new == WithEntry(entries, e.id, f)
<1>1. DOMAIN entries = 1..Len(entries) /\ \A i \in 1..Len(entries) : entries[i].id = i
    BY DEF Ledgers
<1>2. /\ DOMAIN new = 1..Len(entries)
      /\ \A i \in 1..Len(entries) : new[i] = IF entries[i].id = e.id THEN f ELSE entries[i]
    BY <1>1 DEF WithEntry
<1>3. e.id \in 1..Len(entries) /\ e = entries[e.id]
    BY AtItsPlace
<1> HIDE DEF new
<1>4. ASSUME NEW x \in EntriesOf(new)
      PROVE  x \in (EntriesOf(entries) \ {e}) \cup {f}
    <2>1. PICK i \in 1..Len(entries) : x = new[i]
        BY <1>2 DEF EntriesOf
    <2>2. CASE i = e.id
        BY <1>1, <1>2, <1>3, <2>1, <2>2
    <2>3. CASE i # e.id
        <3>1. x = entries[i] /\ x.id = i
            BY <1>1, <1>2, <2>1, <2>3
        <3>2. x \in EntriesOf(entries) /\ x # e
            BY <1>1, <2>3, <3>1 DEF EntriesOf
        <3>3. QED
            BY <3>2
    <2>4. QED
        BY <2>2, <2>3
<1>5. ASSUME NEW x \in EntriesOf(entries) \ {e}
      PROVE  x \in EntriesOf(new)
    <2>1. PICK i \in 1..Len(entries) : x = entries[i]
        BY <1>1 DEF EntriesOf
    <2>2. i # e.id
        BY <1>3, <1>5, <2>1
    <2>3. new[i] = x
        BY <1>1, <1>2, <2>1, <2>2
    <2>4. QED
        BY <1>2, <2>3 DEF EntriesOf
<1>6. f \in EntriesOf(new)
    BY <1>1, <1>2, <1>3 DEF EntriesOf
<1>7. QED
    BY <1>4, <1>5, <1>6 DEF new

LEMMA RegisterChanges ==
    ASSUME NumInv, NEW p \in Processes, Register(p)
    PROVE  PlansOneChange(p)
<1>1. PICK read \in Readable, r \in Resources :
          LET entries == IF read = Missing THEN <<>> ELSE read
              entry == [id |-> NextId(entries), resource |-> r,
                        confirmed |-> FALSE, collected |-> FALSE]
          IN  Plans(p, "registered", entry.id, r, Append(entries, entry))
    BY DEF Register
<1> DEFINE entries == IF read = Missing THEN <<>> ELSE read
<1> DEFINE entry == [id |-> NextId(entries), resource |-> r,
                     confirmed |-> FALSE, collected |-> FALSE]
<1> DEFINE content == Append(entries, entry)
<1>2. ledger # Damaged /\ entries = Current
    BY DEF Readable, Current
<1>3. <<>> \in Ledgers
    BY DEF Ledgers
<1>4. entries \in Ledgers
    BY <1>2, <1>3 DEF NumInv, Numbered, Current
<1>5. Plans(p, "registered", entry.id, r, content)
    BY <1>1
<1>6. NextId(entries) = Len(entries) + 1 /\ Len(entries) \in Nat
    <2> HIDE DEF entries
    <2>1. Len(entries) \in Nat
        BY <1>4 DEF Ledgers
    <2>2. QED
        BY <1>4, <2>1, NextIsFree
<1>7. /\ entry \in Entries /\ entry.id = NextId(entries) /\ entry.resource = r
      /\ entry.id \in Nat \ {0} /\ ~ entry.confirmed /\ ~ entry.collected
    BY <1>6 DEF Entries
<1>8. \A d \in EntriesOf(entries) : d.id \in 1..Len(entries)
    BY <1>4, AtItsPlace
<1> HIDE DEF entry, entries
<1>9. content \in Ledgers /\ entry \in EntriesOf(content)
    BY <1>4, <1>7, Appended
<1>10. EntriesOf(content) = EntriesOf(entries) \cup {entry}
    BY <1>4, <1>7, AppendedExactly
<1>11. \A d \in EntriesOf(entries) : d.id # entry.id
    BY <1>6, <1>7, <1>8
<1> HIDE DEF content
<1>12. OneChange(EntriesOf(entries), EntriesOf(content))
    BY <1>7, <1>9, <1>10, <1>11 DEF OneChange
<1>13. "registered" \in Facts
    BY DEF Facts
<1>14. QED
    BY <1>2, <1>5, <1>7, <1>9, <1>12, <1>13 DEF PlansOneChange

LEMMA FactChanges ==
    ASSUME NumInv, NEW p \in Processes, Present, NEW e \in EntriesOf(ledger), NEW fact, NEW f,
           \/ fact = "confirmed" /\ ~ e.confirmed /\ f = [e EXCEPT !.confirmed = TRUE]
           \/ fact = "collected" /\ ~ e.collected /\ f = [e EXCEPT !.collected = TRUE],
           Plans(p, fact, e.id, e.resource, WithEntry(ledger, e.id, f))
    PROVE  PlansOneChange(p)
<1>1. ledger \in Ledgers /\ Current = ledger
    BY DEF NumInv, Numbered, Present, Current
<1>2. e \in Entries /\ e.id \in Nat \ {0} /\ e.resource \in Resources
    BY <1>1, AtItsPlace DEF Entries
<1>3. f \in Entries /\ f.id = e.id /\ f.resource = e.resource
      /\ (e.confirmed => f.confirmed) /\ (e.collected => f.collected)
    BY <1>2 DEF Entries
<1>4. WithEntry(ledger, e.id, f) \in Ledgers
    BY <1>1, <1>3, Replaced
<1>5. EntriesOf(WithEntry(ledger, e.id, f)) = (EntriesOf(ledger) \ {e}) \cup {f}
    <2> HIDE DEF EntriesOf
    <2>1. \A g : EntriesOf(WithEntry(ledger, e.id, g)) = (EntriesOf(ledger) \ {e}) \cup {g}
        BY <1>1, ReplacedExactly
    <2>2. QED
        BY <2>1
<1>6. OneChange(EntriesOf(ledger), EntriesOf(WithEntry(ledger, e.id, f)))
    BY <1>5 DEF OneChange
<1>7. fact \in Facts
    BY DEF Facts
<1>8. QED
    BY <1>1, <1>2, <1>4, <1>6, <1>7 DEF PlansOneChange

\* The alternatives of a step, with the change that is planned.
LEMMA StepsChange ==
    ASSUME NumInv, [Next]_vars
    PROVE  \/ \E p \in Processes :
                 \/ PlansOneChange(p) \/ Reclaim(p)
                 \/ Truncate(p) \/ Fill(p) \/ Delete(p) \/ Report(p) \/ Crash(p)
           \/ ToldAgain \/ UNCHANGED <<ledger, step, plan, told, final, crashes, unrecorded>>
<1>1. ASSUME NEW p \in Processes, Present, NEW e \in EntriesOf(ledger), Collects(p, e)
      PROVE  PlansOneChange(p)
    <2>1. PICK f : f = [e EXCEPT !.collected = TRUE]
        OBVIOUS
    <2>2. ~ e.collected /\ Plans(p, "collected", e.id, e.resource, WithEntry(ledger, e.id, f))
        BY <1>1, <2>1 DEF Collects
    <2>3. QED
        BY <1>1, <2>1, <2>2, FactChanges
<1>2. ASSUME NEW p \in Processes, MarkCollected(p)
      PROVE  PlansOneChange(p)
    BY <1>1, <1>2 DEF MarkCollected
<1>3. ASSUME NEW p \in Processes, RecordCollected(p)
      PROVE  PlansOneChange(p) \/ ToldAgain
    BY <1>1, <1>3 DEF RecordCollected, ToldAgain
<1>4. ASSUME NEW p \in Processes, Confirm(p)
      PROVE  PlansOneChange(p)
    <2>1. PICK e \in EntriesOf(ledger) :
              /\ ~ e.confirmed
              /\ Plans(p, "confirmed", e.id, e.resource,
                       WithEntry(ledger, e.id, [e EXCEPT !.confirmed = TRUE]))
        BY <1>4 DEF Confirm
    <2>2. Present
        BY <1>4 DEF Confirm
    <2>3. QED
        BY <2>1, <2>2, FactChanges
<1>5. Review => UNCHANGED <<ledger, step, plan, told, final, crashes, unrecorded>>
    BY DEF Review
<1>6. UNCHANGED vars => UNCHANGED <<ledger, step, plan, told, final, crashes, unrecorded>>
    BY DEF vars
<1>7. QED
    BY <1>2, <1>3, <1>4, <1>5, <1>6, RegisterChanges DEF Next

LEMMA PlanIsOneChangeNext ==
    ASSUME OneProcess, IInv, PlanIsOneChange, [Next]_vars
    PROVE  PlanIsOneChange'
<1>1. NumInv /\ \A p, q \in Processes : p = q
    BY DEF IInv, OneProcess
<1>2. ASSUME NEW p \in Processes, PlansOneChange(p) PROVE PlanIsOneChange'
    <2>1. PICK fact \in Facts, id \in Nat \ {0}, about \in Resources, content \in Ledgers :
              /\ Plans(p, fact, id, about, content)
              /\ OneChange(EntriesOf(Current), EntriesOf(content))
        BY <1>2 DEF PlansOneChange
    <2> DEFINE new == [fact |-> fact, id |-> id, about |-> about, content |-> content]
    <2>2. new \in PlannedWrites /\ new \notin PlannedDeletions /\ new.content = content
        <3>1. new \in PlannedWrites
            BY DEF PlannedWrites
        <3>2. QED
            BY <3>1, Kinds
    <2>3. plan'[p] = new /\ UNCHANGED ledger
        BY <1>1, <2>1 DEF Plans, NumInv, TypeOK
    <2> HIDE DEF new
    <2>4. ~ Deletes(p)' /\ Current' = Current
        BY <2>2, <2>3 DEF Deletes, Current
    <2>5. OneChange(EntriesOf(Current), EntriesOf(plan'[p].content))
        BY <2>1, <2>2, <2>3
    <2>6. QED
        BY <1>1, <2>4, <2>5 DEF PlanIsOneChange
<1>3. ASSUME UNCHANGED <<ledger, step, plan>> PROVE PlanIsOneChange'
    BY <1>3 DEF PlanIsOneChange, Current, Writes, Deletes
<1>4. ASSUME NEW p \in Processes, Reclaim(p) PROVE PlanIsOneChange'
    <2>1. CASE Present /\ MayReclaim(EntriesOf(ledger)) /\ Plans(p, "reclaimed", 0, ledger, Missing)
        <3> DEFINE new == [fact |-> "reclaimed", id |-> 0, about |-> ledger, content |-> Missing]
        <3>1. ledger \in Ledgers
            BY <1>1, <2>1 DEF NumInv, Numbered, Present
        <3>2. new \in PlannedDeletions /\ new.about = ledger
            BY <3>1 DEF PlannedDeletions
        <3>3. new \notin PlannedWrites
            BY <3>2, Kinds
        <3>4. plan'[p] = new
            BY <1>1, <2>1 DEF Plans, NumInv, TypeOK
        <3> HIDE DEF new
        <3>5. ~ Writes(p)' /\ plan'[p].about = ledger
            BY <3>2, <3>3, <3>4 DEF Writes
        <3>6. \A e \in EntriesOf(ledger) : e.collected
            BY <2>1 DEF MayReclaim
        <3>7. QED
            BY <1>1, <3>5, <3>6 DEF PlanIsOneChange
    <2>2. QED
        BY <1>3, <1>4, <2>1 DEF Reclaim
<1>5. ASSUME NEW p \in Processes, Truncate(p) \/ Fill(p) \/ Delete(p) PROVE PlanIsOneChange'
    <2>1. plan' = plan /\ step'[p] # "planned"
        BY <1>1, <1>5 DEF Truncate, Fill, Delete, NumInv, TypeOK
    <2>2. QED
        BY <1>1, <2>1 DEF PlanIsOneChange, Deletes
<1>6. ASSUME NEW p \in Processes, Report(p) \/ Crash(p) PROVE PlanIsOneChange'
    <2>1. plan'[p] = None
        BY <1>1, <1>6 DEF Report, Crash, Ends, NumInv, TypeOK
    <2>2. ~ Writes(p)' /\ ~ Deletes(p)'
        BY <2>1, Distinct DEF Writes, Deletes
    <2>3. QED
        BY <1>1, <2>2 DEF PlanIsOneChange
<1>7. QED
    BY <1>1, <1>2, <1>3, <1>4, <1>5, <1>6, StepsChange DEF ToldAgain

LEMMA PlanIsOneChangeInit == Init => PlanIsOneChange
    BY Distinct DEF Init, PlanIsOneChange, Writes, Deletes

\* The entries of the contract's ledger, by where the process is.
OnRecord == InFile \cup InWriting \cup InReport

OnRecordIs ==
    \A p \in Processes :
        /\ step[p] \in {"idle", "planned"} => OnRecord = InFile
        /\ step[p] = "writing" => OnRecord = EntriesOf(plan[p].content)
        /\ step[p] = "reporting" /\ Writes(p) => OnRecord = EntriesOf(ledger) /\ Present
        /\ step[p] = "reporting" /\ Deletes(p) => OnRecord = EntriesOf(plan[p].about)

LEMMA OnRecordNow == ASSUME OneProcess PROVE IInv => OnRecordIs
<1> SUFFICES ASSUME IInv, NEW p \in Processes
             PROVE  /\ step[p] \in {"idle", "planned"} => OnRecord = InFile
                    /\ step[p] = "writing" => OnRecord = EntriesOf(plan[p].content)
                    /\ step[p] = "reporting" /\ Writes(p) => OnRecord = EntriesOf(ledger) /\ Present
                    /\ step[p] = "reporting" /\ Deletes(p) => OnRecord = EntriesOf(plan[p].about)
    BY DEF OnRecordIs
<1>1. Processes = {p} /\ Reclaiming \subseteq {p}
    BY DEF OneProcess, Reclaiming
<1>2. step[p] # "writing" => InWriting = {}
    BY <1>1 DEF InWriting
<1>3. step[p] = "writing" => InWriting = EntriesOf(plan[p].content)
    BY <1>1 DEF InWriting
<1>4. step[p] # "reporting" \/ p \notin Reclaiming => InReport = {}
    BY <1>1 DEF InReport
<1>5. step[p] = "reporting" /\ p \in Reclaiming => InReport = EntriesOf(plan[p].about)
    BY <1>1 DEF InReport
<1>6. step[p] = "writing" => InFile = {}
    BY DEF IInv, Alone, InFile, Present
<1>7. ASSUME step[p] = "reporting", Writes(p)
      PROVE  Present /\ InFile = EntriesOf(ledger) /\ p \notin Reclaiming
    <2>1. ledger = plan[p].content /\ ledger \in Ledgers /\ p \notin Reclaiming
        BY <1>7, PlanParts DEF IInv, Alone
    <2>2. Present
        BY <2>1, Distinct DEF Present
    <2>3. QED
        BY <2>1, <2>2 DEF InFile
<1>8. step[p] = "reporting" /\ Deletes(p) => InFile = {} /\ p \in Reclaiming
    BY PlanParts DEF IInv, Alone, InFile, Present
<1>9. QED
    BY <1>2, <1>3, <1>4, <1>5, <1>6, <1>7, <1>8 DEF OnRecord

LEMMA OnRecordNext == ASSUME OneProcess PROVE IInv' => OnRecordIs'
    BY OnRecordNow, PTL

\* What the contract speaks of.
Seen == <<OnRecord, final, told, Broken, unrecorded>>

LEMMA TruncateIsOneChange ==
    ASSUME OneProcess, IInv, IInv', PlanIsOneChange, NEW p \in Processes, Truncate(p)
    PROVE  Contract!Next
<1>1. /\ step[p] = "planned" /\ step'[p] = "writing" /\ ledger' = Damaged
      /\ UNCHANGED <<plan, final, told, unrecorded>>
    BY DEF Truncate, IInv, NumInv, TypeOK
<1>2. Writes(p)
    <2>1. Writes(p) \/ Deletes(p)
        BY <1>1 DEF IInv, NumInv, Numbered
    <2>2. QED
        BY <2>1, PlanParts DEF Truncate
<1>3. ~ Broken /\ Broken' = Broken
    BY <1>1 DEF IInv, Alone, Broken
<1>4. OnRecord = EntriesOf(Current)
    <2>1. OnRecord = InFile /\ ledger # Damaged
        BY <1>1, OnRecordNow DEF OnRecordIs, IInv, Alone
    <2>2. EntriesOf(<<>>) = {}
        BY DEF EntriesOf
    <2>3. QED
        BY <2>1, <2>2 DEF InFile, Present, Current
<1>5. OnRecord' = EntriesOf(plan[p].content)
    BY <1>1, OnRecordNext DEF OnRecordIs
<1>6. OneChange(OnRecord, OnRecord')
    BY <1>1, <1>2, <1>4, <1>5 DEF PlanIsOneChange
<1>7. UNCHANGED <<final, told, Broken, unrecorded>>
    BY <1>1, <1>3
<1>8. CASE \E e \in OnRecord' :
              /\ \A d \in OnRecord : d.id # e.id
              /\ ~ e.confirmed /\ ~ e.collected
              /\ OnRecord' = OnRecord \cup {e}
    BY <1>3, <1>7, <1>8 DEF Contract!Next, Contract!Enter, OnRecord
<1>9. CASE \E e \in OnRecord :
              ~ e.confirmed /\ OnRecord' = (OnRecord \ {e}) \cup {[e EXCEPT !.confirmed = TRUE]}
    BY <1>3, <1>7, <1>9 DEF Contract!Next, Contract!Confirm, Contract!Becomes, OnRecord
<1>10. CASE \E e \in OnRecord :
              ~ e.collected /\ OnRecord' = (OnRecord \ {e}) \cup {[e EXCEPT !.collected = TRUE]}
    BY <1>3, <1>7, <1>10 DEF Contract!Next, Contract!Collect, Contract!Becomes, OnRecord
<1>11. QED
    BY <1>6, <1>8, <1>9, <1>10 DEF OneChange

LEMMA FillAndDeleteStutter ==
    ASSUME OneProcess, IInv, IInv', NEW p \in Processes, Fill(p) \/ Delete(p)
    PROVE  UNCHANGED Seen
<1>1. UNCHANGED <<plan, final, told, unrecorded>> /\ step'[p] = "reporting"
    BY DEF Fill, Delete, IInv, NumInv, TypeOK
<1>2. CASE Fill(p)
    <2>1. step[p] = "writing"
        BY <1>2 DEF Fill
    <2>2. Writes(p)
        BY <2>1 DEF IInv, NumInv, Numbered
    <2>3. Writes(p)' /\ ledger' = plan[p].content /\ ledger' \in Ledgers
        BY <1>1, <2>2, PlanParts DEF IInv, Alone, Writes
    <2>4. Broken' = Broken
        BY <2>1, <2>3, Distinct DEF Broken
    <2>5. OnRecord = EntriesOf(plan[p].content)
        BY <2>1, OnRecordNow DEF OnRecordIs
    <2>6. OnRecord' = EntriesOf(ledger')
        BY <1>1, <2>3, OnRecordNext DEF OnRecordIs
    <2>7. QED
        BY <1>1, <2>3, <2>4, <2>5, <2>6 DEF Seen
<1>3. CASE Delete(p)
    <2>1. step[p] = "planned" /\ ledger' = Missing
        BY <1>3 DEF Delete
    <2>2. Deletes(p)
        <3>1. Writes(p) \/ Deletes(p)
            BY <2>1 DEF IInv, NumInv, Numbered
        <3>2. QED
            BY <1>3, <3>1, PlanParts DEF Delete
    <2>3. ledger = plan[p].about /\ ledger \in Ledgers
        BY <2>1, <2>2, PlanParts DEF IInv, Alone
    <2>4. Broken' = Broken /\ Present
        BY <2>1, <2>3, Distinct DEF Broken, Present
    <2>5. OnRecord = EntriesOf(plan[p].about)
        BY <2>1, <2>3, <2>4, OnRecordNow DEF OnRecordIs, InFile
    <2>6. Deletes(p)'
        BY <1>1, <2>2 DEF Deletes
    <2>7. OnRecord' = EntriesOf(plan[p].about)
        BY <1>1, <2>6, OnRecordNext DEF OnRecordIs
    <2>8. QED
        BY <1>1, <2>4, <2>5, <2>7 DEF Seen
<1>4. QED
    BY <1>2, <1>3

LEMMA ReportTells ==
    ASSUME OneProcess, IInv, IInv', PlanIsOneChange, NEW p \in Processes, Report(p)
    PROVE  Contract!Next
<1>1. /\ step[p] = "reporting" /\ step'[p] = "idle"
      /\ UNCHANGED <<ledger, unrecorded>>
    BY DEF Report, Ends, IInv, NumInv, TypeOK
<1>2. OnRecord' = InFile'
    BY <1>1, OnRecordNext DEF OnRecordIs
<1>3. Writes(p) \/ Deletes(p)
    BY <1>1 DEF IInv, NumInv, Numbered
<1>4. CASE Writes(p)
    <2>1. OnRecord = EntriesOf(ledger) /\ Present
        BY <1>1, <1>4, OnRecordNow DEF OnRecordIs
    <2>2. ledger = plan[p].content /\ p \notin Reclaiming
        BY <1>1, <1>4, PlanParts DEF IInv, Alone
    <2>3. OnRecord' = OnRecord /\ ~ Broken /\ Broken' = Broken
        BY <1>1, <1>2, <2>1 DEF InFile, Present, Broken
    <2>4. told' = told \cup {FactOf(p)} /\ final' = final
        BY <2>2 DEF Report, FactOf
    <2>5. PICK e \in OnRecord : Stands(FactOf(p), e)
        BY <1>4, <2>1, <2>2 DEF IInv, Alone
    <2>6. Contract!Says(e, FactOf(p))
        BY <2>5 DEF Stands, Contract!Says
    <2>7. Contract!Tell
        BY <1>1, <2>3, <2>4, <2>6 DEF Contract!Tell, OnRecord
    <2>8. QED
        BY <2>7 DEF Contract!Next
<1>5. CASE Deletes(p)
    <2>1. OnRecord = EntriesOf(plan[p].about) /\ p \in Reclaiming
        BY <1>1, <1>5, OnRecordNow, PlanParts DEF OnRecordIs
    <2>2. ledger = Missing
        BY <1>1, <1>5 DEF IInv, Alone
    <2>3. OnRecord' = {} /\ ~ Broken /\ Broken' = Broken
        BY <1>1, <1>2, <2>2, Distinct DEF InFile, Present, Broken
    <2>4. final' = final \cup OnRecord /\ told' = told
        BY <2>1 DEF Report
    <2>5. \A e \in OnRecord : e.collected
        BY <1>5, <2>1 DEF PlanIsOneChange
    <2>6. Contract!Reclaim
        BY <1>1, <2>3, <2>4, <2>5 DEF Contract!Reclaim, Contract!AllCollected, OnRecord
    <2>7. QED
        BY <2>6 DEF Contract!Next
<1>6. QED
    BY <1>3, <1>4, <1>5

LEMMA CrashLosesKnown ==
    ASSUME OneProcess, IInv, IInv', PlanIsOneChange, NEW p \in Processes, Crash(p)
    PROVE  Contract!Next \/ UNCHANGED Seen
<1>1. /\ step[p] # "idle" /\ step'[p] = "idle"
      /\ UNCHANGED <<ledger, told, final>>
      /\ unrecorded' = (unrecorded \/ (p \in Reclaiming /\ step[p] = "reporting"))
      /\ step[p] \in {"planned", "writing", "reporting"}
    BY DEF Crash, Ends, IInv, NumInv, TypeOK
<1>2. OnRecord' = InFile' /\ InFile' = InFile
    BY <1>1, OnRecordNext DEF OnRecordIs, InFile, Present
<1>3. Processes = {p}
    BY DEF OneProcess
<1>4. CASE step[p] = "planned"
    <2>1. ledger # Damaged /\ OnRecord = InFile
        BY <1>4, OnRecordNow DEF IInv, Alone, OnRecordIs
    <2>2. UNCHANGED <<Broken, unrecorded>>
        BY <1>1, <1>4, <2>1 DEF Broken, IInv, NumInv, TypeOK
    <2>3. QED
        BY <1>1, <1>2, <2>1, <2>2 DEF Seen
<1>5. CASE step[p] = "writing"
    <2>1. ledger = Damaged
        BY <1>5 DEF IInv, Alone
    <2>2. ~ Broken /\ Broken' /\ OnRecord' = {}
        BY <1>1, <1>2, <1>3, <1>5, <2>1 DEF Broken, InFile, Present
    <2>3. UNCHANGED unrecorded
        BY <1>1, <1>5 DEF IInv, NumInv, TypeOK
    <2>4. Contract!Damage
        BY <1>1, <2>2, <2>3 DEF Contract!Damage, OnRecord, Broken
    <2>5. QED
        BY <2>4 DEF Contract!Next
<1>6. CASE step[p] = "reporting" /\ Writes(p)
    <2>1. OnRecord = EntriesOf(ledger) /\ Present /\ p \notin Reclaiming
        BY <1>6, OnRecordNow, PlanParts DEF OnRecordIs
    <2>2. OnRecord = InFile /\ Broken' = Broken
        BY <1>1, <2>1 DEF InFile, Present, Broken
    <2>3. UNCHANGED unrecorded
        BY <1>1, <2>1 DEF IInv, NumInv, TypeOK
    <2>4. QED
        BY <1>1, <1>2, <2>2, <2>3 DEF Seen
<1>7. CASE step[p] = "reporting" /\ Deletes(p)
    <2>1. OnRecord = EntriesOf(plan[p].about) /\ p \in Reclaiming
        BY <1>7, OnRecordNow, PlanParts DEF OnRecordIs
    <2>2. ledger = Missing
        BY <1>7 DEF IInv, Alone
    <2>3. OnRecord' = {} /\ ~ Broken /\ Broken' = Broken
        BY <1>1, <1>2, <2>2, Distinct DEF InFile, Present, Broken
    <2>4. unrecorded' = TRUE
        BY <1>1, <1>7, <2>1
    <2>5. \A e \in OnRecord : e.collected
        BY <1>7, <2>1 DEF PlanIsOneChange
    <2>6. Contract!LoseReport
        BY <1>1, <2>3, <2>4, <2>5 DEF Contract!LoseReport, Contract!AllCollected, OnRecord
    <2>7. QED
        BY <2>6 DEF Contract!Next
<1>8. Writes(p) \/ Deletes(p)
    BY <1>1 DEF IInv, NumInv, Numbered
<1>9. QED
    BY <1>1, <1>4, <1>5, <1>6, <1>7, <1>8

LEMMA ToldAgainTells ==
    ASSUME IInv, ToldAgain
    PROVE  Contract!Next
<1>1. PICK e \in EntriesOf(ledger) :
          /\ e.collected
          /\ told' = told \cup {[fact |-> "collected", id |-> e.id, resource |-> e.resource]}
    BY DEF ToldAgain
<1>2. UNCHANGED <<OnRecord, final, Broken, unrecorded>>
    BY DEF ToldAgain, OnRecord, InFile, InWriting, InReport, Present, Reclaiming, Broken
<1>3. e \in OnRecord
    BY DEF ToldAgain, OnRecord, InFile
<1>4. Contract!Says(e, [fact |-> "collected", id |-> e.id, resource |-> e.resource])
    BY <1>1 DEF Contract!Says
<1>5. Contract!Tell
    BY <1>1, <1>2, <1>3, <1>4 DEF Contract!Tell, OnRecord
<1>6. QED
    BY <1>5 DEF Contract!Next

LEMMA PlanningStutters ==
    ASSUME OneProcess, IInv, IInv', NEW p \in Processes, PlansOneChange(p) \/ Reclaim(p)
    PROVE  UNCHANGED Seen
<1>1. UNCHANGED <<ledger, told, final, unrecorded>>
    BY DEF PlansOneChange, Plans, Reclaim
<1>2. step[p] = "idle" /\ step'[p] \in {"idle", "planned"}
    BY DEF PlansOneChange, Plans, Reclaim, IInv, NumInv, TypeOK
<1>3. OnRecord = InFile /\ OnRecord' = InFile'
    BY <1>2, OnRecordNow, OnRecordNext DEF OnRecordIs
<1>4. InFile' = InFile
    BY <1>1 DEF InFile, Present
<1>5. Processes = {p}
    BY DEF OneProcess
<1>6. Broken' = Broken
    BY <1>1, <1>2, <1>5 DEF Broken
<1>7. QED
    BY <1>1, <1>3, <1>4, <1>6 DEF Seen

\* With one operation after another the ledger keeps its contract (LedgerContract):
\* each operation happens at one point or not at all, wherever its process is killed;
\* what it tells is on record then; and nothing is lost but with a damaged file, which
\* stays damaged, or with the report of a reclamation.
THEOREM LedgerContractAlone == ASSUME OneProcess PROVE Spec => KeepsLedgerContract
<1>1. Init => Contract!Init
    <2> SUFFICES ASSUME Init PROVE Contract!Init
        OBVIOUS
    <2>1. InFile = {} /\ InWriting = {} /\ InReport = {}
        BY DEF Init, InFile, InWriting, InReport, Present, Reclaiming
    <2>2. Broken = FALSE
        BY Distinct DEF Init, Broken
    <2>3. QED
        BY <2>1, <2>2 DEF Init, Contract!Init
<1>2. ASSUME IInv, IInv', PlanIsOneChange, [Next]_vars
      PROVE  Contract!Next \/ UNCHANGED Seen
    <2>1. ASSUME UNCHANGED <<ledger, step, plan, told, final, crashes, unrecorded>>
          PROVE  UNCHANGED Seen
        BY <2>1 DEF Seen, OnRecord, InFile, InWriting, InReport, Present, Reclaiming, Broken
    <2>2. NumInv
        BY <1>2 DEF IInv
    <2>3. QED
        BY <1>2, <2>1, <2>2, StepsChange, TruncateIsOneChange, FillAndDeleteStutter, ReportTells,
           CrashLosesKnown, ToldAgainTells, PlanningStutters
<1>3. IInv /\ IInv' /\ PlanIsOneChange /\ [Next]_vars => [Contract!Next]_(Contract!vars)
    BY <1>2 DEF Contract!vars, Seen, OnRecord
<1>4. IInv /\ PlanIsOneChange /\ [Next]_vars => PlanIsOneChange'
    BY PlanIsOneChangeNext
<1>5. QED
    BY <1>1, <1>3, <1>4, PlanIsOneChangeInit, AloneAlways, PTL
    DEF Spec, KeepsLedgerContract, Contract!Spec

-----------------------------------------------------------------------------
(* What follows from the contract alone.                                       *)

\* With one operation after another, whatever reached the final records was collected.
THEOREM FinalIsCollectedAlone ==
    ASSUME OneProcess PROVE Spec => [](\A e \in final : e.collected)
<1> DEFINE Collected == \A e \in final : e.collected
<1>1. Contract!Init => Collected
    BY DEF Contract!Init
<1>2. ASSUME Collected, [Contract!Next]_(Contract!vars) PROVE Collected'
    <2>1. CASE Contract!Reclaim
        BY <1>2, <2>1 DEF Contract!Reclaim, Contract!AllCollected
    <2>2. CASE ~ Contract!Reclaim
        BY <1>2, <2>2 DEF Contract!Next, Contract!vars, Contract!Enter, Contract!Confirm,
           Contract!Collect, Contract!Becomes, Contract!Tell, Contract!Damage, Contract!LoseReport
    <2>3. QED
        BY <2>1, <2>2
<1>3. Contract!Spec => []Collected
    BY <1>1, <1>2, PTL DEF Contract!Spec
<1>4. QED
    BY <1>3, LedgerContractAlone, PTL DEF KeepsLedgerContract
=============================================================================
