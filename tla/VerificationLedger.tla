------------------------- MODULE VerificationLedger -------------------------
(* The ledger of the temporary resources a case created for its verification   *)
(* (verification-resources-ledger.ts, verification-resource-reclamation.ts).   *)
(*                                                                             *)
(* The ledger is one file per case.  Every operation is a process that reads   *)
(* the file, computes its new content, writes it in place (the file is         *)
(* truncated, then filled) and prints its report.  There is no lock: the       *)
(* processes of one case interleave, and any of them may be killed.  Inputs    *)
(* that an operation refuses change nothing and are left out; a resource is    *)
(* told apart by its location and identifiers.                                 *)
EXTENDS Naturals, Sequences, FiniteSets

CONSTANTS
    Processes,      \* that run operations; one of them runs one after another
    Resources,      \* the temporary resources of the case
    MaxCrashes,     \* bound: processes killed
    Missing,        \* no file
    Damaged,        \* a file that parseLedgerText rejects
    None            \* no plan

Facts == {"registered", "confirmed", "collected"}
Entries == [id : Nat \ {0}, resource : Resources, confirmed : BOOLEAN, collected : BOOLEAN]

\* What a process is about to do: to write a content, or to delete the ledger.
Planned ==
    [fact : Facts, id : Nat \ {0}, about : Resources, content : Seq(Entries)]
        \cup [fact : {"reclaimed"}, id : {0}, about : Seq(Entries), content : {Missing}]

ASSUME LedgerAssumption ==
    /\ IsFiniteSet(Resources)
    /\ MaxCrashes \in Nat
    /\ Missing # Damaged
    /\ {Missing, Damaged} \cap Seq(Entries) = {}
    /\ None \notin Planned

VARIABLES
    ledger,     \* Missing, Damaged or a sequence of entries
    step,       \* [Processes -> {"idle", "planned", "writing", "reporting"}]
    plan,       \* [Processes -> None or what the process is about to do]
    review,     \* the ledger the last confirmation was given for, Missing if none was
    told,       \* history: the facts that operations reported as recorded
    final,      \* the final records written to the Issue or PR
    crashes,    \* number of processes killed
    unrecorded, \* history: one was killed between deleting and reporting
    outdated    \* history: a ledger was deleted since the last confirmation

vars == <<ledger, step, plan, review, told, final, crashes, unrecorded, outdated>>

Init ==
    /\ ledger = Missing
    /\ step = [p \in Processes |-> "idle"]
    /\ plan = [p \in Processes |-> None]
    /\ review = Missing
    /\ told = {}
    /\ final = {}
    /\ crashes = 0
    /\ unrecorded = FALSE
    /\ outdated = FALSE

Reclaiming == {p \in Processes : plan[p] # None /\ plan[p].fact = "reclaimed"}
EntriesOf(content) == {content[i] : i \in DOMAIN content}
Present == ledger \notin {Missing, Damaged}

-----------------------------------------------------------------------------
(* Reading, and what is planned with what was read.                            *)

\* Mutant of Readable: a file that cannot be parsed passes for no file.
ReadableAnyhow == {IF ledger = Damaged THEN Missing ELSE ledger}

\* readLedger: no file is not the same as no entry, and a damaged file throws.
Readable == {ledger} \ {Damaged}

\* The process has read the file and knows what to write.  Nothing in the code
\* keeps another from reading the same file before it is written.
Plans(p, fact, id, about, content) ==
    /\ step[p] = "idle"
    /\ step' = [step EXCEPT ![p] = "planned"]
    /\ plan' = [plan EXCEPT ![p] = [fact |-> fact, id |-> id, about |-> about,
                                    content |-> content]]
    /\ UNCHANGED <<ledger, told, final, crashes, unrecorded, outdated>>

\* Mutants of NextId: the number of the last entry is given again; the first
\* number is zero.
NextIdOfLast(entries) == IF Len(entries) = 0 THEN 1 ELSE Len(entries)
NextIdFromZero(entries) == Len(entries)

\* The number of entries plus one, or the next that no entry has.
NextId(entries) ==
    CHOOSE n \in (Len(entries) + 1)..(2 * Len(entries) + 1) :
        /\ \A e \in EntriesOf(entries) : e.id # n
        /\ \A m \in (Len(entries) + 1)..(n - 1) : \E e \in EntriesOf(entries) : e.id = m

\* registerResource, and recordOccurrenceFact for a resource found later: the
\* resource of a registration that was not reported may be registered again.
Register(p) ==
    /\ \E read \in Readable, r \in Resources :
          LET entries == IF read = Missing THEN <<>> ELSE read
              entry == [id |-> NextId(entries), resource |-> r,
                        confirmed |-> FALSE, collected |-> FALSE]
          IN  /\ \A fact \in told : fact.resource # r
              /\ Plans(p, "registered", entry.id, r, Append(entries, entry))
    /\ UNCHANGED review

\* Mutant of WithEntry: an entry is found by its resource.
WithEntryOfResource(entries, id, entry) ==
    [i \in DOMAIN entries |-> IF entries[i].resource = entry.resource THEN entry ELSE entries[i]]

\* The content with the entries of an id replaced.
WithEntry(entries, id, entry) ==
    [i \in DOMAIN entries |-> IF entries[i].id = id THEN entry ELSE entries[i]]

\* recordDeletionConfirmation: once per entry.
Confirm(p) ==
    /\ Present
    /\ \E e \in EntriesOf(ledger) :
          /\ ~e.confirmed
          /\ Plans(p, "confirmed", e.id, e.resource,
                   WithEntry(ledger, e.id, [e EXCEPT !.confirmed = TRUE]))
    /\ UNCHANGED review

Collects(p, e) ==
    /\ ~e.collected
    /\ Plans(p, "collected", e.id, e.resource,
             WithEntry(ledger, e.id, [e EXCEPT !.collected = TRUE]))

\* markEntryCollected: refused without a confirmation of the deletion.
MarkCollected(p) ==
    /\ Present
    /\ \E e \in EntriesOf(ledger) : e.confirmed /\ Collects(p, e)
    /\ UNCHANGED review

\* recordEntryCollected: the confirmation is a parameter that names the entry.
\* When the entry is collected already, that is reported and nothing is written.
RecordCollected(p) ==
    /\ Present
    /\ \E e \in EntriesOf(ledger) :
          \/ Collects(p, e)
          \/ /\ step[p] = "idle" /\ e.collected
             /\ told' = told \cup {[fact |-> "collected", id |-> e.id,
                                   resource |-> e.resource]}
             /\ UNCHANGED <<ledger, step, plan, final, crashes, unrecorded, outdated>>
    /\ UNCHANGED review

\* The confirmation of a reclamation is given for the entries the ledger has now.
Review ==
    /\ Present
    /\ review' = ledger
    /\ outdated' = FALSE
    /\ UNCHANGED <<ledger, step, plan, told, final, crashes, unrecorded>>

Ids(entries) == {e.id : e \in entries}

\* Mutant of MayReclaim: what was confirmed is not asked.
MayReclaimUnreviewed(entries) == \A e \in entries : e.collected

\* Every entry is collected, and the ids are those of the confirmation.
MayReclaim(entries) ==
    /\ \A e \in entries : e.collected
    /\ Ids(entries) = Ids(EntriesOf(review))

\* reclaimLedger: the final record is built and the file is about to be deleted,
\* or the reclamation is refused.  The confirmation is a list of numbers in the
\* hands of the caller, who may use it again.
Reclaim(p) ==
    /\ review # Missing
    /\ Present /\ MayReclaim(EntriesOf(ledger))
    /\ Plans(p, "reclaimed", 0, ledger, Missing)
    /\ UNCHANGED review

-----------------------------------------------------------------------------
(* Writing and reporting.                                                      *)

\* writeTextFile opens the file and truncates it.
Truncate(p) ==
    /\ step[p] = "planned"
    /\ plan[p].content # Missing
    /\ step' = [step EXCEPT ![p] = "writing"]
    /\ ledger' = Damaged
    /\ UNCHANGED <<plan, review, told, final, crashes, unrecorded, outdated>>

\* What the file is once the content is written: nothing if it was deleted
\* meanwhile, and if another process writes too, its rest may be left behind.
Written(p) ==
    IF ledger = Missing THEN {Missing}
    ELSE IF ledger = Damaged /\ \A q \in Processes \ {p} : step[q] # "writing"
    THEN {plan[p].content}
    ELSE {plan[p].content, Damaged}

Fill(p) ==
    /\ step[p] = "writing"
    /\ step' = [step EXCEPT ![p] = "reporting"]
    /\ ledger' \in Written(p)
    /\ UNCHANGED <<plan, review, told, final, crashes, unrecorded, outdated>>

\* io.deleteFile, where the caller of reclaimLedger provides one that deletes.
Delete(p) ==
    /\ step[p] = "planned"
    /\ plan[p].content = Missing
    /\ step' = [step EXCEPT ![p] = "reporting"]
    /\ ledger' = Missing
    /\ outdated' = TRUE
    /\ UNCHANGED <<plan, review, told, final, crashes, unrecorded>>

Ends(p) ==
    /\ step' = [step EXCEPT ![p] = "idle"]
    /\ plan' = [plan EXCEPT ![p] = None]

\* The operation returns, and the final record goes to the Issue or PR.
Report(p) ==
    /\ step[p] = "reporting"
    /\ IF p \in Reclaiming
       THEN final' = final \cup EntriesOf(plan[p].about) /\ UNCHANGED told
       ELSE /\ told' = told \cup {[fact |-> plan[p].fact, id |-> plan[p].id,
                                   resource |-> plan[p].about]}
            /\ UNCHANGED final
    /\ Ends(p)
    /\ UNCHANGED <<ledger, review, crashes, unrecorded, outdated>>

\* The process is killed, wherever it is.
Crash(p) ==
    /\ step[p] # "idle"
    /\ crashes < MaxCrashes
    /\ crashes' = crashes + 1
    /\ unrecorded' = (unrecorded \/ (p \in Reclaiming /\ step[p] = "reporting"))
    /\ Ends(p)
    /\ UNCHANGED <<ledger, review, told, final, outdated>>

Next ==
    \/ \E p \in Processes :
          \/ Register(p) \/ Confirm(p) \/ MarkCollected(p) \/ RecordCollected(p)
          \/ Reclaim(p)
          \/ Truncate(p) \/ Fill(p) \/ Delete(p) \/ Report(p) \/ Crash(p)
    \/ Review

Spec == Init /\ [][Next]_vars

-----------------------------------------------------------------------------
(* Properties.                                                                 *)

TypeOK ==
    /\ ledger \in Seq(Entries) \cup {Missing, Damaged}
    /\ step \in [Processes -> {"idle", "planned", "writing", "reporting"}]
    /\ plan \in [Processes -> Planned \cup {None}]
    /\ review \in Seq(Entries) \cup {Missing}
    /\ told \subseteq [fact : Facts, id : Nat \ {0}, resource : Resources]
    /\ final \subseteq Entries
    /\ crashes \in 0..MaxCrashes
    /\ unrecorded \in BOOLEAN
    /\ outdated \in BOOLEAN

\* Everything that is recorded somewhere: in the file, in the hands of a process
\* that has truncated or deleted it, or in a final record.
InFile == IF Present THEN EntriesOf(ledger) ELSE {}
InWriting == UNION {EntriesOf(plan[p].content) : p \in {q \in Processes : step[q] = "writing"}}
InReport == UNION {EntriesOf(plan[p].about) : p \in {q \in Reclaiming : step[q] = "reporting"}}

Recorded == final \cup InFile \cup InWriting \cup InReport

Stands(fact, e) ==
    /\ e.id = fact.id
    /\ e.resource = fact.resource
    /\ fact.fact = "confirmed" => e.confirmed
    /\ fact.fact = "collected" => e.collected

\* The file was damaged by a process that was killed while it wrote.
Broken == ledger = Damaged /\ \A p \in Processes : step[p] # "writing"

FactsStand == \A fact \in told : \E e \in Recorded : Stands(fact, e)

\* What an operation reported as recorded stays recorded under the id it
\* reported, through later operations, retries, crashes and the reclamation of
\* the ledger, unless the report of the reclamation was lost or the file is
\* damaged (verification-resources-ledger.ts:557).
ReportsKept == unrecorded \/ Broken \/ FactsStand

\* A damaged ledger stays damaged: no operation takes it for an empty or a
\* missing one and replaces it (verification-resources-ledger.ts:292).
DamageStays == [][Broken => Broken']_vars

\* A ledger disappears only when each of its entries is collected, and the
\* confirmation was given for these very resources: what was registered after
\* the confirmation, or under a number that was confirmed, is not deleted with
\* them.  That ends when a ledger is deleted: the next one counts from one
\* again, and the old list of numbers may name its entries.
ReclaimedAsReviewed ==
    [][\A p \in Processes :
          step[p] = "idle" /\ step'[p] = "planned" /\ plan'[p].fact = "reclaimed"
          => \A e \in EntriesOf(ledger) :
                /\ e.collected
                /\ outdated \/ \E seen \in EntriesOf(review) :
                                  seen.id = e.id /\ seen.resource = e.resource]_vars

\* What the ledger of a case promises (LedgerContract), as long as its operations run
\* one after another: each operation happens at one point or not at all, wherever its
\* process is killed, what it tells is on record, and what is lost is known to be lost.
Contract ==
    INSTANCE LedgerContract WITH
        entries <- InFile \cup InWriting \cup InReport,
        damaged <- Broken,
        lost <- unrecorded
KeepsLedgerContract == Contract!Spec
=============================================================================
