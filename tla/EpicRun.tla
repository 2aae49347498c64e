------------------------------- MODULE EpicRun -------------------------------
(* How case-auto works off an Epic.  The coordinator keeps a record of every   *)
(* child Issue and fills the shared slots (slot_queue.ts) with children whose  *)
(* providers are complete (wave-gate.ts).  case-close accepts the children of  *)
(* the current Wave and closes the Epic (close_mechanical_steps.ts).  Both     *)
(* write the execution table in the body of the Epic, each one update at a     *)
(* time: the gate of epic-reflect.ts is in the memory of a process, and they   *)
(* are two.  Tasks may stop without a report, the coordinator may lose sight   *)
(* of a task or be started anew, and writes may fail.                          *)
EXTENDS Naturals, FiniteSets, Sequences

CONSTANTS
    Order,        \* the child Issues in the order of the execution table
    DependsOn,    \* [Children -> SUBSET Children]
    Wave,         \* [Children -> Nat]
    MaxActive,    \* the shared slots (five, unless configured)
    Merging,      \* the children whose start needs a dependent Definition merge
    Outcomes,     \* the results of an execution that is no success
    MaxTroubles   \* bound: how often something goes wrong or is held up

Children == {Order[i] : i \in DOMAIN Order}

ASSUME EpicAssumption ==
    /\ Order \in Seq(Children)
    /\ DependsOn \in [Children -> SUBSET Children]
    /\ Wave \in [Children -> Nat]
    /\ \A c \in Children : \A p \in DependsOn[c] : Wave[p] < Wave[c]
    /\ MaxActive \in Nat \ {0}
    /\ Merging \subseteq Children
    /\ Outcomes \subseteq {"blocked", "failed", "delegation-unavailable"}
    /\ MaxTroubles \in Nat

VARIABLES
    task,      \* child -> [alive |-> executions at work, report |-> what the last one reported]
    accepted,  \* child -> the acceptance that case-close has recorded
    records,   \* child -> what the coordinator knows of it
    active,    \* the children that take a slot
    reflected, \* is the last change of the contract reflected downstream?
    inFlight,  \* is a dependent Definition merge in flight?
    table,     \* child -> its status in the body of the Epic
    writer,    \* writer -> the update it is about to write
    judged,    \* the acceptance of the Epic itself, its own obligations included
    epic,      \* "open" or "closed"
    troubles,  \* how often something went wrong or was held up
    confirmed  \* history: the children whose completion was read back from the table

vars == <<task, accepted, records, active, reflected, inFlight, table, writer, judged, epic,
          troubles, confirmed>>

Writers == {"closing", "coordination"}
Statuses == {"pending", "completed", "blocked", "failed"}
Verdicts == {"none", "allowed", "denied"}
NoReport == [outcome |-> "none", sound |-> FALSE]
\* sound: the own conditions are reported as met, and no obligation as defective.
Reports == [outcome : {"pass"}, sound : BOOLEAN] \cup [outcome : Outcomes, sound : {FALSE}]
Records == [status : {"pending", "active", "determined", "unknown"}, outcome : {"none", "pass"} \cup Outcomes,
            sound : BOOLEAN, acceptance : Verdicts, repair : {"none", "mended", "ready"}]
Unseen == [status |-> "pending", outcome |-> "none", sound |-> FALSE, acceptance |-> "none",
           repair |-> "none"]
Idle == [at |-> "idle"]
Updates == [at : {"read", "sent"}, child : Children, status : Statuses,
            body : [Children -> Statuses]]

Init ==
    /\ task = [c \in Children |-> [alive |-> 0, report |-> NoReport]]
    /\ accepted = [c \in Children |-> "none"]
    /\ records = [c \in Children |-> Unseen]
    /\ active = {}
    /\ reflected = TRUE /\ inFlight = FALSE
    /\ table = [c \in Children |-> "pending"]
    /\ writer = [w \in Writers |-> Idle]
    /\ judged = "none" /\ epic = "open"
    /\ troubles = 0 /\ confirmed = {}

Trouble == troubles < MaxTroubles /\ troubles' = troubles + 1

-----------------------------------------------------------------------------
(* The decisions of wave-gate.ts and slot_queue.ts.                            *)

\* Mutant of CanComplete: the report of the task is enough.
CanCompleteReported(r) == r.status = "determined" /\ r.outcome = "pass" /\ r.sound

\* canCompleteChild: reported and accepted.
CanComplete(r) ==
    r.status = "determined" /\ r.outcome = "pass" /\ r.sound /\ r.acceptance = "allowed"

\* planSlotAdmissions: why a candidate is left out, apart from the slots.
Admissible(c) ==
    /\ c \notin active
    /\ records[c].status # "unknown"
    /\ records[c].status = "determined" => records[c].outcome # "pass" /\ records[c].repair = "ready"
    /\ c \in Merging => ~ inFlight
    /\ \A p \in DependsOn[c] : CanComplete(records[p])

FreeSlots == IF Cardinality(active) >= MaxActive THEN 0 ELSE MaxActive - Cardinality(active)

\* The first candidates in the order of the table, as many as there are slots.
Before(i) == {j \in 1..(i - 1) : Admissible(Order[j])}
Admitted == {i \in DOMAIN Order : Admissible(Order[i]) /\ Cardinality(Before(i)) < FreeSlots}
Admissions == {Order[i] : i \in Admitted}

\* canCloseEpic.
CanClose == judged = "allowed" /\ \A c \in Children : CanComplete(records[c])

-----------------------------------------------------------------------------
(* The coordinator.  It does one thing at a time.                              *)

Free == writer["coordination"] = Idle /\ epic = "open"

\* canDispatchNewExecution, and the plan that follows.
Dispatch ==
    /\ Free /\ reflected
    /\ Admissions # {}
    /\ active' = active \cup Admissions
    /\ records' = [c \in Children |-> IF c \in Admissions THEN [Unseen EXCEPT !.status = "active"]
                                      ELSE records[c]]
    /\ task' = [c \in Children |-> IF c \in Admissions
                                   THEN [alive |-> task[c].alive + 1, report |-> NoReport]
                                   ELSE task[c]]
    /\ UNCHANGED <<accepted, reflected, inFlight, table, writer, judged, epic, troubles, confirmed>>

\* What is known of a child whose execution has ended.
Ended(c) ==
    IF task[c].report = NoReport THEN Unseen
    ELSE [status |-> "determined", outcome |-> task[c].report.outcome,
          sound |-> task[c].report.sound, acceptance |-> accepted[c], repair |-> "none"]

Collect(c) ==
    /\ Free
    /\ records[c].status = "active" /\ task[c].report # NoReport
    /\ records' = [records EXCEPT ![c] = Ended(c)]
    /\ active' = active \ {c}
    /\ UNCHANGED <<task, accepted, reflected, inFlight, table, writer, judged, epic, troubles, confirmed>>

\* A task does not answer: it has stopped, or only seems to.
LoseSight(c) ==
    /\ Free
    /\ records[c].status = "active" /\ task[c].report = NoReport
    /\ IF task[c].alive = 0 THEN UNCHANGED troubles ELSE Trouble
    /\ records' = [records EXCEPT ![c].status = "unknown"]
    /\ UNCHANGED <<task, accepted, active, reflected, inFlight, table, writer, judged, epic, confirmed>>

\* Mutant of HasEnded: a task that does not report is taken for one that has ended.
HasEndedSilently(c) == task[c].report = NoReport

HasEnded(c) == task[c].alive = 0

\* The slot of such a task is free once it is known to have ended.
ConfirmEnd(c) ==
    /\ Free
    /\ records[c].status = "unknown" /\ HasEnded(c)
    /\ records' = [records EXCEPT ![c] = Ended(c)]
    /\ active' = active \ {c}
    /\ UNCHANGED <<task, accepted, reflected, inFlight, table, writer, judged, epic, troubles, confirmed>>

\* What kept a child from success is repaired; when its row is pending again, it
\* may be tried again.
Repair(c) ==
    /\ Free
    /\ records[c].status = "determined" /\ records[c].outcome # "pass"
    /\ \/ records[c].repair = "none" /\ records' = [records EXCEPT ![c].repair = "mended"]
       \/ /\ records[c].repair = "mended" /\ table[c] = "pending"
          /\ records' = [records EXCEPT ![c].repair = "ready"]
    /\ UNCHANGED <<task, accepted, active, reflected, inFlight, table, writer, judged, epic, troubles, confirmed>>

\* The work of a child that may not be completed is corrected and verified again.
Rework(c) ==
    /\ Free
    /\ records[c].outcome = "pass" /\ (~ records[c].sound \/ records[c].acceptance = "denied")
    /\ task' = [task EXCEPT ![c].report.sound = TRUE]
    /\ accepted' = [accepted EXCEPT ![c] = IF @ = "denied" THEN "none" ELSE @]
    /\ records' = [records EXCEPT ![c].sound = TRUE, ![c].acceptance = accepted'[c]]
    /\ UNCHANGED <<active, reflected, inFlight, table, writer, judged, epic, troubles, confirmed>>

\* A change of the contract stops new dispatches until it is reflected.
ChangeContract ==
    /\ Free /\ reflected /\ Trouble
    /\ reflected' = FALSE
    /\ UNCHANGED <<task, accepted, records, active, inFlight, table, writer, judged, epic, confirmed>>

Reflect ==
    /\ ~ reflected
    /\ reflected' = TRUE
    /\ UNCHANGED <<task, accepted, records, active, inFlight, table, writer, judged, epic, troubles,
                   confirmed>>

\* A Definition that children depend on is merged meanwhile.
BeginMerge ==
    /\ ~ inFlight /\ Trouble
    /\ inFlight' = TRUE
    /\ UNCHANGED <<task, accepted, records, active, reflected, table, writer, judged, epic, confirmed>>

EndMerge ==
    /\ inFlight
    /\ inFlight' = FALSE
    /\ UNCHANGED <<task, accepted, records, active, reflected, table, writer, judged, epic, troubles,
                   confirmed>>

-----------------------------------------------------------------------------
(* The tasks.                                                                  *)

Works(c) ==
    /\ task[c].alive > 0
    /\ \/ task' = [task EXCEPT ![c] = [alive |-> @.alive - 1,
                                       report |-> [outcome |-> "pass", sound |-> TRUE]]]
          /\ UNCHANGED troubles
       \/ /\ Trouble
          /\ \E report \in Reports \cup {NoReport} :
                task' = [task EXCEPT ![c] = [alive |-> @.alive - 1, report |-> report]]
    /\ UNCHANGED <<accepted, records, active, reflected, inFlight, table, writer, judged, epic, confirmed>>

-----------------------------------------------------------------------------
(* case-close.                                                                 *)

\* deriveCurrentWave: the first Wave with a row that is pending.
InCurrentWave(c) ==
    /\ table[c] = "pending"
    /\ \A x \in Children : table[x] = "pending" => Wave[c] <= Wave[x]

\* The acceptance of a child of the current Wave, independent of its report.
Judge(c) ==
    /\ InCurrentWave(c)
    /\ records[c].status = "determined" /\ records[c].outcome = "pass"
    /\ accepted[c] = "none"
    /\ \E verdict \in {"allowed", "denied"} :
          /\ IF verdict = "allowed" THEN UNCHANGED troubles ELSE Trouble
          /\ accepted' = [accepted EXCEPT ![c] = verdict]
          /\ records' = [records EXCEPT ![c].acceptance = verdict]
    /\ UNCHANGED <<task, active, reflected, inFlight, table, writer, judged, epic, confirmed>>

\* Once all children are completed the Epic itself is judged ...
JudgeEpic ==
    /\ epic = "open" /\ judged # "allowed"
    /\ \A c \in Children : table[c] = "completed"
    /\ \E verdict \in {"allowed", "denied"} :
          /\ IF verdict = "allowed" THEN UNCHANGED troubles ELSE Trouble
          /\ judged' = verdict
    /\ UNCHANGED <<task, accepted, records, active, reflected, inFlight, table, writer, epic, confirmed>>

\* ... and closed.
CloseEpic ==
    /\ epic = "open" /\ CanClose
    /\ \A c \in Children : table[c] = "completed"
    /\ epic' = "closed"
    /\ UNCHANGED <<task, accepted, records, active, reflected, inFlight, table, writer, judged, troubles, confirmed>>

-----------------------------------------------------------------------------
(* The table.                                                                  *)

\* applyClosingStatus: a row that is not pending stays as it is.
ApplyClosing(rows, c, status) ==
    IF rows[c] = "pending" THEN [rows EXCEPT ![c] = status] ELSE rows

\* Mutant of ResetToPending: no row that has an end is given back.
ResetPendingOnly(rows, c) == rows

\* resetChildToPending: completed rows stay.
ResetToPending(rows, c) == IF rows[c] = "completed" THEN rows ELSE [rows EXCEPT ![c] = "pending"]

\* Mutant of RowStatus: the outcome is written as it is.
RowOutcome(outcome) == outcome

\* The row knows fewer states than the record.
RowStatus(outcome) == IF outcome = "failed" THEN "failed" ELSE "blocked"

\* What each of the writers has to write of a child.
Due(w, c) ==
    LET r        == records[c]
        stopped  == r.status = "determined" /\ r.outcome \in Outcomes
        ofClose  == {s \in {"completed"} : table[c] = "pending" /\ CanComplete(r)}
        ofReport == {s \in {RowStatus(r.outcome)} : stopped /\ r.repair = "none" /\ table[c] = "pending"}
        ofRepair == {s \in {"pending"} : stopped /\ r.repair = "mended" /\ table[c] # "pending"}
    IN  IF w = "closing" THEN ofClose \cup ofReport ELSE IF epic = "open" THEN ofReport \cup ofRepair ELSE {}

\* runExclusive, of one process: the latest body is read and the row merged into
\* it, ...
Fetch(w) ==
    /\ writer[w] = Idle
    /\ \E c \in Children : \E status \in Due(w, c) :
          writer' = [writer EXCEPT ![w] =
                [at |-> "read", child |-> c, status |-> status,
                 body |-> IF status = "pending" THEN ResetToPending(table, c)
                          ELSE ApplyClosing(table, c, status)]]
    /\ UNCHANGED <<task, accepted, records, active, reflected, inFlight, table, judged, epic, troubles, confirmed>>

\* ... the whole body is written, or that fails, ...
Send(w) ==
    /\ writer[w].at = "read"
    /\ writer' = [writer EXCEPT ![w].at = "sent"]
    /\ \/ table' = writer[w].body /\ UNCHANGED troubles
       \/ Trouble /\ UNCHANGED table
    /\ UNCHANGED <<task, accepted, records, active, reflected, inFlight, judged, epic, confirmed>>

\* ... and read back.  What is still due is written again, from the latest body.
Verify(w) ==
    /\ writer[w].at = "sent"
    /\ writer' = [writer EXCEPT ![w] = Idle]
    /\ confirmed' = confirmed \cup {c \in {writer[w].child} :
                                        writer[w].status = "completed" /\ table[c] = "completed"}
    /\ UNCHANGED <<task, accepted, records, active, reflected, inFlight, table, judged, epic, troubles>>

-----------------------------------------------------------------------------
\* Mutant of Counted: a coordinator that starts anew counts no slots.
CountedNone(known) == {}

\* The children that take a slot when the coordinator is started anew.
Counted(known) == {c \in Children : known[c].status = "unknown"}

\* The coordinator and case-close are started anew.  What was delegated and has not
\* reported is unknown; reports, acceptances and rows are found on the Issues.
Restart ==
    /\ epic = "open" /\ Trouble
    /\ LET known == [c \in Children |->
                        IF records[c].status \in {"active", "unknown"} /\ task[c].report = NoReport
                        THEN [Unseen EXCEPT !.status = "unknown"] ELSE Ended(c)]
       IN  records' = known /\ active' = Counted(known)
    /\ writer' = [w \in Writers |-> Idle]
    /\ UNCHANGED <<task, accepted, reflected, inFlight, table, judged, epic, confirmed>>

CoordinatorStep ==
    \/ Dispatch \/ Reflect \/ EndMerge
    \/ \E c \in Children : Collect(c) \/ LoseSight(c) \/ ConfirmEnd(c) \/ Repair(c) \/ Rework(c)

CloseStep == (\E c \in Children : Judge(c)) \/ JudgeEpic \/ CloseEpic

WriteStep == \E w \in Writers : Fetch(w) \/ Send(w) \/ Verify(w)

Work == CoordinatorStep \/ (\E c \in Children : Works(c)) \/ CloseStep \/ WriteStep

Next == Work \/ ChangeContract \/ BeginMerge \/ Restart

\* As long as anything can be done, something is done.
Fairness == WF_vars(Work)

Spec == Init /\ [][Next]_vars
FairSpec == Spec /\ Fairness

-----------------------------------------------------------------------------
(* Properties.                                                                 *)

\* Every variable has its type.
TypeOK ==
    /\ task \in [Children -> [alive : Nat, report : Reports \cup {NoReport}]]
    /\ accepted \in [Children -> Verdicts]
    /\ records \in [Children -> Records]
    /\ active \in SUBSET Children
    /\ reflected \in BOOLEAN /\ inFlight \in BOOLEAN
    /\ table \in [Children -> Statuses]
    /\ writer \in [Writers -> Updates \cup {Idle}]
    /\ judged \in Verdicts /\ epic \in {"open", "closed"}
    /\ troubles \in 0..MaxTroubles
    /\ confirmed \in SUBSET Children

\* No child is worked on twice at a time, also after the coordinator lost sight of
\* a task or was started anew.
OneExecution == \A c \in Children : task[c].alive <= 1

\* What the orchestration promises of the children (EpicContract).
Contract ==
    INSTANCE EpicContract WITH
        phase <- [c \in Children |-> IF task[c].alive > 0 THEN "running"
                                     ELSE IF accepted[c] = "allowed" THEN "accepted" ELSE "open"]
KeepsContract == Contract!Spec

\* A completion that was read back from the table stays there, whatever the other
\* writer writes: the two are said to exclude each other also between processes
\* (epic-reflect-coordination.md:53).
CompletionsKept == \A c \in confirmed : table[c] = "completed"

\* A child is completed in the table only if it was accepted, and its row is not
\* given back to a task.
CompletedIsAccepted ==
    \A c \in Children : table[c] = "completed" => accepted[c] = "allowed" /\ task[c].alive = 0

\* A child has ended with success under a row that says it was kept from it.
Misread(c) ==
    /\ table[c] \in {"blocked", "failed"}
    /\ records[c].status = "determined" /\ records[c].outcome = "pass"

\* However often something goes wrong, the Epic is closed in the end, unless the
\* old body of a writer has given such a child its old row back: neither of them
\* writes that row again.
EpicClosesInTheEnd == <>(epic = "closed") \/ <>[](\E c \in Children : Misread(c))
=============================================================================
