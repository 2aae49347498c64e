----------------------------- MODULE CaseClose ------------------------------
(* How a case is closed.  The mechanical steps (close_mechanical_steps.ts)     *)
(* judge the case for the revision of the Issue that the workflow has read:    *)
(* they write a refusing acceptance record first, check, and write the         *)
(* accepting record last.  The workflow then records what was done on the      *)
(* Issue, calls issue_close, and has the mechanical steps clean up.  The       *)
(* machine is a process of its own: it may stop anywhere.  Other sessions call *)
(* the tool meanwhile.                                                         *)
EXTENDS IssueTool, Sequences

CONSTANTS
    Closer,       \* the session that closes the case, Issue 1
    MaxAttempts,  \* polls of the pull request
    Shaky,        \* what the checks may find, as pairs of a check and a verdict
    MaxTroubles,  \* bound: how often something is found
    QuietTime     \* bound: the others call the tool before this time

ASSUME CaseCloseAssumption ==
    Closer \in Sessions /\ MaxAttempts \in Nat \ {0} /\ MaxTroubles \in Nat /\ QuietTime \in Nat

VARIABLES
    flow,      \* where the workflow and its machine are
    trouble,   \* what one of the checks would find, or NoTrouble
    troubles,  \* how often there was something
    recorded,  \* what the workflow has recorded on the Issue
    worktree, branch,  \* are they there?
    latest,    \* history: what the last record written for the Issue said
    judged     \* history: the Issues that were accepted, as the workflow read them

flowVars == <<flow, trouble, troubles, recorded, worktree, branch, latest, judged>>
vars == <<toolVars, flowVars>>

Case == 1

\* The checks in their order, and what each can find apart from "pass".
Checks == <<"gate-availability", "mergeable-polling", "pre-merge-local-state-check",
            "acceptance-evaluation", "verification-resource-reconciliation",
            "contract-state-residue-check", "deletion-confirmation-check",
            "autogen-regeneration-diff", "traceability-check", "full-integrity-suite",
            "textlint-final-check", "epic-table-analysis">>
Verdicts(check) ==
    CASE check = "mergeable-polling"         -> {"gh-error", "unknown", "conflicting"}
      [] check = "acceptance-evaluation"     -> {"fail", "undetermined"}
      [] check = "autogen-regeneration-diff" -> {"warn", "fail"}
      [] check = "epic-table-analysis"       -> {"warn"}
      [] OTHER                               -> {"fail"}
NoTrouble == [check |-> "none", verdict |-> "pass"]
Troubles ==
    {[check |-> t[1], verdict |-> t[2]] : t \in {x \in Shaky : x[2] \in Verdicts(x[1])}}

Places == {"begin", "refuse", "check", "assemble", "accept", "unaccept", "record", "close",
           "reclaim", "remove-worktree", "remove-branch", "ended"}
Running == {"refuse", "check", "assemble", "accept", "unaccept"}

\* step counts the checks done, attempts the polls; worst is the worst status of
\* the report; allowed is what the acceptance evaluation says, in the cleanup
\* whether the worktree is as it should be.
FlowTypes == [at : Places, revision : Times, text : Times, step : 0..Len(Checks),
              attempts : 0..MaxAttempts, worst : {"pass", "warn", "fail"},
              allowed : BOOLEAN]
AtBegin == [at |-> "begin", revision |-> 0, text |-> 0, step |-> 0, attempts |-> 0,
            worst |-> "pass", allowed |-> FALSE]

Init ==
    /\ ToolInit
    /\ flow = AtBegin
    /\ trouble = NoTrouble /\ troubles = 0
    /\ recorded = {}
    /\ worktree = TRUE /\ branch = TRUE
    /\ latest = "none" /\ judged = {}

-----------------------------------------------------------------------------
(* The acceptance record.                                                      *)

RecordFor(accepted) == [state |-> "whole", revision |-> flow.revision, accepted |-> accepted]

\* Mutant of WriteOutcomes: a record that could not be written passes for written.
WriteOutcomesUnchecked(accepted) ==
    {[file |-> RecordFor(accepted), written |-> TRUE, fault |-> 0]}
      \cup {[file |-> f, written |-> TRUE, fault |-> 1] : f \in {record[Case], Damaged}}

\* writeCloseAcceptanceRecord writes in place.  When that fails the file is as it
\* was or torn; an old record is then removed if the new one would refuse, unless
\* that fails, too.
WriteOutcomes(accepted) ==
    {[file |-> RecordFor(accepted), written |-> TRUE, fault |-> 0]}
      \cup {[file |-> f, written |-> FALSE, fault |-> 1] :
                f \in {record[Case], Damaged} \cup (IF accepted THEN {} ELSE {Missing})}

WriteRecord(w) ==
    /\ faults + w.fault <= MaxFaults
    /\ faults' = faults + w.fault
    /\ record' = [record EXCEPT ![Case] = w.file]
    /\ UNCHANGED <<backend, issues, tmp, op, now, named, closings, reset>>

-----------------------------------------------------------------------------
(* The workflow reads the Issue and starts the machine.                        *)

Prepare ==
    /\ flow.at = "begin" /\ op[Closer] = Idle
    /\ issues[Case].state = "open"
    /\ flow' = [AtBegin EXCEPT !.at = "refuse", !.revision = issues[Case].revision,
                               !.text = issues[Case].text]
    /\ UNCHANGED <<toolVars, trouble, troubles, recorded, worktree, branch, latest, judged>>

\* A case that is closed already is not closed again.
Resume ==
    /\ flow.at = "begin" /\ op[Closer] = Idle
    /\ issues[Case].state = "closed"
    /\ flow' = [AtBegin EXCEPT !.at = "reclaim"]
    /\ UNCHANGED <<toolVars, trouble, troubles, recorded, worktree, branch, latest, judged>>

RefuseFirst ==
    /\ flow.at = "refuse"
    /\ \E w \in WriteOutcomes(FALSE) :
        /\ WriteRecord(w)
        /\ flow' = [flow EXCEPT !.at = "check", !.worst = IF w.written THEN "pass" ELSE "fail"]
        /\ latest' = IF w.written THEN "refused" ELSE latest
    /\ UNCHANGED <<trouble, troubles, recorded, worktree, branch, judged>>

NextCheck == Checks[flow.step + 1]
Seen == IF trouble.check = NextCheck THEN trouble.verdict ELSE "pass"

\* assembleReport: a failure outweighs a warning.
Worse(status) ==
    IF "fail" \in {flow.worst, status} THEN "fail"
    ELSE IF "warn" \in {flow.worst, status} THEN "warn" ELSE "pass"

\* The status of the step, and whether the report is assembled at once.
CheckDone(status, early) ==
    flow' = [flow EXCEPT !.worst = Worse(status), !.step = @ + 1,
                         !.at = IF early \/ flow.step + 1 = Len(Checks) THEN "assemble" ELSE "check",
                         !.allowed = IF NextCheck = "acceptance-evaluation" THEN Seen = "pass" ELSE @]

\* A gate that is not installed ends the run.
CheckAvailability ==
    /\ flow.at = "check" /\ NextCheck = "gate-availability"
    /\ CheckDone(Seen, Seen = "fail")
    /\ UNCHANGED <<toolVars, trouble, troubles, recorded, worktree, branch, latest, judged>>

\* Mutant of PollsLeft: one poll too many.
OnePollMore == flow.attempts <= MaxAttempts

PollsLeft == flow.attempts < MaxAttempts

\* The pull request is asked for until it is known whether it can be merged.
Poll ==
    /\ flow.at = "check" /\ NextCheck = "mergeable-polling"
    /\ CASE Seen = "unknown" /\ PollsLeft ->
                flow' = [flow EXCEPT !.attempts = @ + 1]
         [] Seen = "gh-error" /\ PollsLeft -> CheckDone("fail", TRUE)
         [] Seen = "pass" /\ PollsLeft -> CheckDone("pass", FALSE)
         [] OTHER -> CheckDone("warn", FALSE)
    /\ UNCHANGED <<toolVars, trouble, troubles, recorded, worktree, branch, latest, judged>>

\* An acceptance evaluation without verdicts is no step of the report.
Check ==
    /\ flow.at = "check" /\ NextCheck \notin {"gate-availability", "mergeable-polling"}
    /\ CheckDone(IF Seen = "undetermined" THEN "pass" ELSE Seen, FALSE)
    /\ UNCHANGED <<toolVars, trouble, troubles, recorded, worktree, branch, latest, judged>>

\* Mutant of Ready: attempts are counted from one.
ReadyCountedFromOne == flow.worst = "pass" /\ flow.allowed /\ flow.attempts > 0

\* isCloseAcceptanceReady.
Ready == flow.worst = "pass" /\ flow.allowed

Assemble ==
    /\ flow.at = "assemble"
    /\ flow' = IF Ready THEN [flow EXCEPT !.at = "accept"] ELSE AtBegin
    /\ UNCHANGED <<toolVars, trouble, troubles, recorded, worktree, branch, latest, judged>>

\* Mutant of Permitted: the report permits the close whatever became of the record.
PermittedAnyhow(w) == Ready

\* isCloseOperationPermitted, once the machine is ready to accept.
Permitted(w) == Ready /\ w.written

Accept ==
    /\ flow.at = "accept"
    /\ \E w \in WriteOutcomes(TRUE) :
        /\ WriteRecord(w)
        /\ flow' = IF Permitted(w) THEN [flow EXCEPT !.at = "record"]
                   ELSE [flow EXCEPT !.at = "unaccept"]
        /\ latest' = IF w.written THEN "accepted" ELSE latest
        /\ judged' = IF w.written THEN judged \cup {[text |-> flow.text, revision |-> flow.revision]}
                     ELSE judged
    /\ UNCHANGED <<trouble, troubles, recorded, worktree, branch>>

Unaccept ==
    /\ flow.at = "unaccept"
    /\ \E w \in WriteOutcomes(FALSE) :
        /\ WriteRecord(w)
        /\ latest' = IF w.written THEN "refused" ELSE latest
    /\ flow' = AtBegin
    /\ UNCHANGED <<trouble, troubles, recorded, worktree, branch, judged>>

-----------------------------------------------------------------------------
(* The workflow records and closes.                                            *)

Notes == <<"update", "comment">>
RecordWork ==
    /\ flow.at = "record"
    /\ \E i \in DOMAIN Notes :
        /\ recorded = {Notes[j] : j \in 1..(i - 1)}
        /\ Request(Closer, Notes[i], Case, 0,
                   IF Notes[i] = "update" THEN Reworded(issues[Case])
                   ELSE Changed(Notes[i], issues[Case], 0))
        /\ recorded' = IF backend = "github" THEN recorded \cup {Notes[i]} ELSE recorded
    /\ UNCHANGED <<flow, trouble, troubles, worktree, branch, latest, judged>>

AllRecorded == recorded = {"update", "comment"}

CloseCase ==
    /\ flow.at = "record" /\ AllRecorded
    /\ CheckClose(Closer, Case)
    /\ flow' = [flow EXCEPT !.at = "close"]
    /\ UNCHANGED <<trouble, troubles, recorded, worktree, branch, latest, judged>>

\* issue_close refuses in its precondition: the case is judged again.
CloseRefused ==
    /\ flow.at = "record" /\ AllRecorded /\ op[Closer] = Idle
    /\ ~ (Whole(issues[Case]) /\ MayClose(Case))
    /\ flow' = AtBegin
    /\ UNCHANGED <<toolVars, trouble, troubles, recorded, worktree, branch, latest, judged>>

\* The close has returned, or its process was killed.
Closes ==
    /\ flow.at = "close" /\ op[Closer] = Idle
    /\ flow' = AtBegin
    /\ UNCHANGED <<toolVars, trouble, troubles, recorded, worktree, branch, latest, judged>>

-----------------------------------------------------------------------------
(* After the close: the post-merge steps of the machine.                       *)

\* runReclamation, if it is asked for.  Without deleteFile, which the runner of the
\* command line does not have, it fails; otherwise the record goes, whatever the
\* reclamation of the ledger says.
Reclaim ==
    /\ flow.at = "reclaim"
    /\ \E status \in {"pass", "warn", "fail"}, file \in {record[Case], Missing} :
        /\ record' = [record EXCEPT ![Case] = file]
        /\ flow' = [flow EXCEPT !.at = "remove-worktree", !.worst = Worse(status)]
    /\ UNCHANGED <<backend, issues, tmp, op, now, faults, named, closings, reset,
                   trouble, troubles, recorded, worktree, branch, latest, judged>>

\* The worktree is removed whether or not that was asked for; git may refuse.
RemoveWorktree ==
    /\ flow.at = "remove-worktree"
    /\ \E removed, asked \in BOOLEAN :
        /\ removed => worktree
        /\ worktree' = (worktree /\ ~ removed)
        /\ flow' = [flow EXCEPT !.at = "remove-branch", !.allowed = asked => removed]
    /\ UNCHANGED <<toolVars, trouble, troubles, recorded, branch, latest, judged>>

\* refused: the removal of the branch was asked for, and git did not do it.
CleanupOk(listed, refused) == flow.allowed /\ ~ refused /\ ~ listed

\* Then the branch is listed; when that fails, nothing is, and it passes for gone.
RemoveBranch ==
    /\ flow.at = "remove-branch"
    /\ \E removed, refused, seen \in BOOLEAN :
        /\ removed => branch /\ ~ refused
        /\ branch' = (branch /\ ~ removed)
        /\ flow' = [flow EXCEPT !.at = "ended", !.allowed = FALSE,
                                !.worst = Worse(IF CleanupOk(branch' /\ seen, refused)
                                                THEN "pass" ELSE "warn")]
    /\ UNCHANGED <<toolVars, trouble, troubles, recorded, worktree, latest, judged>>

CleanUpAgain ==
    /\ flow.at = "ended" /\ flow.worst # "pass"
    /\ flow' = [AtBegin EXCEPT !.at = "reclaim"]
    /\ UNCHANGED <<toolVars, trouble, troubles, recorded, worktree, branch, latest, judged>>

-----------------------------------------------------------------------------
(* Everything else.                                                            *)

\* The machine stops, by an error or because it is killed.
MachineStops ==
    /\ flow.at \in Running \cup {"reclaim", "remove-worktree", "remove-branch"}
    /\ faults < MaxFaults
    /\ faults' = faults + 1
    /\ flow' = AtBegin
    /\ record' \in {record} \cup (IF flow.at \in {"refuse", "accept", "unaccept"}
                                  THEN {[record EXCEPT ![Case] = Damaged]} ELSE {})
    /\ UNCHANGED <<backend, issues, tmp, op, now, named, closings, reset,
                   trouble, troubles, recorded, worktree, branch, latest, judged>>

\* What the checks look at changes: gates, the pull request, worktrees, resources.
\* Whenever that happens, the check that looks at it is the first to tell.
World ==
    /\ flow.at = "check"
    /\ \/ trouble.check = NextCheck /\ trouble' = NoTrouble /\ UNCHANGED troubles
       \/ /\ trouble = NoTrouble /\ troubles < MaxTroubles
          /\ trouble' \in {t \in Troubles : t.check = NextCheck}
          /\ troubles' = troubles + 1
    /\ UNCHANGED <<toolVars, flow, recorded, worktree, branch, latest, judged>>

\* The workflow's own call goes on; what it has written is on the Issue.
CloserProceeds ==
    /\ Proceed(Closer)
    /\ recorded' = recorded \cup ({op'[Closer].kind : x \in {o \in {op'[Closer]} : o.at = "applied"}}
                                    \cap {"update", "comment"})
    /\ UNCHANGED <<flow, trouble, troubles, worktree, branch, latest, judged>>

CloserFails ==
    /\ Fault(Closer)
    /\ flow' = AtBegin
    /\ UNCHANGED <<trouble, troubles, recorded, worktree, branch, latest, judged>>

OtherMakes(s) == now < QuietTime /\ Make(s) /\ UNCHANGED flowVars
OtherProceeds(s) == Proceed(s) /\ UNCHANGED flowVars
OtherFails(s) == Fault(s) /\ UNCHANGED flowVars

Machine ==
    \/ RefuseFirst \/ CheckAvailability \/ Poll \/ Check \/ Assemble \/ Accept \/ Unaccept
    \/ Reclaim \/ RemoveWorktree \/ RemoveBranch

Workflow ==
    \/ Prepare \/ Resume \/ RecordWork \/ CloseCase \/ CloseRefused \/ Closes \/ CleanUpAgain
    \/ CloserProceeds

Next ==
    \/ Machine \/ Workflow \/ MachineStops \/ CloserFails \/ World
    \/ \E s \in Sessions \ {Closer} : OtherMakes(s) \/ OtherProceeds(s) \/ OtherFails(s)

\* The machine and the workflow go on, and a call of the tool comes to its end.
Fairness ==
    /\ WF_vars(Machine) /\ WF_vars(Workflow)
    /\ \A s \in Sessions \ {Closer} : WF_vars(OtherProceeds(s))

Spec == Init /\ [][Next]_vars
FairSpec == Spec /\ Fairness

-----------------------------------------------------------------------------
(* Properties.                                                                 *)

Files(S) == S \cup {Missing, Damaged}

\* Every variable has its type.
TypeOK ==
    /\ backend \in Backends
    /\ issues \in [Numbers -> Files(Issues)]
    /\ tmp \in [Numbers -> Files(Issues)]
    /\ record \in [Numbers -> Files(Records)]
    /\ now \in Times /\ faults \in 0..MaxFaults
    /\ flow \in FlowTypes
    /\ troubles \in 0..MaxTroubles /\ trouble \in {NoTrouble} \cup Troubles
    /\ recorded \in SUBSET {"update", "comment"}
    /\ worktree \in BOOLEAN /\ branch \in BOOLEAN
    /\ latest \in {"none", "refused", "accepted"}

\* No reader ever finds a part of an issue, whenever a writer is killed
\* (runner-local.ts:511: the write is atomic).
IssueWhole == \A n \in Numbers : issues[n] # Damaged

\* A comment whose posting was confirmed stays on the Issue until a call deletes it,
\* whatever other calls and kills follow.
CommentsKept ==
    \A c \in named : c.kept =>
        /\ Whole(issues[c.number])
        /\ [seq |-> c.seq, posted |-> c.posted] \in issues[c.number].comments

\* The comments on an issue have different ids, whatever title updates, deletions and
\* kills came between their postings: an id names one of them.
CommentIdsDistinct ==
    \A n \in Numbers : Whole(issues[n]) =>
        \A c, d \in issues[n].comments : c.seq = d.seq => c = d

\* An id that was reported for a comment is never given to another one, also after
\* the comment was deleted (local/case-schema/case-file.md:33).
IdsNameOneComment ==
    \A c, d \in named : c.number = d.number /\ c.seq = d.seq => c.posted = d.posted

\* A case Issue is closed only as it was when the machine accepted it: whoever calls
\* issue_close, at whatever time, decides on the text and the revision that a run
\* of the machine accepted.
ClosedAsAccepted ==
    \A c \in closings : c.role = "case" =>
        c.number = Case /\ [text |-> c.text, revision |-> c.revision] \in judged

\* Once a run has written its refusal, no record accepts until a run accepts: not
\* when the run stops, or when writing the accepting record fails.
LatestDecides == latest = "refused" => ~ (record[Case].state = "whole" /\ record[Case].accepted)

\* While the workflow goes by a report that permits the close, the record accepts
\* the revision that was judged.
PermittedIsOnRecord ==
    flow.at = "record" => record[Case] = RecordFor(TRUE)

\* What the close of a case promises (CaseContract): the Issue is closed, and worktree
\* and branch are removed, only after issue_close has decided on a version that a run of
\* the machine accepted, whichever session calls it, whatever its files and records were
\* left as, and however often any of it is done again -- or after an issue_update, which
\* asks for no acceptance, has set the state or the role of the Issue.
Contract ==
    INSTANCE CaseContract WITH
        Versions <- [text : Times, revision : Times],
        accepted <- judged,
        decided <- {[text |-> c.text, revision |-> c.revision] :
                       c \in {x \in closings : x.number = Case /\ x.role = "case"}},
        reset <- Case \in reset,
        issue <- IF issues[Case].state = "closed" THEN "closed" ELSE "open",
        work <- {part \in {"worktree", "branch"} : IF part = "worktree" THEN worktree ELSE branch}
KeepsCaseContract == Contract!Spec

\* If what the checks look at is in order at last, the case is closed, however often
\* the machine, the workflow and the tool were interrupted before.
ClosesInTheEnd == <>[](trouble = NoTrouble) => <>(issues[Case].state = "closed")

\* A workflow that may close by its report, and has recorded its work as it is told
\* to, is not refused by issue_close, if no one else has touched the Issue
\* (references/cleanup-and-capture.md:40-44).
PermittedIsNotRefused ==
    flow.at = "record" /\ AllRecorded /\ op[Closer] = Idle => MayClose(Case)

=============================================================================
