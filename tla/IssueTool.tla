----------------------------- MODULE IssueTool ------------------------------
(* The issue operations of the agentdev_gh tool (engine.ts, specs-issue.ts),   *)
(* on GitHub (runner-cli.ts), which changes one field of an issue in one       *)
(* request, and on the files of the local backend (local/runner-local.ts),     *)
(* which reads a file, computes the whole next content, writes it to a         *)
(* temporary file and renames it.  issue_close of a case Issue reads the       *)
(* acceptance record of the Issue first, twice: in its precondition and in the *)
(* runner (close-acceptance.ts).                                               *)
(* issue_update takes a title, labels, or a text; the text of a local issue is *)
(* its whole file, so it says state and role, too, and labels make an issue of *)
(* GitHub a tracking one.                                                      *)
(*                                                                             *)
(* A time stands for a revision (updated_at) and for what was written then: a  *)
(* text is the time it was written at, a comment the time it was posted at.    *)
(* The text is what an issue says apart from its comments and, in a local      *)
(* file, the sections of its pull request.                                     *)
EXTENDS Naturals, FiniteSets, FiniteSetsExt

CONSTANTS
    Sessions,   \* processes that call the tool
    Backends,   \* the backends a project may have: "github", "local"
    MaxIssue,   \* bound: issues of the project
    MaxTime,    \* bound: changes of issues
    MaxFaults,  \* bound: processes killed and writes that fail
    Overlap,    \* may two updates of the local backend overlap?
    Careful     \* do callers renew updated_at when they replace a local issue?

ASSUME IssueToolAssumption ==
    /\ Backends \subseteq {"github", "local"}
    /\ MaxIssue \in Nat \ {0} /\ MaxTime \in Nat /\ MaxFaults \in Nat
    /\ Overlap \in BOOLEAN /\ Careful \in BOOLEAN

VARIABLES
    backend,  \* the project's backend
    issues,   \* number -> what a reader finds there
    tmp,      \* number -> what is in the local backend's temporary file
    record,   \* number -> what is in the file of the acceptance record
    op,       \* session -> its call
    now,      \* the time of the last change
    faults,   \* how many faults happened
    named,    \* history: the comments a call was confirmed for
    closings, \* history: the Issues that calls decided to close, as read
    reset     \* history: the Issues whose state or role an issue_update has set

toolVars == <<backend, issues, tmp, record, op, now, faults, named, closings, reset>>

Numbers == 1..MaxIssue
Times == 0..MaxTime
Missing == [state |-> "missing"]
Damaged == [state |-> "damaged"]
Kinds == {"create", "update", "comment", "edit-comment", "delete-comment", "close", "reopen"}

Comments == [seq : Nat, posted : Times]
Issues == [state : {"open", "closed"}, role : {"case", "tracking"}, text : Times,
           revision : Times, comments : SUBSET Comments, high : Nat]
Records == [state : {"whole"}, revision : Times, accepted : BOOLEAN]
Idle == [at |-> "idle"]
Calls == [at : {"checked", "decided", "read", "truncated", "filled", "applied"},
          kind : Kinds, number : Numbers, next : Issues, seq : Nat]

Whole(file) == file.state \notin {"missing", "damaged"}
Later == now + 1
Tick == now < MaxTime /\ now' = Later

NewIssue(role) ==
    [state |-> "open", role |-> role, text |-> Later, revision |-> Later,
     comments |-> {}, high |-> 0]

ToolInit ==
    /\ backend \in Backends
    /\ issues = [n \in Numbers |->
                    IF n = 1 THEN [state |-> "open", role |-> "case", text |-> 0, revision |-> 0,
                                   comments |-> {}, high |-> 0]
                    ELSE Missing]
    /\ tmp = [n \in Numbers |-> Missing]
    /\ record = [n \in Numbers |-> Missing]
    /\ op = [s \in Sessions |-> Idle]
    /\ now = 0 /\ faults = 0
    /\ named = {} /\ closings = {} /\ reset = {}

-----------------------------------------------------------------------------
(* What the operations make of an issue at the next time.                      *)

\* Mutant of HighWater: only the front matter is asked.
HighMarkAlone(issue) == issue.high

\* migrateComments: the highest number of a comment, as far as the file tells.
HighWater(issue) == Max({issue.high} \cup {c.seq : c \in issue.comments})

\* The caller of issue_update gives the whole new file of a local issue, made from
\* what it has read; to renew updated_at is up to it.
Renewals(issue) ==
    {Later} \cup (IF backend = "local" /\ ~ Careful THEN {issue.revision} ELSE {})

\* Mutant of Reworded: the file is written from the new text alone.
RewordedAnew(issue) ==
    {[issue EXCEPT !.text = Later, !.revision = r, !.comments = {}] : r \in Renewals(issue)}

\* issue_update with a new text that says of state and role what was there.
Reworded(issue) == {[issue EXCEPT !.text = Later, !.revision = r] : r \in Renewals(issue)}

\* ... with a text or with labels that say something else ...
Saying(issue, state, role) == [issue EXCEPT !.state = state, !.role = role]
Reset(issue) ==
    IF backend = "github" THEN {Saying(i, i.state, "tracking") : i \in Reworded(issue)}
    ELSE {Saying(i, state, role) :
             i \in Reworded(issue), state \in {"open", "closed"}, role \in {"case", "tracking"}}

\* ... with a title or labels: the local front matter is made anew, without comment_seq.
Retitled(issue) ==
    {[issue EXCEPT !.text = Later, !.revision = Later,
                   !.high = IF backend = "github" THEN @ ELSE 0]}

Commented(issue) ==
    [issue EXCEPT !.comments = @ \cup {[seq |-> HighWater(issue) + 1, posted |-> Later]},
                  !.high = HighWater(issue) + 1, !.revision = Later]

CommentEdited(issue) == [issue EXCEPT !.high = HighWater(issue), !.revision = Later]

CommentDeleted(issue, seq) ==
    [issue EXCEPT !.comments = {c \in @ : c.seq # seq}, !.high = HighWater(issue),
                  !.revision = Later]

Closed(issue) == [issue EXCEPT !.state = "closed", !.revision = Later]
Reopened(issue) == [issue EXCEPT !.state = "open", !.revision = Later]

\* What a call of this kind may make of the issue; seq is the comment it names.
Changed(kind, issue, seq) ==
    CASE kind = "update"         -> Reworded(issue) \cup Reset(issue) \cup Retitled(issue)
      [] kind = "comment"        -> {Commented(issue)}
      [] kind = "edit-comment"   -> {CommentEdited(issue)}
      [] kind = "delete-comment" -> {CommentDeleted(issue, seq)}
      [] kind = "close"          -> {Closed(issue)}
      [] kind = "reopen"         -> {Reopened(issue)}

\* Is the call one that the backend executes?
Permits(kind, issue, seq) ==
    CASE kind \in {"edit-comment", "delete-comment"} -> \E c \in issue.comments : c.seq = seq
      [] kind = "reopen" -> /\ seq = 0 /\ issue.state = "closed"
                            /\ backend = "github" \/ issue.role = "tracking"
      [] OTHER -> seq = 0 /\ kind \in {"update", "comment"}

-----------------------------------------------------------------------------
(* The acceptance record.                                                      *)

\* Mutant of Accepts: any revision is accepted.
AcceptsAnyRevision(n, revision) == record[n].state = "whole" /\ record[n].accepted

\* verifyCloseAcceptanceForClose.
Accepts(n, revision) ==
    /\ record[n].state = "whole"
    /\ record[n].revision = revision
    /\ record[n].accepted

MayClose(n) == issues[n].role = "case" => Accepts(n, issues[n].revision)

-----------------------------------------------------------------------------
(* The calls.                                                                  *)

\* One call after another on the local backend, from what the caller reads to what
\* the tool reads back, unless calls may overlap.
Alone(s) == backend = "local" /\ ~ Overlap => \A other \in Sessions \ {s} : op[other] = Idle

Call(at, kind, n, next, seq) ==
    [at |-> at, kind |-> kind, number |-> n, next |-> next, seq |-> seq]

\* The comment that a call has posted, or the one it names.
SeqOf(kind, next, seq) == IF kind = "comment" THEN next.high ELSE seq

\* A call that is not confirmed for these comments any more.
Unnamed(n, seq) == {c \in named : c.number # n \/ c.seq # seq \/ ~ c.kept}
Named(n, kind, seq) ==
    IF kind # "delete-comment" THEN named
    ELSE Unnamed(n, seq) \cup {[c EXCEPT !.kept = FALSE] : c \in named \ Unnamed(n, seq)}

\* The Issue, if issue_update sets its state or role to something else.
ResetBy(kind, n, next) ==
    {m \in {n} : kind = "update" /\ (next.state # issues[n].state \/ next.role # issues[n].role)}

\* An issue is changed: on GitHub at once, in a file when it is renamed.
Change(s, kind, n, seq, next) ==
    /\ Tick
    /\ op' = [op EXCEPT ![s] = Call(IF backend = "github" THEN "applied" ELSE "read",
                                    kind, n, next, SeqOf(kind, next, seq))]
    /\ issues' = IF backend = "github" THEN [issues EXCEPT ![n] = next] ELSE issues
    /\ named' = Named(n, kind, seq)
    /\ reset' = reset \cup ResetBy(kind, n, next)

\* issue_update, comment_create, comment_update, comment_delete, issue_reopen.
Request(s, kind, n, seq, nexts) ==
    /\ op[s] = Idle /\ Alone(s)
    /\ Whole(issues[n]) /\ Permits(kind, issues[n], seq)
    /\ \E next \in nexts : Change(s, kind, n, seq, next)
    /\ UNCHANGED <<backend, tmp, record, faults, closings>>

\* nextIssueNumber: one more than the largest number there is.
NextNumber == 1 + Max({0} \cup {n \in Numbers : issues[n] # Missing})

Create(s, role) ==
    /\ op[s] = Idle /\ Alone(s)
    /\ NextNumber \in Numbers
    /\ Tick
    /\ op' = [op EXCEPT ![s] = Call(IF backend = "github" THEN "applied" ELSE "read",
                                    "create", NextNumber, NewIssue(role), 0)]
    /\ issues' = IF backend = "github" THEN [issues EXCEPT ![NextNumber] = NewIssue(role)]
                 ELSE issues
    /\ UNCHANGED <<backend, tmp, record, faults, named, closings, reset>>

\* issue_close: the precondition of the operation ...
CheckClose(s, n) ==
    /\ op[s] = Idle /\ Alone(s)
    /\ Whole(issues[n]) /\ MayClose(n)
    /\ op' = [op EXCEPT ![s] = Call("checked", "close", n, issues[n], 0)]
    /\ UNCHANGED <<backend, issues, tmp, record, now, faults, named, closings, reset>>

\* Mutant of RunnerVerifies: the runner relies on the precondition.
RunnerTrusts(n) == Whole(issues[n])

\* ... and the runner, which reads Issue and record again and goes on or refuses.
RunnerVerifies(n) == Whole(issues[n]) /\ MayClose(n)

AsRead(n) == [number |-> n, role |-> issues[n].role, text |-> issues[n].text,
              revision |-> issues[n].revision]

Decide(s) ==
    LET n == op[s].number
    IN  /\ op[s].at = "checked" /\ RunnerVerifies(n)
        /\ now < MaxTime
        /\ now' = IF backend = "github" THEN now ELSE Later
        /\ op' = [op EXCEPT ![s] = Call(IF backend = "github" THEN "decided" ELSE "read",
                                        "close", n, Closed(issues[n]), 0)]
        /\ closings' = closings \cup {AsRead(n)}
        /\ UNCHANGED <<backend, issues, tmp, record, faults, named, reset>>

Refuse(s) ==
    /\ op[s].at = "checked" /\ ~ RunnerVerifies(op[s].number)
    /\ op' = [op EXCEPT ![s] = Idle]
    /\ UNCHANGED <<backend, issues, tmp, record, now, faults, named, closings, reset>>

\* The request that closes an issue on GitHub changes nothing but its state.
Patch(s) ==
    LET n == op[s].number
    IN  /\ op[s].at = "decided"
        /\ Tick
        /\ issues' = [issues EXCEPT ![n] = Closed(@)]
        /\ op' = [op EXCEPT ![s].at = "applied"]
        /\ UNCHANGED <<backend, tmp, record, faults, named, closings, reset>>

-----------------------------------------------------------------------------
(* writeIssue: the temporary file is emptied, filled and renamed.              *)

\* Mutant of Truncate: the issue is written in place.
TruncateTarget(s) ==
    /\ op[s].at = "read"
    /\ issues' = [issues EXCEPT ![op[s].number] = Damaged]
    /\ op' = [op EXCEPT ![s].at = "truncated"]
    /\ UNCHANGED <<backend, tmp, record, now, faults, named, closings, reset>>

Truncate(s) ==
    /\ op[s].at = "read"
    /\ tmp' = [tmp EXCEPT ![op[s].number] = Damaged]
    /\ op' = [op EXCEPT ![s].at = "truncated"]
    /\ UNCHANGED <<backend, issues, record, now, faults, named, closings, reset>>

Fill(s) ==
    /\ op[s].at = "truncated"
    /\ tmp' = [tmp EXCEPT ![op[s].number] = op[s].next]
    /\ op' = [op EXCEPT ![s].at = "filled"]
    /\ UNCHANGED <<backend, issues, record, now, faults, named, closings, reset>>

\* The rename fails when another call has renamed the file.
Rename(s) ==
    LET n == op[s].number
    IN  /\ op[s].at = "filled"
        /\ issues' = IF tmp[n] = Missing THEN issues ELSE [issues EXCEPT ![n] = tmp[n]]
        /\ tmp' = [tmp EXCEPT ![n] = Missing]
        /\ op' = [op EXCEPT ![s] = IF tmp[n] = Missing THEN Idle ELSE [@ EXCEPT !.at = "applied"]]
        /\ UNCHANGED <<backend, record, now, faults, named, closings, reset>>

\* renameReplacingFile gives up; the temporary file is removed.
RenameFails(s) ==
    /\ op[s].at = "filled"
    /\ faults < MaxFaults
    /\ faults' = faults + 1
    /\ tmp' = [tmp EXCEPT ![op[s].number] = Missing]
    /\ op' = [op EXCEPT ![s] = Idle]
    /\ UNCHANGED <<backend, issues, record, now, named, closings, reset>>

Write(s) == Truncate(s) \/ Fill(s) \/ Rename(s)

-----------------------------------------------------------------------------
\* executeOperation reads the result back; a comment is reported when it is there.
Confirm(s) ==
    LET n == op[s].number
    IN  /\ op[s].at = "applied"
        /\ op' = [op EXCEPT ![s] = Idle]
        /\ named' = named \cup
               (IF op[s].kind = "comment" /\ Whole(issues[n])
                THEN {[number |-> n, seq |-> c.seq, posted |-> c.posted, kept |-> TRUE] :
                         c \in {x \in issues[n].comments : x.seq = op[s].seq}}
                ELSE {})
        /\ UNCHANGED <<backend, issues, tmp, record, now, faults, closings, reset>>

\* The process that executes a call is killed.
Crash(s) ==
    /\ op[s] # Idle
    /\ faults < MaxFaults
    /\ faults' = faults + 1
    /\ op' = [op EXCEPT ![s] = Idle]
    /\ UNCHANGED <<backend, issues, tmp, record, now, named, closings, reset>>

\* What a session does with the call it has made, and what may befall it.
Proceed(s) == Decide(s) \/ Refuse(s) \/ Patch(s) \/ Write(s) \/ Confirm(s)
Fault(s) == RenameFails(s) \/ Crash(s)

\* The calls a session may make.
Make(s) ==
    \/ \E n \in Numbers, kind \in Kinds \ {"create", "close"} :
         \E seq \in {0} \cup {c.seq : c \in IF Whole(issues[n]) THEN issues[n].comments ELSE {}} :
             Request(s, kind, n, seq, Changed(kind, issues[n], seq))
    \/ \E role \in {"case", "tracking"} : Create(s, role)
    \/ \E n \in Numbers : CheckClose(s, n)

=============================================================================
