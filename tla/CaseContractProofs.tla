-------------------------- MODULE CaseContractProofs --------------------------
(* CaseClose keeps CaseContract, if callers renew the revision of an Issue     *)
(* with its text: for any number of sessions, issues, changes, kills and       *)
(* troubles, and whether or not calls overlap.                                 *)
EXTENDS CaseCloseProofs

-----------------------------------------------------------------------------
(* Nothing is closed, and nothing removed, before a close was decided, or an   *)
(* update has set the state or the role of the Issue.                          *)

\* The closes of the case that were decided.
Decided == {c \in closings : c.number = Case /\ c.role = "case"}

Justified == Decided # {} \/ Case \in reset

\* A file of the case's Issue that says closed, or no case, has its reason.
ClosedByReason(file) == file.state = "closed" \/ file.role # "case" => Justified

ToolClosed ==
    /\ issues[Case] # Missing
    /\ \A x \in Held : ClosedByReason(x)
    /\ \A s \in Sessions : op[s].at = "decided" /\ op[s].number = Case => Justified

\* The machine cleans up after a close.
CleansUpAfter ==
    flow.at \in {"reclaim", "remove-worktree", "remove-branch", "ended"} => Justified

ClosedInv == ToolClosed /\ CleansUpAfter

\* One call moves on; there is one new file of the case's Issue at most.
LEMMA ClosedMoves ==
    ASSUME ToolInv, ToolClosed, NEW s \in Sessions, NEW call, op' = [op EXCEPT ![s] = call],
           NEW x, Held' \subseteq Held \cup {x}, x \in Held \/ ClosedByReason(x)',
           closings \subseteq closings', reset \subseteq reset',
           call.at = "decided" /\ call.number = Case => Justified',
           issues'[Case] # Missing
    PROVE  ToolClosed'
<1>1. Justified => Justified'
    BY DEF Justified, Decided, Case
<1>2. \A y \in Held' : ClosedByReason(y)'
    BY <1>1 DEF ToolClosed, ClosedByReason
<1>3. \A t \in Sessions : op'[t] = IF t = s THEN call ELSE op[t]
    BY DEF ToolInv
<1>4. \A t \in Sessions : op'[t].at = "decided" /\ op'[t].number = Case => Justified'
    BY <1>1, <1>3 DEF ToolClosed
<1>5. QED
    BY <1>2, <1>4 DEF ToolClosed, Case

\* ... or none.
LEMMA ClosedStays ==
    ASSUME ToolInv, ToolClosed, NEW s \in Sessions, NEW call, op' = [op EXCEPT ![s] = call],
           Held' \subseteq Held, closings \subseteq closings', reset \subseteq reset',
           call.at = "decided" /\ call.number = Case => Justified',
           issues'[Case] # Missing
    PROVE  ToolClosed'
<1>1. Justified => Justified'
    BY DEF Justified, Decided, Case
<1>2. \A y \in Held' : ClosedByReason(y)'
    BY <1>1 DEF ToolClosed, ClosedByReason
<1>3. \A t \in Sessions : op'[t] = IF t = s THEN call ELSE op[t]
    BY DEF ToolInv
<1>4. \A t \in Sessions : op'[t].at = "decided" /\ op'[t].number = Case => Justified'
    BY <1>1, <1>3 DEF ToolClosed
<1>5. QED
    BY <1>2, <1>4 DEF ToolClosed, Case

\* The next number is not that of an issue there is.
LEMMA NextIsNotCase ==
    ASSUME issues[Case] # Missing
    PROVE  NextNumber # Case
<1> DEFINE S == {0} \cup {n \in Numbers : issues[n] # Missing}
<1>1. MaxIssue \in Nat \ {0}
    BY IssueToolAssumption
<1>2. 1 \in S /\ S \subseteq 0..MaxIssue /\ S \subseteq Nat
    BY <1>1 DEF Case, Numbers
<1>3. MaxIssue \in Nat /\ \A x \in S : x <= MaxIssue
    BY <1>1, <1>2
<1>4. NextNumber = 1 + Max(S)
    BY DEF NextNumber
<1> HIDE DEF S
<1>5. Max(S) \in S /\ \A y \in S : y <= Max(S)
    BY <1>2, <1>3, MaxExists
<1>6. Max(S) \in Nat /\ Max(S) >= 1
    BY <1>2, <1>5
<1>7. QED
    BY <1>4, <1>6 DEF Case

\* A call that changes an issue as it should, or begins to.
LEMMA BeginCloses ==
    ASSUME ToolInv, ToolClosed, NEW s \in Sessions, NEW n \in Numbers, NEW kind \in Kinds,
           NEW seq \in Nat, NEW next \in Issues,
           n = Case => ClosedByReason(next)', reset \subseteq reset',
           op' = [op EXCEPT ![s] = Call(IF backend = "github" THEN "applied" ELSE "read",
                                        kind, n, next, seq)],
           issues' = IF backend = "github" THEN [issues EXCEPT ![n] = next] ELSE issues,
           UNCHANGED <<tmp, closings>>
    PROVE  ToolClosed'
<1> DEFINE call == Call(IF backend = "github" THEN "applied" ELSE "read", kind, n, next, seq)
<1>1. call.next = next /\ call.number = n /\ call.at # "decided" /\ op' = [op EXCEPT ![s] = call]
    BY CallType
<1> HIDE DEF call
<1>2. issues'[Case] = (IF backend = "github" /\ n = Case THEN next ELSE issues[Case])
      /\ next # Missing
    BY CaseHeld DEF ToolInv, Issues, Missing
<1>3. issues'[Case] # Missing
    BY <1>2 DEF ToolClosed
<1>4. Whole(tmp'[Case]) => tmp'[Case] \in Held
    BY CaseHeld
<1>5. CASE n = Case
    <2>1. Whole(issues'[Case]) => issues'[Case] \in Held \cup {next}
        BY <1>2, CaseHeld
    <2>2. Whole(tmp'[Case]) => tmp'[Case] \in Held \cup {next}
        BY <1>4
    <2>3. Held' \subseteq Held \cup {next}
        <3>1. PICK S : S = Held \cup {next}
            OBVIOUS
        <3>2. Held \subseteq S /\ call.next \in S
            BY <1>1, <3>1
        <3>3. Held' \subseteq S
            BY <1>1, <2>1, <2>2, <3>1, <3>2, HeldMoves
        <3>4. QED
            BY <3>1, <3>3
    <2>4. ClosedByReason(next)'
        BY <1>5
    <2>5. QED
        BY <1>1, <1>3, <2>3, <2>4, ClosedMoves
<1>6. CASE n # Case
    <2>1. Whole(issues'[Case]) => issues'[Case] \in Held
        BY <1>2, <1>6, CaseHeld
    <2>2. Held' \subseteq Held
        BY <1>1, <1>4, <1>6, <2>1, HeldMoves
    <2>3. QED
        BY <1>1, <1>3, <2>2, ClosedStays
<1>7. QED
    BY <1>5, <1>6

\* Only issue_close closes an issue, and none changes its role, but for an update.
LEMMA ChangedCloses ==
    ASSUME now \in Nat, now < MaxTime,
           NEW kind \in Kinds \ {"create", "close", "update"}, NEW issue \in Issues,
           Numbered(issue), NEW seq \in Nat, NEW next \in Changed(kind, issue, seq)
    PROVE  next.role = issue.role /\ next.state \in {issue.state, "open"}
<1>1. CASE kind = "comment"
    <2>1. next = Commented(issue)
        BY <1>1 DEF Changed
    <2>2. PICK comments, high : next = [issue EXCEPT !.comments = comments, !.high = high,
                                                     !.revision = Later]
        BY <2>1 DEF Commented, Issues
    <2>3. QED
        BY <2>2 DEF Issues
<1>2. CASE kind = "edit-comment"
    BY <1>2 DEF Changed, CommentEdited, Issues
<1>3. CASE kind = "delete-comment"
    <2>1. next = CommentDeleted(issue, seq)
        BY <1>3 DEF Changed
    <2>2. PICK comments, high : next = [issue EXCEPT !.comments = comments, !.high = high,
                                                     !.revision = Later]
        BY <2>1 DEF CommentDeleted, Issues
    <2>3. QED
        BY <2>2 DEF Issues
<1>4. CASE kind = "reopen"
    BY <1>4 DEF Changed, Reopened, Issues
<1>5. QED
    BY <1>1, <1>2, <1>3, <1>4 DEF Kinds

LEMMA RequestCloses ==
    ASSUME ToolInv, ToolClosed, NEW s \in Sessions, NEW kind \in Kinds \ {"create", "close"},
           NEW n \in Numbers, NEW seq \in Nat, Ask(s, kind, n, seq)
    PROVE  ToolClosed'
<1>1. issues[n] \in Issues /\ Numbered(issues[n]) /\ Whole(issues[n])
    BY WholeIsIssue DEF Ask, Request, ToolInv, Backed
<1>2. now < MaxTime /\ now \in Nat
    BY LaterType DEF Ask, Request, Change, Tick, ToolInv
<1>3. PICK next \in Changed(kind, issues[n], seq) :
          /\ op' = [op EXCEPT ![s] = Call(IF backend = "github" THEN "applied" ELSE "read",
                                        kind, n, next, SeqOf(kind, next, seq))]
          /\ issues' = IF backend = "github" THEN [issues EXCEPT ![n] = next] ELSE issues
          /\ reset' = reset \cup ResetBy(kind, n, next)
    BY DEF Ask, Request, Change
<1>4. next \in Issues /\ SeqOf(kind, next, seq) \in Nat
    BY <1>1, <1>2, ChangedType
<1>5. UNCHANGED <<tmp, closings>> /\ reset \subseteq reset'
    BY <1>3 DEF Ask, Request
<1>6. n = Case => ClosedByReason(issues[n])
    BY <1>1, CaseHeld DEF ToolClosed
<1>7. Justified => Justified'
    BY <1>5 DEF Justified, Decided, Case
<1>8. \/ n \in reset'
      \/ next.role = issues[n].role /\ next.state \in {issues[n].state, "open"}
    <2>1. CASE kind = "update"
        BY <1>3, <2>1 DEF ResetBy
    <2>2. CASE kind # "update"
        BY <1>1, <1>2, <2>2, ChangedCloses
    <2>3. QED
        BY <2>1, <2>2
<1>9. n = Case => ClosedByReason(next)'
    <2>1. CASE n \in reset'
        BY <2>1 DEF ClosedByReason, Justified, Case
    <2>2. CASE next.role = issues[n].role /\ next.state \in {issues[n].state, "open"}
        BY <1>6, <1>7, <2>2 DEF ClosedByReason
    <2>3. QED
        BY <1>8, <2>1, <2>2
<1>10. QED
    BY <1>3, <1>4, <1>5, <1>9, BeginCloses

LEMMA CreateCloses ==
    ASSUME ToolInv, ToolClosed, NEW s \in Sessions, NEW role \in {"case", "tracking"}, Create(s, role)
    PROVE  ToolClosed'
<1>1. Later \in Times
    BY LaterType DEF Create, Tick, ToolInv
<1>2. NewIssue(role) \in Issues
    BY <1>1 DEF NewIssue, Issues
<1>3. NextNumber \in Numbers /\ UNCHANGED <<tmp, closings>> /\ reset \subseteq reset'
      /\ "create" \in Kinds /\ 0 \in Nat
    BY DEF Create, Kinds
<1>4. op' = [op EXCEPT ![s] = Call(IF backend = "github" THEN "applied" ELSE "read",
                                   "create", NextNumber, NewIssue(role), 0)]
      /\ issues' = IF backend = "github" THEN [issues EXCEPT ![NextNumber] = NewIssue(role)] ELSE issues
    BY DEF Create
<1>5. NextNumber # Case
    BY NextIsNotCase DEF ToolClosed
<1>6. QED
    BY <1>2, <1>3, <1>4, <1>5, BeginCloses

\* The runner decides: what it is about to write for the case says closed by this close.
LEMMA DecideCloses ==
    ASSUME ToolInv, ToolClosed, NEW s \in Sessions, Decide(s)
    PROVE  ToolClosed'
<1> DEFINE n    == op[s].number
           at   == IF backend = "github" THEN "decided" ELSE "read"
           call == Call(at, "close", n, Closed(issues[n]), 0)
<1>1. op[s] \in Calls /\ n \in Numbers
    BY DEF ToolInv, Decide, Calls, Idle
<1>2. issues[n] \in Issues /\ Whole(issues[n])
    BY <1>1, WholeIsIssue DEF Decide, RunnerVerifies, ToolInv
<1>3. Closed(issues[n]).role = issues[n].role
    BY <1>2 DEF Closed, Issues
<1>4. call.at = at /\ call.next = Closed(issues[n]) /\ call.number = n
    BY DEF Call
<1>5. op' = [op EXCEPT ![s] = call] /\ UNCHANGED <<issues, tmp, reset>>
      /\ closings' = closings \cup {AsRead(n)}
    BY DEF Decide
<1> HIDE DEF call
<1>6. AsRead(n).number = n /\ AsRead(n).role = issues[n].role
    BY DEF AsRead
<1>7. n = Case => Justified'
    <2>1. CASE issues[n].role = "case"
        BY <1>5, <1>6, <2>1 DEF Justified, Decided, Case
    <2>2. CASE n = Case /\ issues[n].role # "case"
        BY <1>2, <1>5, <2>2, CaseHeld DEF ToolClosed, ClosedByReason, Justified, Decided, Case
    <2>3. QED
        BY <2>1, <2>2
<1>8. closings \subseteq closings' /\ reset \subseteq reset'
    BY <1>5
<1>9. Whole(tmp'[Case]) => tmp'[Case] \in Held
    BY <1>5, CaseHeld
<1>10. Whole(issues'[Case]) => issues'[Case] \in Held
    BY <1>5, CaseHeld
<1>11. PICK x : x = Closed(issues[n])
    OBVIOUS
<1>12. issues'[Case] # Missing
    BY <1>5 DEF ToolClosed
<1>13. CASE n = Case
    <2>1. Held' \subseteq Held \cup {x}
        BY <1>4, <1>5, <1>9, <1>10, <1>11, HeldMoves
    <2>2. ClosedByReason(x)'
        BY <1>7, <1>13 DEF ClosedByReason
    <2>3. QED
        BY <1>5, <1>7, <1>8, <1>12, <1>13, <2>1, <2>2, ClosedMoves
<1>14. CASE n # Case
    <2>1. Held' \subseteq Held
        BY <1>4, <1>5, <1>9, <1>10, <1>14, HeldMoves
    <2>2. QED
        BY <1>4, <1>5, <1>8, <1>12, <1>14, <2>1, ClosedStays
<1>15. QED
    BY <1>13, <1>14

LEMMA PatchCloses ==
    ASSUME ToolInv, ToolClosed, NEW s \in Sessions, Patch(s)
    PROVE  ToolClosed'
<1> DEFINE n == op[s].number
           call == [op[s] EXCEPT !.at = "applied"]
<1>1. op[s] \in Calls /\ n \in Numbers /\ op[s] # Idle
    BY DEF ToolInv, Patch, Calls, Idle
<1>2. issues[n] \in Issues /\ Whole(issues[n])
    BY <1>1, WholeIsIssue DEF Patch, ToolInv, Backed
<1>3. Closed(issues[n]).role = issues[n].role /\ Closed(issues[n]) # Missing
    BY <1>2 DEF Closed, Issues, Missing
<1>4. call.at = "applied"
    BY <1>1 DEF Calls
<1>5. op' = [op EXCEPT ![s] = call] /\ UNCHANGED <<tmp, closings, reset>>
      /\ issues' = [issues EXCEPT ![n] = Closed(issues[n])]
    BY DEF Patch
<1> HIDE DEF call
<1>6. issues'[Case] = IF n = Case THEN Closed(issues[n]) ELSE issues[Case]
    BY <1>1, <1>5, CaseHeld DEF ToolInv
<1>7. issues'[Case] # Missing
    BY <1>3, <1>6 DEF ToolClosed
<1>8. Whole(tmp'[Case]) => tmp'[Case] \in Held
    BY <1>5, CaseHeld
<1>9. CASE n = Case
    <2>1. Justified
        BY <1>9 DEF ToolClosed, Patch
    <2>2. PICK x : x = Closed(issues[n])
        OBVIOUS
    <2>3. ClosedByReason(x)'
        <3>1. Justified'
            BY <1>5, <2>1 DEF Justified, Decided, Case
        <3>2. QED
            BY <3>1 DEF ClosedByReason
    <2>4. Held' \subseteq Held \cup {x}
        <3>1. Whole(issues'[Case]) => issues'[Case] \in Held \cup {x}
            BY <1>6, <1>9, <2>2
        <3>2. Whole(tmp'[Case]) => tmp'[Case] \in Held \cup {x}
            BY <1>8
        <3>3. QED
            BY <1>4, <1>5, <3>1, <3>2, HeldMoves
    <2>5. QED
        BY <1>4, <1>5, <1>7, <2>3, <2>4, ClosedMoves
<1>10. CASE n # Case
    <2>1. Whole(issues'[Case]) => issues'[Case] \in Held
        BY <1>6, <1>10, CaseHeld
    <2>2. Held' \subseteq Held
        BY <1>4, <1>5, <1>8, <2>1, HeldMoves
    <2>3. QED
        BY <1>4, <1>5, <1>7, <2>2, ClosedStays
<1>11. QED
    BY <1>9, <1>10

\* A step that makes no new file.
LEMMA OthersClose ==
    ASSUME ToolInv, ToolClosed, NEW s \in Sessions,
           \/ \E n \in Numbers : CheckClose(s, n)
           \/ Refuse(s) \/ Confirm(s) \/ Crash(s) \/ Write(s) \/ RenameFails(s)
    PROVE  ToolClosed'
<1>1. Held' \subseteq Held
    BY OthersHold, WriteHolds
<1>2. closings \subseteq closings' /\ reset \subseteq reset'
    BY DEF CheckClose, Refuse, Confirm, Crash, Write, Truncate, Fill, Rename, RenameFails
<1>3. PICK call : op' = [op EXCEPT ![s] = call] /\ call.at # "decided"
    <2>1. CASE Write(s)
        <3>1. op[s] \in Calls
            BY <2>1 DEF ToolInv, Write, Truncate, Fill, Rename, Idle
        <3>2. \A at \in {"truncated", "filled", "applied"} : [op[s] EXCEPT !.at = at].at # "decided"
            BY <3>1 DEF Calls
        <3>3. \/ op' = [op EXCEPT ![s] = Idle]
              \/ \E at \in {"truncated", "filled", "applied"} :
                    op' = [op EXCEPT ![s] = [op[s] EXCEPT !.at = at]]
            BY <2>1 DEF Write, Truncate, Fill, Rename
        <3>4. Idle.at # "decided"
            BY DEF Idle
        <3>5. QED
            BY <3>2, <3>3, <3>4
    <2>2. CASE ~ Write(s)
        BY <2>2 DEF CheckClose, Refuse, Confirm, Crash, RenameFails, Idle, Call
    <2>3. QED
        BY <2>1, <2>2
<1>4. issues'[Case] # Missing
    <2>1. CASE Rename(s)
        <3>1. op[s] \in Calls
            BY <2>1 DEF ToolInv, Rename, Idle
        <3>2. op[s].number \in Numbers
            BY <3>1 DEF Calls
        <3>3. CASE tmp[op[s].number] = Missing
            BY <2>1, <3>3 DEF Rename, ToolClosed
        <3>4. CASE tmp[op[s].number] # Missing
            <4>1. issues' = [issues EXCEPT ![op[s].number] = tmp[op[s].number]]
                BY <2>1, <3>4 DEF Rename
            <4>2. QED
                BY <3>2, <3>4, <4>1, CaseHeld DEF ToolClosed, ToolInv
        <3>5. QED
            BY <3>3, <3>4
    <2>2. CASE ~ Rename(s)
        <3>1. issues' = issues
            BY <2>2 DEF CheckClose, Refuse, Confirm, Crash, Write, Truncate, Fill, RenameFails
        <3>2. QED
            BY <3>1 DEF ToolClosed
    <2>3. QED
        BY <2>1, <2>2
<1>5. QED
    BY <1>1, <1>2, <1>3, <1>4, ClosedStays

LEMMA ToolStepCloses ==
    ASSUME ToolInv, ToolClosed, NEW s \in Sessions, ToolStep(s)
    PROVE  ToolClosed'
<1>1. CASE \E n \in Numbers, kind \in Kinds \ {"create", "close"} :
              \E seq \in {0} \cup {c.seq : c \in IF Whole(issues[n]) THEN issues[n].comments ELSE {}} :
                  Ask(s, kind, n, seq)
    <2>1. PICK n \in Numbers, kind \in Kinds \ {"create", "close"} :
              \E seq \in {0} \cup {c.seq : c \in IF Whole(issues[n]) THEN issues[n].comments ELSE {}} :
                  Ask(s, kind, n, seq)
        BY <1>1
    <2>2. issues[n] \in Issues
        BY <2>1, WholeIsIssue DEF Ask, Request, ToolInv
    <2>3. \E seq \in Nat : Ask(s, kind, n, seq)
        BY <2>1, <2>2 DEF Issues, Comments
    <2>4. QED
        BY <2>3, RequestCloses
<1>2. CASE \E role \in {"case", "tracking"} : Create(s, role)
    BY <1>2, CreateCloses
<1>3. QED
    BY <1>1, <1>2, OthersClose, DecideCloses, PatchCloses DEF ToolStep, Make, Ask, Proceed, Fault

LEMMA ToolClosedNext ==
    ASSUME TInv, ToolClosed, [Next]_vars
    PROVE  ToolClosed'
<1>1. CASE \E s \in Sessions : ToolStep(s)
    BY <1>1, ToolStepCloses DEF TInv
<1>2. CASE UNCHANGED <<backend, issues, tmp, op, now, named, closings, reset>>
    BY <1>2 DEF ToolClosed, Held, Writing, ClosedByReason, Justified, Decided, Case, Whole
<1>3. QED
    BY <1>1, <1>2, StepCases DEF TInv

\* The machine cleans up when it has found the Issue closed.
LEMMA CleanupBegins ==
    ASSUME TInv, [Next]_vars,
           flow'.at \in {"reclaim", "remove-worktree", "remove-branch", "ended"}
    PROVE  \/ flow.at \in {"reclaim", "remove-worktree", "remove-branch", "ended"}
           \/ issues[Case].state = "closed"
<1> DEFINE Cleanup == {"reclaim", "remove-worktree", "remove-branch", "ended"}
<1>1. flow \in FlowTypes
    BY DEF TInv, FlowInv
<1>2. CASE Resume \/ CleanUpAgain \/ Reclaim \/ RemoveWorktree \/ RemoveBranch
    BY <1>2 DEF Resume, CleanUpAgain, Reclaim, RemoveWorktree, RemoveBranch
<1>3. CASE CloseRefused \/ Closes \/ Unaccept \/ CloserFails \/ MachineStops
    <2>1. flow' = AtBegin
        BY <1>3 DEF CloseRefused, Closes, Unaccept, CloserFails, MachineStops
    <2>2. QED
        BY <2>1, BeginType
<1>4. CASE Prepare \/ CloseCase
    BY <1>1, <1>4 DEF Prepare, CloseCase, AtBegin, FlowTypes
<1>5. CASE Assemble
    <2>1. flow' \in {[flow EXCEPT !.at = "accept"], AtBegin}
        BY <1>5 DEF Assemble
    <2>2. QED
        BY <1>1, <2>1, BeginType DEF FlowTypes
<1>6. CASE Accept
    <2>1. flow' \in {[flow EXCEPT !.at = "record"], [flow EXCEPT !.at = "unaccept"]}
        BY <1>6 DEF Accept
    <2>2. QED
        BY <1>1, <2>1 DEF FlowTypes
<1>7. CASE RefuseFirst
    <2>1. PICK worst : flow' = [flow EXCEPT !.at = "check", !.worst = worst]
        BY <1>7 DEF RefuseFirst
    <2>2. QED
        BY <1>1, <2>1 DEF FlowTypes
<1>8. ASSUME NEW status, NEW early, CheckDone(status, early)
      PROVE  flow'.at \in {"assemble", "check"}
    <2>1. PICK worst, step, allowed :
              flow' = [flow EXCEPT !.worst = worst, !.step = step,
                          !.at = IF early \/ flow.step + 1 = Len(Checks) THEN "assemble" ELSE "check",
                          !.allowed = allowed]
        BY <1>8 DEF CheckDone
    <2>2. flow'.at = IF early \/ flow.step + 1 = Len(Checks) THEN "assemble" ELSE "check"
        BY <1>1, <2>1 DEF FlowTypes
    <2>3. QED
        BY <2>2
<1>9. CASE CheckAvailability
    BY <1>8, <1>9 DEF CheckAvailability
<1>10. CASE Check
    <2>1. CheckDone(IF Seen = "undetermined" THEN "pass" ELSE Seen, FALSE)
        BY <1>10 DEF Check
    <2>2. QED
        BY <1>8, <2>1
<1>11. CASE Poll
    <2>1. \/ flow' = [flow EXCEPT !.attempts = @ + 1]
          \/ CheckDone("fail", TRUE) \/ CheckDone("pass", FALSE) \/ CheckDone("warn", FALSE)
        BY <1>11 DEF Poll
    <2>2. CASE flow' = [flow EXCEPT !.attempts = @ + 1]
        BY <1>1, <2>2 DEF FlowTypes
    <2>3. QED
        BY <1>8, <2>1, <2>2
<1>12. CASE RecordWork \/ CloserProceeds \/ World
    BY <1>12 DEF RecordWork, CloserProceeds, World
<1>13. CASE UNCHANGED vars \/ \E s \in Sessions \ {Closer} : OtherMakes(s) \/ OtherProceeds(s) \/ OtherFails(s)
    BY <1>13 DEF OtherMakes, OtherProceeds, OtherFails, flowVars, vars
<1>14. QED
    BY <1>2, <1>3, <1>4, <1>5, <1>6, <1>7, <1>9, <1>10, <1>11, <1>12, <1>13
    DEF Next, Machine, Workflow

LEMMA ClosedIsJustified ==
    ASSUME ToolClosed, issues[Case].state = "closed"
    PROVE  Justified
<1>1. issues[Case] \in Held
    BY DEF Held, Whole
<1>2. QED
    BY <1>1 DEF ToolClosed, ClosedByReason

\* A reason once given stays.
LEMMA ResetGrows ==
    ASSUME TInv, [Next]_vars
    PROVE  reset \subseteq reset'
<1>1. ASSUME NEW s \in Sessions, ToolStep(s) PROVE reset \subseteq reset'
    BY <1>1 DEF ToolStep, Make, Request, Change, Create, CheckClose, Proceed, Decide, Refuse, Patch,
       Write, Truncate, Fill, Rename, Confirm, Fault, RenameFails, Crash
<1>2. QED
    BY <1>1, StepCases DEF TInv

LEMMA ClosedInvNext ==
    ASSUME TInv, ClosedInv, [Next]_vars
    PROVE  ClosedInv'
<1>1. Justified => Justified'
    BY ClosingsMove, ResetGrows DEF Justified, Decided, Case
<1>2. ToolClosed'
    BY ToolClosedNext DEF ClosedInv
<1>3. CleansUpAfter'
    BY <1>1, CleanupBegins, ClosedIsJustified DEF ClosedInv, CleansUpAfter
<1>4. QED
    BY <1>2, <1>3 DEF ClosedInv

LEMMA ClosedInvInit == Init => ClosedInv
<1> SUFFICES ASSUME Init PROVE ClosedInv
    OBVIOUS
<1>1. Case \in Numbers
    BY IssueToolAssumption DEF Case, Numbers
<1>2. issues[Case].state = "open" /\ issues[Case].role = "case" /\ tmp[Case] = Missing
      /\ closings = {} /\ flow.at = "begin" /\ \A s \in Sessions : op[s].at = "idle"
    BY <1>1 DEF Init, ToolInit, AtBegin, Case, Idle
<1>3. issues[Case] # Missing /\ ~ Whole(tmp[Case])
    BY <1>2 DEF Missing, Whole
<1>4. \A x \in Held : x = issues[Case]
    BY <1>2, <1>3 DEF Held, Writing
<1>5. QED
    BY <1>2, <1>3, <1>4 DEF ClosedInv, ToolClosed, ClosedByReason, CleansUpAfter

-----------------------------------------------------------------------------
(* Every step is one of the contract, or changes nothing of it.                *)

\* What the contract is about.
DecidedVersions == {[text |-> c.text, revision |-> c.revision] : c \in Decided}
Updated == Case \in reset
IssueSeen == IF issues[Case].state = "closed" THEN "closed" ELSE "open"
Work == {part \in {"worktree", "branch"} : IF part = "worktree" THEN worktree ELSE branch}

LEMMA StepKinds ==
    ASSUME TInv, [Next]_vars
    PROVE  \/ (\E s \in Sessions : ToolStep(s)) /\ UNCHANGED <<judged, worktree, branch>>
           \/ Accept \/ RemoveWorktree \/ RemoveBranch
           \/ UNCHANGED <<issues, closings, reset, judged, worktree, branch>>
<1>1. CASE RecordWork
    <2>1. PICK i \in DOMAIN Notes :
              Request(Closer, Notes[i], Case, 0,
                      IF Notes[i] = "update" THEN Reworded(issues[Case])
                      ELSE Changed(Notes[i], issues[Case], 0))
        BY <1>1 DEF RecordWork
    <2>2. Notes[i] \in Kinds \ {"create", "close"} /\ Case \in Numbers
          /\ Reworded(issues[Case]) \subseteq Changed("update", issues[Case], 0)
        BY IssueToolAssumption DEF Notes, Kinds, Case, Numbers, Changed
    <2>3. ToolStep(Closer)
        BY <2>1, <2>2 DEF ToolStep, Make, Request
    <2>4. QED
        BY <1>1, <2>3, CaseCloseAssumption DEF RecordWork
<1>2. CASE CloseCase
    BY <1>2, CaseCloseAssumption, IssueToolAssumption DEF CloseCase, ToolStep, Make, Case, Numbers
<1>3. CASE CloserProceeds \/ CloserFails
    BY <1>3, CaseCloseAssumption DEF CloserProceeds, CloserFails, ToolStep
<1>4. CASE \E s \in Sessions \ {Closer} : OtherMakes(s) \/ OtherProceeds(s) \/ OtherFails(s)
    BY <1>4 DEF OtherMakes, OtherProceeds, OtherFails, ToolStep, flowVars
<1>5. CASE RefuseFirst \/ CheckAvailability \/ Poll \/ Check \/ Assemble \/ Unaccept \/ Reclaim
    BY <1>5 DEF RefuseFirst, CheckAvailability, Poll, Check, Assemble, Unaccept, Reclaim,
       WriteRecord, toolVars
<1>6. CASE \/ Prepare \/ Resume \/ CloseRefused \/ Closes \/ CleanUpAgain \/ MachineStops \/ World
           \/ UNCHANGED vars
    BY <1>6 DEF Prepare, Resume, CloseRefused, Closes, CleanUpAgain, MachineStops, World, toolVars,
       flowVars, vars
<1>7. QED
    BY <1>1, <1>2, <1>3, <1>4, <1>5, <1>6 DEF Next, Machine, Workflow

\* Of what a session does with the tool only the decision of a close decides, and it
\* changes no issue.
LEMMA ToolDecides ==
    ASSUME TInv, NEW s \in Sessions, ToolStep(s)
    PROVE  \/ closings' = closings
           \/ UNCHANGED <<issues, reset>> /\ \E n \in Numbers : closings' = closings \cup {AsRead(n)}
<1>1. CASE Decide(s)
    <2>1. op[s].number \in Numbers
        BY <1>1 DEF Decide, TInv, ToolInv, Calls, Idle
    <2>2. QED
        BY <1>1, <2>1 DEF Decide
<1>2. CASE ~ Decide(s)
    BY <1>2 DEF ToolStep, Proceed, Make, Request, Create, CheckClose, Refuse, Patch, Write, Truncate,
       Fill, Rename, Confirm, Fault, RenameFails, Crash
<1>3. QED
    BY <1>1, <1>2

LEMMA ToolKeepsContract ==
    ASSUME TInv, TInv', ClosedInv, ClosedInv', ClosedAsAccepted', NEW s \in Sessions, ToolStep(s), [Next]_vars,
           UNCHANGED <<judged, worktree, branch>>
    PROVE  Contract!Next \/ UNCHANGED <<judged, DecidedVersions, Updated, IssueSeen, Work>>
<1>1. UNCHANGED Work
    BY DEF Work
<1>2. CASE closings' = closings
    <2>1. UNCHANGED DecidedVersions /\ Decided' = Decided
        BY <1>2 DEF DecidedVersions, Decided, Case
    <2>2. Updated => Updated'
        BY ResetGrows DEF Updated, Case
    <2>3. CASE ~ Updated /\ Updated'
        <3>1. IssueSeen' \in {"open", "closed"} /\ Updated' = TRUE
            BY <2>3 DEF IssueSeen, Updated
        <3>2. Contract!Update
            BY <1>1, <2>1, <3>1 DEF Contract!Update, DecidedVersions, Decided, Updated, IssueSeen, Work
        <3>3. QED
            BY <3>2 DEF Contract!Next
    <2>4. CASE Updated' = Updated
        <3>1. CASE IssueSeen' = IssueSeen
            BY <1>1, <2>1, <2>4, <3>1
        <3>2. CASE IssueSeen = "closed" /\ IssueSeen' = "open"
            <4>1. Contract!Reopen
                BY <1>1, <2>1, <2>4, <3>2
                DEF Contract!Reopen, DecidedVersions, Decided, Updated, IssueSeen, Work
            <4>2. QED
                BY <4>1 DEF Contract!Next
        <3>3. CASE IssueSeen = "open" /\ IssueSeen' = "closed"
            <4>1. issues'[Case].state = "closed" /\ issues'[Case] \in Held'
                BY <3>3 DEF IssueSeen, Held, Whole, Case
            <4>2. Justified'
                BY <4>1 DEF ClosedInv, ToolClosed, ClosedByReason
            <4>3. Decided # {} \/ Updated
                BY <2>1, <2>4, <4>2 DEF Justified, Updated, Case
            <4>4. DecidedVersions # {} \/ Updated
                BY <4>3 DEF DecidedVersions
            <4>5. Contract!Close
                BY <1>1, <2>1, <2>4, <3>3, <4>4
                DEF Contract!Close, DecidedVersions, Decided, Updated, IssueSeen, Work
            <4>6. QED
                BY <4>5 DEF Contract!Next
        <3>4. QED
            BY <3>1, <3>2, <3>3 DEF IssueSeen
    <2>5. QED
        BY <2>2, <2>3, <2>4 DEF Updated
<1>3. ASSUME UNCHANGED <<issues, reset>>, NEW n \in Numbers, closings' = closings \cup {AsRead(n)}
      PROVE  Contract!Next \/ UNCHANGED <<judged, DecidedVersions, Updated, IssueSeen, Work>>
    <2>1. UNCHANGED <<Updated, IssueSeen>>
        BY <1>3 DEF Updated, IssueSeen, Case
    <2>2. AsRead(n).number = n /\ AsRead(n).role = issues[n].role
          /\ AsRead(n).text = issues[n].text /\ AsRead(n).revision = issues[n].revision
        BY DEF AsRead
    <2>3. CASE n = Case /\ issues[n].role = "case"
        <3> DEFINE v == [text |-> issues[n].text, revision |-> issues[n].revision]
        <3>1. AsRead(n) \in closings'
            BY <1>3
        <3>2. v \in judged
            BY <2>2, <2>3, <3>1 DEF ClosedAsAccepted
        <3>3. Decided' = Decided \cup {AsRead(n)}
            BY <1>3, <2>2, <2>3 DEF Decided, Case
        <3>4. DecidedVersions' = DecidedVersions \cup {v}
            BY <2>2, <3>3 DEF DecidedVersions
        <3>5. Contract!Decide
            BY <1>1, <2>1, <3>2, <3>4
            DEF Contract!Decide, DecidedVersions, Decided, Updated, IssueSeen, Work
        <3>6. QED
            BY <3>5 DEF Contract!Next
    <2>4. CASE ~ (n = Case /\ issues[n].role = "case")
        <3>1. Decided' = Decided
            BY <1>3, <2>2, <2>4 DEF Decided, Case
        <3>2. UNCHANGED DecidedVersions
            BY <3>1 DEF DecidedVersions
        <3>3. QED
            BY <1>1, <2>1, <3>2
    <2>5. QED
        BY <2>3, <2>4
<1>4. QED
    BY <1>2, <1>3, ToolDecides

LEMMA AcceptKeepsContract ==
    ASSUME TInv, Accept
    PROVE  Contract!Accept \/ UNCHANGED <<judged, DecidedVersions, Updated, IssueSeen, Work>>
<1>1. UNCHANGED <<issues, closings, reset, worktree, branch>>
    BY DEF Accept, WriteRecord
<1>2. UNCHANGED <<DecidedVersions, Updated, IssueSeen, Work>>
    BY <1>1 DEF DecidedVersions, Decided, Updated, IssueSeen, Work, Case
<1>3. [text |-> flow.text, revision |-> flow.revision] \in [text : Times, revision : Times]
    BY DEF TInv, FlowInv, FlowTypes
<1>4. judged' = judged \/ judged' = judged \cup {[text |-> flow.text, revision |-> flow.revision]}
    BY DEF Accept
<1>5. QED
    BY <1>2, <1>3, <1>4 DEF Contract!Accept, DecidedVersions, Decided, Updated, IssueSeen, Work

LEMMA RemovalKeepsContract ==
    ASSUME TInv, ClosedInv, RemoveWorktree \/ RemoveBranch
    PROVE  Contract!Remove \/ UNCHANGED <<judged, DecidedVersions, Updated, IssueSeen, Work>>
<1>1. UNCHANGED <<issues, closings, reset, judged>> /\ flow.at \in {"remove-worktree", "remove-branch"}
    BY DEF RemoveWorktree, RemoveBranch, toolVars
<1>2. UNCHANGED <<DecidedVersions, Updated, IssueSeen>>
    BY <1>1 DEF DecidedVersions, Decided, Updated, IssueSeen, Case
<1>3. DecidedVersions # {} \/ Updated
    BY <1>1 DEF ClosedInv, CleansUpAfter, Justified, DecidedVersions, Updated
<1>4. worktree \in BOOLEAN /\ branch \in BOOLEAN
    BY DEF TInv, FlowInv
<1>5. \/ worktree /\ ~ worktree' /\ branch' = branch
      \/ branch /\ ~ branch' /\ worktree' = worktree
      \/ UNCHANGED <<worktree, branch>>
    BY <1>4 DEF RemoveWorktree, RemoveBranch
<1>6. UNCHANGED Work \/ \E part \in Work : Work' = Work \ {part}
    BY <1>5 DEF Work
<1>7. QED
    BY <1>1, <1>2, <1>3, <1>6 DEF Contract!Remove, DecidedVersions, Decided, Updated, IssueSeen, Work

\* The close of a case keeps its contract (CaseContract), whoever calls issue_close and
\* however calls overlap, stop or are repeated: no close is decided but on a version that
\* a run of the machine accepted, and the Issue is closed, and worktree and branch are
\* removed, only after one, or after an issue_update has set the state or the role.
THEOREM CaseContractCareful == ASSUME Careful PROVE Spec => KeepsCaseContract
<1>1. Init => Contract!Init
    <2> SUFFICES ASSUME Init PROVE Contract!Init
        OBVIOUS
    <2>1. issues[Case].state = "open"
        BY IssueToolAssumption DEF Init, ToolInit, Case, Numbers
    <2>2. judged = {} /\ closings = {} /\ reset = {} /\ worktree = TRUE /\ branch = TRUE
        BY DEF Init, ToolInit
    <2>3. (Case \in reset) = FALSE
        BY <2>2
    <2>4. QED
        BY <2>1, <2>2, <2>3 DEF Contract!Init
<1>2. ASSUME TInv, TInv', CloseInv, CloseInv', ClosedInv, ClosedInv', [Next]_vars
      PROVE  Contract!Next \/ UNCHANGED <<judged, DecidedVersions, Updated, IssueSeen, Work>>
    <2>1. CASE (\E s \in Sessions : ToolStep(s)) /\ UNCHANGED <<judged, worktree, branch>>
        BY <1>2, <2>1, ToolKeepsContract DEF CloseInv
    <2>2. CASE Accept
        BY <1>2, <2>2, AcceptKeepsContract DEF Contract!Next
    <2>3. CASE RemoveWorktree \/ RemoveBranch
        BY <1>2, <2>3, RemovalKeepsContract DEF Contract!Next
    <2>4. CASE UNCHANGED <<issues, closings, reset, judged, worktree, branch>>
        BY <2>4 DEF DecidedVersions, Decided, Updated, IssueSeen, Work, Case
    <2>5. QED
        BY <1>2, <2>1, <2>2, <2>3, <2>4, StepKinds
<1>3. TInv /\ TInv' /\ CloseInv /\ CloseInv' /\ ClosedInv /\ ClosedInv' /\ [Next]_vars
        => [Contract!Next]_(Contract!vars)
    BY <1>2 DEF Contract!vars, DecidedVersions, Decided, Updated, IssueSeen, Work
<1>4. TInv /\ CloseInv /\ [Next]_vars => CloseInv'
    BY VersionInvNext, AcceptedInvNext, ClosedAsAcceptedNext DEF CloseInv
<1>5. TInv /\ ClosedInv /\ [Next]_vars => ClosedInv'
    BY ClosedInvNext
<1>6. QED
    BY <1>1, <1>3, <1>4, <1>5, CloseInvInit, ClosedInvInit, TInvAlways, PTL
    DEF Spec, KeepsCaseContract, Contract!Spec

-----------------------------------------------------------------------------
(* What follows from the contract alone.                                       *)

\* A decision is on an accepted version, and what is closed or removed was decided.
ActsOnDecision ==
    /\ DecidedVersions \subseteq judged
    /\ IssueSeen = "closed" \/ Work # {"worktree", "branch"} => DecidedVersions # {} \/ Updated

LEMMA ContractActsOnDecision == Contract!Spec => []ActsOnDecision
<1> USE DEF ActsOnDecision, DecidedVersions, Decided, Updated, IssueSeen, Work
<1>1. Contract!Init => ActsOnDecision
    BY DEF Contract!Init
<1>2. ASSUME ActsOnDecision, [Contract!Next]_(Contract!vars) PROVE ActsOnDecision'
    <2>1. CASE Contract!Accept
        BY <1>2, <2>1 DEF Contract!Accept
    <2>2. CASE Contract!Decide
        BY <1>2, <2>2 DEF Contract!Decide
    <2>3. CASE Contract!Update
        BY <1>2, <2>3 DEF Contract!Update
    <2>4. CASE Contract!Close
        BY <1>2, <2>4 DEF Contract!Close
    <2>5. CASE Contract!Reopen
        BY <1>2, <2>5 DEF Contract!Reopen
    <2>6. CASE Contract!Remove
        BY <1>2, <2>6 DEF Contract!Remove
    <2>7. CASE UNCHANGED Contract!vars
        BY <1>2, <2>7 DEF Contract!vars
    <2>8. QED
        BY <1>2, <2>1, <2>2, <2>3, <2>4, <2>5, <2>6, <2>7 DEF Contract!Next
<1>3. QED
    BY <1>1, <1>2, PTL DEF Contract!Spec

\* Whenever the case's Issue is closed, or its worktree or its branch is gone, a close
\* of the case was decided on a text and a revision that a run of the machine accepted,
\* or an issue_update has set the state or the role of the Issue.
THEOREM ClosedMeansAccepted ==
    ASSUME Careful
    PROVE  Spec => [](issues[Case].state = "closed" \/ ~ worktree \/ ~ branch
                      => \/ \E c \in closings :
                               /\ c.number = Case /\ c.role = "case"
                               /\ [text |-> c.text, revision |-> c.revision] \in judged
                         \/ Case \in reset)
<1>1. ActsOnDecision
        => (issues[Case].state = "closed" \/ ~ worktree \/ ~ branch
            => \/ \E c \in closings :
                     /\ c.number = Case /\ c.role = "case"
                     /\ [text |-> c.text, revision |-> c.revision] \in judged
               \/ Case \in reset)
    <2> SUFFICES ASSUME ActsOnDecision, issues[Case].state = "closed" \/ ~ worktree \/ ~ branch,
                        Case \notin reset
                 PROVE  \E c \in closings :
                            /\ c.number = Case /\ c.role = "case"
                            /\ [text |-> c.text, revision |-> c.revision] \in judged
        OBVIOUS
    <2>1. IssueSeen = "closed" \/ Work # {"worktree", "branch"}
        BY DEF IssueSeen, Work
    <2>2. PICK v \in DecidedVersions : v \in judged
        BY <2>1 DEF ActsOnDecision, Updated
    <2>3. QED
        BY <2>2 DEF DecidedVersions, Decided
<1>2. QED
    BY <1>1, CaseContractCareful, ContractActsOnDecision, PTL DEF KeepsCaseContract
==============================================================================
