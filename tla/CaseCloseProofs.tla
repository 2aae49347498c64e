--------------------------- MODULE CaseCloseProofs ---------------------------
(* Proofs about CaseClose and the tool it calls, for any number of sessions,   *)
(* issues, changes, kills and troubles.  Two theorems assume   that calls of   *)
(* the local backend do not overlap (Serialized), one that callers renew the   *)
(* revision with the text (Careful); the others assume nothing.                *)
EXTENDS CaseClose, WellFoundedInduction, TLAPS

-----------------------------------------------------------------------------
(* The type invariant.                                                         *)

\* The comments have different numbers, none above some k.
Numbered(file) ==
    Whole(file) =>
        /\ \E k \in Nat : \A c \in file.comments : c.seq <= k
        /\ \A c, d \in file.comments : c.seq = d.seq => c = d

\* A request that was decided on GitHub finds its issue.
Backed ==
    /\ \A n \in Numbers : Numbered(issues[n]) /\ Numbered(tmp[n])
    /\ \A s \in Sessions : op[s] # Idle =>
          /\ Numbered(op[s].next)
          /\ op[s].at = "decided" => backend = "github" /\ Whole(issues[op[s].number])
          /\ op[s].at \in {"read", "truncated", "filled"} => backend = "local"

ToolInv ==
    /\ backend \in Backends
    /\ issues \in [Numbers -> Files(Issues)]
    /\ tmp \in [Numbers -> Files(Issues)]
    /\ now \in Times
    /\ op \in [Sessions -> Calls \cup {Idle}]
    /\ named \subseteq [number : Numbers, seq : Nat, posted : Times, kept : BOOLEAN]
    /\ closings \subseteq [number : Numbers, role : {"case", "tracking"},
                           text : Times, revision : Times]
    /\ Backed

\* While a check is to come, not all are done.
FlowInv ==
    /\ record \in [Numbers -> Files(Records)]
    /\ faults \in 0..MaxFaults
    /\ flow \in FlowTypes
    /\ troubles \in 0..MaxTroubles /\ trouble \in {NoTrouble} \cup Troubles
    /\ recorded \in SUBSET {"update", "comment"}
    /\ worktree \in BOOLEAN /\ branch \in BOOLEAN
    /\ latest \in {"none", "refused", "accepted"}
    /\ judged \subseteq [text : Times, revision : Times]
    /\ flow.at = "refuse" => flow.step = 0
    /\ flow.at = "check" => flow.step < Len(Checks)

TInv == ToolInv /\ FlowInv

LEMMA WholeIsIssue ==
    ASSUME NEW file \in Files(Issues)
    PROVE  Whole(file) <=> file \in Issues
BY DEF Files, Whole, Issues, Missing, Damaged

\* A set of numbers has a largest one, if there is a bound: its distance is the least.
LEMMA MaxExists ==
    ASSUME NEW S \in SUBSET Nat, S # {}, NEW k \in Nat, \A x \in S : x <= k
    PROVE  Max(S) \in S /\ \A x \in S : x <= Max(S)
<1> DEFINE R == {p \in Nat \X Nat : p[1] < p[2]}
           T == {k - x : x \in S}
<1>1. IsWellFoundedOn(R, Nat)
    BY NatLessThanWellFounded DEF OpToRel
<1>2. T \subseteq Nat /\ T # {}
    <2>1. \A x \in S : x \in Nat /\ k - x \in Nat
        OBVIOUS
    <2>2. QED
        BY <2>1
<1>3. PICK m \in T : \A y \in T : ~ (<<y, m>> \in R)
    <2> HIDE DEF R, T
    <2>1. QED
        BY <1>1, <1>2, WFMin
<1>4. PICK a \in S : m = k - a
    OBVIOUS
<1>5. ASSUME NEW x \in S PROVE x <= a
    <2>1. k - x \in Nat /\ k - a \in Nat /\ a \in Nat /\ x \in Nat
        OBVIOUS
    <2>2. ~ (<<k - x, k - a>> \in R)
        BY <1>3, <1>4
    <2>3. ~ (k - x < k - a)
        BY <2>1, <2>2
    <2>4. QED
        BY <2>1, <2>3
<1>6. \A x \in S : a >= x
    BY <1>5
<1>7. QED
    BY <1>6 DEF Max

\* No comment of the issue has a number above the high water.
LEMMA HighWaterAbove ==
    ASSUME NEW issue \in Issues, Numbered(issue)
    PROVE  HighWater(issue) \in Nat /\ \A c \in issue.comments : c.seq <= HighWater(issue)
<1> DEFINE S == {issue.high} \cup {c.seq : c \in issue.comments}
<1>1. Whole(issue) /\ issue.high \in Nat /\ \A c \in issue.comments : c.seq \in Nat
    BY DEF Issues, Comments, Whole
<1>2. PICK k \in Nat : \A c \in issue.comments : c.seq <= k
    BY <1>1 DEF Numbered
<1>3. S \in SUBSET Nat /\ S # {}
    BY <1>1
<1>4. k + issue.high \in Nat /\ \A x \in S : x <= k + issue.high
    BY <1>1, <1>2
<1>5. Max(S) \in S /\ \A x \in S : x <= Max(S)
    <2> HIDE DEF S
    <2>1. QED
        BY <1>3, <1>4, MaxExists
<1>6. QED
    BY <1>3, <1>5 DEF HighWater

\* What issue_update makes of an issue: the comments stay.
LEMMA UpdateType ==
    ASSUME now \in Nat, now < MaxTime, NEW issue \in Issues, Numbered(issue),
           NEW next \in Reworded(issue) \cup Reset(issue) \cup Retitled(issue)
    PROVE  /\ next \in Issues /\ next.comments = issue.comments
           /\ Careful => next.revision = Later
           /\ next.revision \in {issue.revision, Later}
<1>1. Later \in Times
    BY IssueToolAssumption DEF Later, Times
<1>2. \A x \in Renewals(issue) : x \in Times /\ x \in {issue.revision, Later} /\ (Careful => x = Later)
    BY <1>1 DEF Renewals, Issues
<1>3. ASSUME NEW i \in Reworded(issue)
      PROVE  /\ i \in Issues /\ i.comments = issue.comments
             /\ Careful => i.revision = Later
             /\ i.revision \in {issue.revision, Later}
    <2>1. PICK x \in Renewals(issue) : i = [issue EXCEPT !.text = Later, !.revision = x]
        BY <1>3 DEF Reworded
    <2>2. x \in Times
        BY <1>2
    <2>3. i \in Issues /\ i.comments = issue.comments /\ i.revision = x
        BY <1>1, <2>1, <2>2 DEF Issues
    <2>4. QED
        BY <1>2, <2>3
<1>4. CASE next \in Reworded(issue)
    BY <1>3, <1>4
<1>5. CASE next \in Reset(issue)
    <2>1. ASSUME NEW i \in Reworded(issue), NEW state \in {"open", "closed"},
                 NEW role \in {"case", "tracking"}, next = Saying(i, state, role)
          PROVE  /\ next \in Issues /\ next.comments = issue.comments
                 /\ Careful => next.revision = Later
                 /\ next.revision \in {issue.revision, Later}
        <3>1. i \in Issues
            BY <1>3
        <3>2. next \in Issues /\ next.comments = i.comments /\ next.revision = i.revision
            BY <2>1, <3>1 DEF Saying, Issues
        <3>3. QED
            BY <1>3, <3>2
    <2>2. CASE backend = "github"
        <3>1. PICK i \in Reworded(issue) : next = Saying(i, i.state, "tracking")
            BY <1>5, <2>2 DEF Reset
        <3>2. i.state \in {"open", "closed"} /\ "tracking" \in {"case", "tracking"}
            BY <1>3 DEF Issues
        <3>3. QED
            BY <2>1, <3>1, <3>2
    <2>3. CASE backend # "github"
        <3>1. \E i \in Reworded(issue), state \in {"open", "closed"}, role \in {"case", "tracking"} :
                  next = Saying(i, state, role)
            BY <1>5, <2>3, SMT DEF Reset
        <3>2. QED
            BY <2>1, <3>1
    <2>4. QED
        BY <2>2, <2>3
<1>6. CASE next \in Retitled(issue)
    <2>1. PICK h \in {issue.high, 0} :
              next = [issue EXCEPT !.text = Later, !.revision = Later, !.high = h]
        BY <1>6 DEF Retitled
    <2>2. h \in Nat
        BY DEF Issues
    <2>3. next \in Issues /\ next.comments = issue.comments /\ next.revision = Later
        BY <1>1, <2>1, <2>2 DEF Issues
    <2>4. QED
        BY <2>3
<1>7. QED
    BY <1>4, <1>5, <1>6

\* What a call makes of an issue is an issue again, a later one.
LEMMA ChangedType ==
    ASSUME now \in Nat, now < MaxTime,
           NEW kind \in Kinds \ {"create"}, NEW issue \in Issues, Numbered(issue), NEW seq \in Nat,
           NEW next \in Changed(kind, issue, seq)
    PROVE  /\ next \in Issues /\ Numbered(next)
           /\ SeqOf(kind, next, seq) \in Nat
           /\ Careful => next.revision = Later
           /\ next.revision \in {issue.revision, Later}
           /\ kind = "close" => next = Closed(issue)
<1> DEFINE top == HighWater(issue)
<1>1. Later \in Times /\ top \in Nat /\ Whole(issue)
      /\ \A c \in issue.comments : c.seq <= top
    BY HighWaterAbove, IssueToolAssumption DEF Later, Times, Issues, Whole
<1>2. issue.high \in Nat /\ issue.comments \subseteq Comments
      /\ (\A c, d \in issue.comments : c.seq = d.seq => c = d)
      /\ \E k \in Nat : \A c \in issue.comments : c.seq <= k
    BY <1>1 DEF Issues, Numbered
<1> HIDE DEF top
<1>3. CASE kind = "update"
    <2>1. next \in Reworded(issue) \cup Reset(issue) \cup Retitled(issue)
        BY <1>3 DEF Changed
    <2>2. /\ next \in Issues /\ next.comments = issue.comments
          /\ Careful => next.revision = Later
          /\ next.revision \in {issue.revision, Later}
        BY <2>1, UpdateType
    <2>3. QED
        BY <1>2, <1>3, <2>2 DEF Numbered, SeqOf
<1>4. CASE kind = "comment"
    <2> DEFINE all == issue.comments \cup {[seq |-> top + 1, posted |-> Later]}
    <2>1. next = [issue EXCEPT !.comments = all, !.high = top + 1, !.revision = Later]
        BY <1>1, <1>4 DEF Changed, Commented, Issues, top
    <2>2. [seq |-> top + 1, posted |-> Later] \in Comments
        BY <1>1, <1>2 DEF Comments
    <2>3. all \in SUBSET Comments /\ (\A c \in all : c.seq <= top + 1)
          /\ \A c, d \in all : c.seq = d.seq => c = d
        BY <1>1, <1>2, <2>2 DEF Comments
    <2> HIDE DEF all
    <2>4. next = [state |-> issue.state, role |-> issue.role, text |-> issue.text,
                  revision |-> Later, comments |-> all, high |-> top + 1]
        BY <2>1 DEF Issues
    <2>5. next \in Issues /\ next.high = top + 1 /\ next.revision = Later
          /\ next.comments = all /\ top + 1 \in Nat
        BY <1>1, <1>2, <2>3, <2>4 DEF Issues
    <2>6. QED
        BY <1>4, <2>3, <2>5 DEF Numbered, SeqOf
<1>5. CASE kind = "edit-comment"
    <2>1. next = [issue EXCEPT !.high = top, !.revision = Later]
        BY <1>5 DEF Changed, CommentEdited, top
    <2>2. next \in Issues /\ next.comments = issue.comments /\ next.revision = Later
        BY <1>1, <1>2, <2>1 DEF Issues
    <2>3. QED
        BY <1>2, <1>5, <2>2 DEF Numbered, SeqOf
<1>6. CASE kind = "delete-comment"
    <2>1. next = [issue EXCEPT !.comments = {c \in @ : c.seq # seq}, !.high = top,
                               !.revision = Later]
        BY <1>6 DEF Changed, CommentDeleted, top
    <2>2. next \in Issues /\ next.comments = {c \in issue.comments : c.seq # seq}
          /\ next.revision = Later
        BY <1>1, <1>2, <2>1 DEF Issues
    <2>3. QED
        BY <1>2, <1>6, <2>2 DEF Numbered, SeqOf
<1>7. CASE kind = "close"
    <2>1. next = [issue EXCEPT !.state = "closed", !.revision = Later] /\ next = Closed(issue)
        BY <1>7 DEF Changed, Closed
    <2>2. next \in Issues /\ next.comments = issue.comments /\ next.revision = Later
        BY <1>1, <1>2, <2>1 DEF Issues
    <2>3. QED
        BY <1>2, <1>7, <2>1, <2>2 DEF Numbered, SeqOf
<1>8. CASE kind = "reopen"
    <2>1. next = [issue EXCEPT !.state = "open", !.revision = Later]
        BY <1>8 DEF Changed, Reopened
    <2>2. next \in Issues /\ next.comments = issue.comments /\ next.revision = Later
        BY <1>1, <1>2, <2>1 DEF Issues
    <2>3. QED
        BY <1>2, <1>8, <2>2 DEF Numbered, SeqOf
<1>9. QED
    BY <1>3, <1>4, <1>5, <1>6, <1>7, <1>8 DEF Kinds

LEMMA CallType ==
    ASSUME NEW at \in {"checked", "decided", "read", "truncated", "filled", "applied"},
           NEW kind \in Kinds, NEW n \in Numbers, NEW next \in Issues, NEW seq \in Nat
    PROVE  /\ Call(at, kind, n, next, seq) \in Calls
           /\ Call(at, kind, n, next, seq) # Idle
           /\ Call(at, kind, n, next, seq).at = at
           /\ Call(at, kind, n, next, seq).kind = kind
           /\ Call(at, kind, n, next, seq).number = n
           /\ Call(at, kind, n, next, seq).next = next
           /\ Call(at, kind, n, next, seq).seq = seq
BY DEF Call, Calls, Idle

LEMMA LaterType ==
    ASSUME now \in Times, now < MaxTime
    PROVE  now \in Nat /\ Later \in Times
BY IssueToolAssumption DEF Later, Times

-----------------------------------------------------------------------------
(* The calls of the tool, one action at a time.                                *)

\* One call moves on; files stay files of issues.
LEMMA CallMoves ==
    ASSUME ToolInv, NEW s \in Sessions, NEW call \in Calls \cup {Idle},
           op' = [op EXCEPT ![s] = call],
           issues' \in [Numbers -> Files(Issues)],
           tmp' \in [Numbers -> Files(Issues)],
           \A n \in Numbers : Numbered(issues'[n]) /\ Numbered(tmp'[n]),
           \A n \in Numbers : backend = "github" /\ Whole(issues[n]) => Whole(issues'[n]),
           now' \in Times,
           named' \subseteq [number : Numbers, seq : Nat, posted : Times, kept : BOOLEAN],
           closings' \subseteq [number : Numbers, role : {"case", "tracking"},
                                text : Times, revision : Times],
           UNCHANGED backend,
           call # Idle =>
               /\ Numbered(call.next)
               /\ call.at = "decided" => backend = "github" /\ Whole(issues'[call.number])
               /\ call.at \in {"read", "truncated", "filled"} => backend = "local"
    PROVE  ToolInv'
<1>1. op' \in [Sessions -> Calls \cup {Idle}] /\ \A r \in Sessions : op'[r] = IF r = s THEN call ELSE op[r]
    BY DEF ToolInv
<1>2. \A r \in Sessions : op'[r] # Idle =>
          /\ Numbered(op'[r].next)
          /\ op'[r].at = "decided" => backend = "github" /\ Whole(issues'[op'[r].number])
          /\ op'[r].at \in {"read", "truncated", "filled"} => backend = "local"
    <2> SUFFICES ASSUME NEW r \in Sessions, op'[r] # Idle
                 PROVE  /\ Numbered(op'[r].next)
                        /\ op'[r].at = "decided" => backend = "github" /\ Whole(issues'[op'[r].number])
                        /\ op'[r].at \in {"read", "truncated", "filled"} => backend = "local"
        OBVIOUS
    <2>1. CASE r = s
        BY <1>1, <2>1
    <2>2. CASE r # s
        <3>1. op'[r] = op[r] /\ op[r] # Idle /\ op[r].number \in Numbers
            BY <1>1, <2>2 DEF ToolInv, Calls
        <3>2. QED
            BY <3>1 DEF ToolInv, Backed
    <2>3. QED
        BY <2>1, <2>2
<1>3. QED
    BY <1>1, <1>2 DEF ToolInv, Backed, Numbered, Whole

\* To change an issue on GitHub, or to begin a change of its file.
LEMMA BeginChange ==
    ASSUME ToolInv, NEW s \in Sessions, NEW n \in Numbers, NEW kind \in Kinds, NEW seq \in Nat,
           NEW next \in Issues, Numbered(next), Tick,
           op' = [op EXCEPT ![s] = Call(IF backend = "github" THEN "applied" ELSE "read",
                                        kind, n, next, seq)],
           issues' = IF backend = "github" THEN [issues EXCEPT ![n] = next] ELSE issues,
           named' \subseteq [number : Numbers, seq : Nat, posted : Times, kept : BOOLEAN],
           UNCHANGED <<backend, tmp, closings>>
    PROVE  ToolInv'
<1> DEFINE call == Call(IF backend = "github" THEN "applied" ELSE "read", kind, n, next, seq)
<1>1. call \in Calls /\ call.next = next
      /\ call.at = (IF backend = "github" THEN "applied" ELSE "read")
    BY CallType
<1>2. op' = [op EXCEPT ![s] = call]
    OBVIOUS
<1> HIDE DEF call
<1>3. now' \in Times
    BY LaterType DEF ToolInv, Tick
<1>4. Whole(next)
    BY DEF Issues, Whole
<1>5. issues' \in [Numbers -> Files(Issues)]
      /\ \A m \in Numbers : Numbered(issues'[m]) /\ (Whole(issues[m]) => Whole(issues'[m]))
    BY <1>4 DEF ToolInv, Backed, Files
<1>6. backend \in {"github", "local"}
    BY IssueToolAssumption DEF ToolInv
<1>7. tmp' \in [Numbers -> Files(Issues)] /\ \A m \in Numbers : Numbered(tmp'[m])
    BY DEF ToolInv, Backed
<1>8. closings' \subseteq [number : Numbers, role : {"case", "tracking"},
                           text : Times, revision : Times]
    BY DEF ToolInv
<1>9. QED
    BY <1>1, <1>2, <1>3, <1>5, <1>6, <1>7, <1>8, CallMoves

\* The comments that are not kept any more are those that were.
LEMMA NamedType ==
    ASSUME ToolInv, NEW n, NEW kind, NEW seq
    PROVE  Named(n, kind, seq) \subseteq [number : Numbers, seq : Nat, posted : Times, kept : BOOLEAN]
BY DEF ToolInv, Named, Unnamed

\* A request for anything the operation may do.
Ask(s, kind, n, seq) == Request(s, kind, n, seq, Changed(kind, issues[n], seq))

LEMMA RequestStep ==
    ASSUME ToolInv, NEW s \in Sessions, NEW kind \in Kinds \ {"create", "close"}, NEW n \in Numbers,
           NEW seq \in Nat, Ask(s, kind, n, seq)
    PROVE  ToolInv'
<1>1. issues[n] \in Issues /\ Numbered(issues[n])
    BY WholeIsIssue DEF Ask, Request, ToolInv, Backed
<1>2. now < MaxTime /\ now \in Nat
    BY LaterType DEF Ask, Request, Change, Tick, ToolInv
<1>3. PICK next \in Changed(kind, issues[n], seq) :
          /\ Tick
          /\ op' = [op EXCEPT ![s] = Call(IF backend = "github" THEN "applied" ELSE "read",
                                        kind, n, next, SeqOf(kind, next, seq))]
          /\ issues' = IF backend = "github" THEN [issues EXCEPT ![n] = next] ELSE issues
          /\ named' = Named(n, kind, seq)
    BY DEF Ask, Request, Change
<1>4. next \in Issues /\ Numbered(next) /\ SeqOf(kind, next, seq) \in Nat
    BY <1>1, <1>2, ChangedType
<1>5. named' \subseteq [number : Numbers, seq : Nat, posted : Times, kept : BOOLEAN]
    BY <1>3, NamedType
<1>6. UNCHANGED <<backend, tmp, closings>>
    BY DEF Ask, Request
<1>7. QED
    BY <1>3, <1>4, <1>5, <1>6, BeginChange

LEMMA CreateStep ==
    ASSUME ToolInv, NEW s \in Sessions, NEW role \in {"case", "tracking"}, Create(s, role)
    PROVE  ToolInv'
<1>1. Later \in Times
    BY LaterType DEF Create, Tick, ToolInv
<1>2. NewIssue(role) \in Issues /\ Numbered(NewIssue(role))
    BY <1>1 DEF NewIssue, Issues, Numbered
<1>3. NextNumber \in Numbers /\ Tick /\ named' = named /\ UNCHANGED <<backend, tmp, closings>>
    BY DEF Create
<1>4. "create" \in Kinds /\ 0 \in Nat
    BY DEF Kinds
<1>5. op' = [op EXCEPT ![s] = Call(IF backend = "github" THEN "applied" ELSE "read",
                                   "create", NextNumber, NewIssue(role), 0)]
      /\ issues' = IF backend = "github" THEN [issues EXCEPT ![NextNumber] = NewIssue(role)] ELSE issues
    BY DEF Create
<1>6. named' \subseteq [number : Numbers, seq : Nat, posted : Times, kept : BOOLEAN]
    BY <1>3 DEF ToolInv
<1>7. QED
    BY <1>2, <1>3, <1>4, <1>5, <1>6, BeginChange

\* A call that moves on while the issues stay as they are.
LEMMA CallMovesOnly ==
    ASSUME ToolInv, NEW s \in Sessions, NEW call \in Calls \cup {Idle},
           op' = [op EXCEPT ![s] = call],
           UNCHANGED <<backend, issues, tmp, named>>, now' \in Times,
           closings' \subseteq [number : Numbers, role : {"case", "tracking"},
                                text : Times, revision : Times],
           call # Idle =>
               /\ Numbered(call.next)
               /\ call.at = "decided" => backend = "github" /\ Whole(issues[call.number])
               /\ call.at \in {"read", "truncated", "filled"} => backend = "local"
    PROVE  ToolInv'
<1>1. /\ issues' \in [Numbers -> Files(Issues)]
      /\ tmp' \in [Numbers -> Files(Issues)]
      /\ \A n \in Numbers : Numbered(issues'[n]) /\ Numbered(tmp'[n])
      /\ \A n \in Numbers : backend = "github" /\ Whole(issues[n]) => Whole(issues'[n])
      /\ named' \subseteq [number : Numbers, seq : Nat, posted : Times, kept : BOOLEAN]
    BY DEF ToolInv, Backed
<1>2. call # Idle =>
               /\ Numbered(call.next)
               /\ call.at = "decided" => backend = "github" /\ Whole(issues'[call.number])
               /\ call.at \in {"read", "truncated", "filled"} => backend = "local"
    OBVIOUS
<1>3. QED
    BY <1>1, <1>2, CallMoves

LEMMA CheckCloseStep ==
    ASSUME ToolInv, NEW s \in Sessions, NEW n \in Numbers, CheckClose(s, n)
    PROVE  ToolInv'
<1>1. issues[n] \in Issues /\ Numbered(issues[n])
    BY WholeIsIssue DEF CheckClose, ToolInv, Backed
<1> DEFINE call == Call("checked", "close", n, issues[n], 0)
<1>2. call \in Calls /\ call.at = "checked" /\ call.next = issues[n]
    BY <1>1, CallType DEF Kinds
<1>3. op' = [op EXCEPT ![s] = call] /\ UNCHANGED <<backend, issues, tmp, named, now, closings>>
    BY DEF CheckClose
<1> HIDE DEF call
<1>4. now' \in Times
      /\ closings' \subseteq [number : Numbers, role : {"case", "tracking"}, text : Times, revision : Times]
    BY <1>3 DEF ToolInv
<1>5. QED
    BY <1>1, <1>2, <1>3, <1>4, CallMovesOnly

LEMMA DecideStep ==
    ASSUME ToolInv, NEW s \in Sessions, Decide(s)
    PROVE  ToolInv'
<1> DEFINE n    == op[s].number
           at   == IF backend = "github" THEN "decided" ELSE "read"
           call == Call(at, "close", n, Closed(issues[n]), 0)
<1>1. op[s] \in Calls /\ n \in Numbers
    BY DEF ToolInv, Decide, Calls, Idle
<1>2. issues[n] \in Issues /\ Numbered(issues[n]) /\ Whole(issues[n])
    BY <1>1, WholeIsIssue DEF Decide, RunnerVerifies, ToolInv, Backed
<1>3. now < MaxTime /\ now \in Nat /\ now \in Times /\ Later \in Times
    BY LaterType DEF Decide, ToolInv
<1>4. Closed(issues[n]) \in Changed("close", issues[n], 0)
      /\ "close" \in Kinds \ {"create"}
    BY DEF Changed, Kinds
<1>5. Closed(issues[n]) \in Issues /\ Numbered(Closed(issues[n]))
    BY <1>2, <1>3, <1>4, ChangedType
<1>6. call \in Calls /\ call.at = at /\ call.next = Closed(issues[n]) /\ call.number = n
    BY <1>1, <1>4, <1>5, CallType
<1>7. backend \in {"github", "local"}
    BY IssueToolAssumption DEF ToolInv
<1>8. AsRead(n) \in [number : Numbers, role : {"case", "tracking"}, text : Times, revision : Times]
    BY <1>1, <1>2 DEF AsRead, Issues
<1>9. op' = [op EXCEPT ![s] = call] /\ UNCHANGED <<backend, issues, tmp, named>>
      /\ closings' = closings \cup {AsRead(n)} /\ now' \in {now, Later}
    BY DEF Decide
<1> HIDE DEF call
<1>10. now' \in Times
       /\ closings' \subseteq [number : Numbers, role : {"case", "tracking"}, text : Times, revision : Times]
    BY <1>3, <1>8, <1>9 DEF ToolInv
<1>11. QED
    BY <1>2, <1>5, <1>6, <1>7, <1>9, <1>10, CallMovesOnly

LEMMA EndsOnly ==
    ASSUME ToolInv, NEW s \in Sessions, op' = [op EXCEPT ![s] = Idle],
           UNCHANGED <<backend, issues, tmp, now, named, closings>>
    PROVE  ToolInv'
<1>1. now' \in Times
      /\ closings' \subseteq [number : Numbers, role : {"case", "tracking"}, text : Times, revision : Times]
    BY DEF ToolInv
<1>2. QED
    BY <1>1, CallMovesOnly

LEMMA PatchStep ==
    ASSUME ToolInv, NEW s \in Sessions, Patch(s)
    PROVE  ToolInv'
<1> DEFINE n == op[s].number
           call == [op[s] EXCEPT !.at = "applied"]
<1>1. op[s] \in Calls /\ n \in Numbers /\ op[s] # Idle
    BY DEF ToolInv, Patch, Calls, Idle
<1>2. issues[n] \in Issues /\ Numbered(issues[n]) /\ Numbered(op[s].next) /\ backend = "github"
    BY <1>1, WholeIsIssue DEF Patch, ToolInv, Backed
<1>3. now < MaxTime /\ now \in Nat /\ now' \in Times
    BY LaterType DEF Patch, Tick, ToolInv
<1>4. Closed(issues[n]) \in Changed("close", issues[n], 0)
      /\ "close" \in Kinds \ {"create"}
    BY DEF Changed, Kinds
<1>5. Closed(issues[n]) \in Issues /\ Numbered(Closed(issues[n])) /\ Whole(Closed(issues[n]))
    <2>1. Closed(issues[n]) \in Issues /\ Numbered(Closed(issues[n]))
        BY <1>2, <1>3, <1>4, ChangedType
    <2>2. QED
        BY <2>1 DEF Issues, Whole
<1>6. call \in Calls /\ call.at = "applied" /\ call.next = op[s].next
    BY <1>1 DEF Calls
<1>7. op' = [op EXCEPT ![s] = call] /\ UNCHANGED <<backend, tmp, named, closings>>
      /\ issues' = [issues EXCEPT ![n] = Closed(issues[n])]
    BY DEF Patch
<1> HIDE DEF call
<1>8. issues' \in [Numbers -> Files(Issues)]
      /\ \A m \in Numbers : Numbered(issues'[m]) /\ (Whole(issues[m]) => Whole(issues'[m]))
    BY <1>1, <1>5, <1>7 DEF ToolInv, Backed, Files
<1>9. tmp' \in [Numbers -> Files(Issues)] /\ (\A m \in Numbers : Numbered(tmp'[m]))
      /\ named' \subseteq [number : Numbers, seq : Nat, posted : Times, kept : BOOLEAN]
      /\ closings' \subseteq [number : Numbers, role : {"case", "tracking"}, text : Times, revision : Times]
    BY <1>7 DEF ToolInv, Backed
<1>10. QED
    BY <1>2, <1>3, <1>6, <1>7, <1>8, <1>9, CallMoves

\* The steps of a write to a file change the temporary file or put it in place.
LEMMA WriteMoves ==
    ASSUME ToolInv, NEW s \in Sessions, NEW call \in {Idle} \cup {[op[s] EXCEPT !.at = at] :
                                                       at \in {"truncated", "filled", "applied"}},
           op[s] \in Calls, op[s].at \in {"read", "truncated", "filled"},
           op' = [op EXCEPT ![s] = call],
           issues' \in [Numbers -> Files(Issues)],
           tmp' \in [Numbers -> Files(Issues)],
           \A n \in Numbers : Numbered(issues'[n]) /\ Numbered(tmp'[n]),
           UNCHANGED <<backend, now, named, closings>>
    PROVE  ToolInv'
<1>1. call \in Calls \cup {Idle}
      /\ (call # Idle => call.next = op[s].next /\ call.at \in {"truncated", "filled", "applied"})
    BY DEF Calls
<1>2. op[s] # Idle
    BY DEF Idle
<1>3. backend = "local" /\ Numbered(op[s].next)
    BY <1>2 DEF ToolInv, Backed
<1>4. call # Idle =>
               /\ Numbered(call.next)
               /\ call.at = "decided" => backend = "github" /\ Whole(issues'[call.number])
               /\ call.at \in {"read", "truncated", "filled"} => backend = "local"
    BY <1>1, <1>3
<1>5. \A n \in Numbers : backend = "github" /\ Whole(issues[n]) => Whole(issues'[n])
    BY <1>3
<1>6. /\ now' \in Times
      /\ named' \subseteq [number : Numbers, seq : Nat, posted : Times, kept : BOOLEAN]
      /\ closings' \subseteq [number : Numbers, role : {"case", "tracking"}, text : Times, revision : Times]
    BY DEF ToolInv
<1>7. QED
    BY <1>1, <1>4, <1>5, <1>6, CallMoves

LEMMA WriteStep ==
    ASSUME ToolInv, NEW s \in Sessions, Write(s) \/ RenameFails(s)
    PROVE  ToolInv'
<1> DEFINE n == op[s].number
<1>1. op[s] \in Calls /\ n \in Numbers /\ op[s] # Idle /\ op[s].at \in {"read", "truncated", "filled"}
    BY DEF ToolInv, Write, Truncate, Fill, Rename, RenameFails, Calls, Idle
<1>2. Numbered(Damaged) /\ Numbered(Missing) /\ Damaged \in Files(Issues) /\ Missing \in Files(Issues)
    BY DEF Numbered, Whole, Damaged, Missing, Files
<1>3. op[s].next \in Files(Issues) /\ Numbered(op[s].next)
    BY <1>1 DEF Calls, Files, ToolInv, Backed
<1>4. issues \in [Numbers -> Files(Issues)] /\ tmp \in [Numbers -> Files(Issues)]
      /\ \A m \in Numbers : Numbered(issues[m]) /\ Numbered(tmp[m])
    BY DEF ToolInv, Backed
<1>5. CASE Truncate(s)
    <2>1. op' = [op EXCEPT ![s] = [op[s] EXCEPT !.at = "truncated"]]
          /\ tmp' = [tmp EXCEPT ![n] = Damaged] /\ UNCHANGED <<backend, issues, now, named, closings>>
        BY <1>5 DEF Truncate
    <2>2. tmp' \in [Numbers -> Files(Issues)] /\ \A m \in Numbers : Numbered(tmp'[m])
        BY <1>1, <1>2, <1>4, <2>1
    <2>3. QED
        BY <1>1, <1>4, <2>1, <2>2, WriteMoves
<1>6. CASE Fill(s)
    <2>1. op' = [op EXCEPT ![s] = [op[s] EXCEPT !.at = "filled"]]
          /\ tmp' = [tmp EXCEPT ![n] = op[s].next] /\ UNCHANGED <<backend, issues, now, named, closings>>
        BY <1>6 DEF Fill
    <2>2. tmp' \in [Numbers -> Files(Issues)] /\ \A m \in Numbers : Numbered(tmp'[m])
        BY <1>1, <1>3, <1>4, <2>1
    <2>3. QED
        BY <1>1, <1>4, <2>1, <2>2, WriteMoves
<1>7. CASE Rename(s)
    <2> DEFINE call == IF tmp[n] = Missing THEN Idle ELSE [op[s] EXCEPT !.at = "applied"]
    <2>1. op' = [op EXCEPT ![s] = call]
          /\ issues' = (IF tmp[n] = Missing THEN issues ELSE [issues EXCEPT ![n] = tmp[n]])
          /\ tmp' = [tmp EXCEPT ![n] = Missing] /\ UNCHANGED <<backend, now, named, closings>>
        BY <1>7 DEF Rename
    <2>2. tmp' \in [Numbers -> Files(Issues)] /\ \A m \in Numbers : Numbered(tmp'[m])
        BY <1>1, <1>2, <1>4, <2>1
    <2>3. issues' \in [Numbers -> Files(Issues)] /\ \A m \in Numbers : Numbered(issues'[m])
        BY <1>1, <1>4, <2>1
    <2>4. call \in {Idle} \cup {[op[s] EXCEPT !.at = at] : at \in {"truncated", "filled", "applied"}}
        OBVIOUS
    <2> HIDE DEF call
    <2>5. QED
        BY <1>1, <2>1, <2>2, <2>3, <2>4, WriteMoves
<1>8. CASE RenameFails(s)
    <2>1. op' = [op EXCEPT ![s] = Idle]
          /\ tmp' = [tmp EXCEPT ![n] = Missing] /\ UNCHANGED <<backend, issues, now, named, closings>>
        BY <1>8 DEF RenameFails
    <2>2. tmp' \in [Numbers -> Files(Issues)] /\ \A m \in Numbers : Numbered(tmp'[m])
        BY <1>1, <1>2, <1>4, <2>1
    <2>3. QED
        BY <1>1, <1>4, <2>1, <2>2, WriteMoves
<1>9. QED
    BY <1>5, <1>6, <1>7, <1>8 DEF Write

LEMMA ConfirmStep ==
    ASSUME ToolInv, NEW s \in Sessions, Confirm(s)
    PROVE  ToolInv'
<1> DEFINE n == op[s].number
<1>1. op[s] \in Calls /\ n \in Numbers
    BY DEF ToolInv, Confirm, Calls, Idle
<1>2. Whole(issues[n]) => issues[n].comments \subseteq Comments
    <2>1. issues[n] \in Files(Issues)
        BY <1>1 DEF ToolInv
    <2>2. Whole(issues[n]) => issues[n] \in Issues
        BY <2>1, WholeIsIssue
    <2>3. QED
        BY <2>2 DEF Issues
<1>3. named' \subseteq [number : Numbers, seq : Nat, posted : Times, kept : BOOLEAN]
    <2>1. CASE op[s].kind = "comment" /\ Whole(issues[n])
        <3>1. named' = named \cup {[number |-> n, seq |-> c.seq, posted |-> c.posted, kept |-> TRUE] :
                                      c \in {x \in issues[n].comments : x.seq = op[s].seq}}
            BY <2>1 DEF Confirm
        <3>2. \A c \in issues[n].comments : c.seq \in Nat /\ c.posted \in Times
            BY <1>2, <2>1 DEF Comments
        <3>3. \A c \in issues[n].comments :
                  [number |-> n, seq |-> c.seq, posted |-> c.posted, kept |-> TRUE]
                    \in [number : Numbers, seq : Nat, posted : Times, kept : BOOLEAN]
            BY <1>1, <3>2
        <3>4. QED
            BY <3>1, <3>3 DEF ToolInv
    <2>2. CASE ~ (op[s].kind = "comment" /\ Whole(issues[n]))
        <3>1. named' = named
            BY <2>2 DEF Confirm
        <3>2. QED
            BY <3>1 DEF ToolInv
    <2>3. QED
        BY <2>1, <2>2
<1>4. /\ issues' \in [Numbers -> Files(Issues)]
      /\ tmp' \in [Numbers -> Files(Issues)]
      /\ \A m \in Numbers : Numbered(issues'[m]) /\ Numbered(tmp'[m])
      /\ \A m \in Numbers : backend = "github" /\ Whole(issues[m]) => Whole(issues'[m])
      /\ now' \in Times /\ UNCHANGED backend
      /\ closings' \subseteq [number : Numbers, role : {"case", "tracking"}, text : Times, revision : Times]
      /\ op' = [op EXCEPT ![s] = Idle]
    BY DEF Confirm, ToolInv, Backed
<1>5. QED
    BY <1>3, <1>4, CallMoves

\* What a session does with the tool.
ToolStep(s) == Make(s) \/ Proceed(s) \/ Fault(s)

LEMMA ToolStepType ==
    ASSUME ToolInv, NEW s \in Sessions, ToolStep(s)
    PROVE  ToolInv'
<1>1. CASE \E n \in Numbers, kind \in Kinds \ {"create", "close"} :
              \E seq \in {0} \cup {c.seq : c \in IF Whole(issues[n]) THEN issues[n].comments ELSE {}} :
                  Ask(s, kind, n, seq)
    <2>1. PICK n \in Numbers, kind \in Kinds \ {"create", "close"} :
              \E seq \in {0} \cup {c.seq : c \in IF Whole(issues[n]) THEN issues[n].comments ELSE {}} :
                  Ask(s, kind, n, seq)
        BY <1>1
    <2>2. Whole(issues[n]) => \A c \in issues[n].comments : c.seq \in Nat
        <3>1. issues[n] \in Files(Issues)
            BY DEF ToolInv
        <3>2. Whole(issues[n]) => issues[n] \in Issues
            BY <3>1, WholeIsIssue
        <3>3. QED
            BY <3>2 DEF Issues, Comments
    <2>3. \E seq \in Nat : Ask(s, kind, n, seq)
        BY <2>1, <2>2
    <2>4. QED
        BY <2>3, RequestStep
<1>2. CASE \E role \in {"case", "tracking"} : Create(s, role)
    BY <1>2, CreateStep
<1>3. CASE \E n \in Numbers : CheckClose(s, n)
    BY <1>3, CheckCloseStep
<1>4. CASE Refuse(s) \/ Crash(s)
    BY <1>4, EndsOnly DEF Refuse, Crash
<1>5. CASE Proceed(s) \/ Fault(s)
    BY <1>4, <1>5, DecideStep, PatchStep, WriteStep, ConfirmStep DEF Proceed, Fault
<1>6. QED
    BY <1>1, <1>2, <1>3, <1>5 DEF ToolStep, Make, Ask

\* A step of a behaviour is one of a session with the tool, or it leaves what the
\* tool works on alone but for the record.
LEMMA StepCases ==
    ASSUME ToolInv, [Next]_vars
    PROVE  \/ \E s \in Sessions : ToolStep(s)
           \/ UNCHANGED <<backend, issues, tmp, op, now, named, closings, reset>>
<1> USE DEF vars, toolVars
<1>1. Case \in Numbers /\ Closer \in Sessions
    BY IssueToolAssumption, CaseCloseAssumption DEF Case, Numbers
<1>2. ASSUME RecordWork PROVE ToolStep(Closer)
    <2>1. PICK i \in DOMAIN Notes :
              Request(Closer, Notes[i], Case, 0,
                      IF Notes[i] = "update" THEN Reworded(issues[Case])
                      ELSE Changed(Notes[i], issues[Case], 0))
        BY <1>2 DEF RecordWork
    <2>2. Notes[i] \in Kinds \ {"create", "close"}
        BY DEF Notes, Kinds
    <2>3. Reworded(issues[Case]) \subseteq Changed("update", issues[Case], 0)
        BY DEF Changed
    <2>4. Ask(Closer, Notes[i], Case, 0)
        BY <2>1, <2>3 DEF Ask, Request
    <2>5. QED
        BY <1>1, <2>2, <2>4 DEF Ask, ToolStep, Make
<1>3. ASSUME CloseCase PROVE ToolStep(Closer)
    BY <1>1, <1>3 DEF CloseCase, ToolStep, Make
<1>4. ASSUME Machine
      PROVE  UNCHANGED <<backend, issues, tmp, op, now, named, closings, reset>>
    BY <1>4 DEF Machine, RefuseFirst, CheckAvailability, Poll, Check, Assemble, Accept, Unaccept,
       Reclaim, RemoveWorktree, RemoveBranch, WriteRecord
<1>5. ASSUME Workflow
      PROVE  \/ ToolStep(Closer)
             \/ UNCHANGED <<backend, issues, tmp, op, now, named, closings, reset>>
    <2>1. CASE RecordWork \/ CloseCase
        BY <1>2, <1>3, <2>1
    <2>2. CASE CloserProceeds
        BY <2>2 DEF CloserProceeds, ToolStep
    <2>3. CASE Prepare \/ Resume \/ CloseRefused \/ Closes \/ CleanUpAgain
        BY <2>3 DEF Prepare, Resume, CloseRefused, Closes, CleanUpAgain
    <2>4. QED
        BY <1>5, <2>1, <2>2, <2>3 DEF Workflow
<1>6. ASSUME MachineStops \/ World
      PROVE  UNCHANGED <<backend, issues, tmp, op, now, named, closings, reset>>
    BY <1>6 DEF MachineStops, World
<1>7. ASSUME CloserFails PROVE ToolStep(Closer)
    BY <1>7 DEF CloserFails, ToolStep
<1>8. ASSUME NEW s \in Sessions \ {Closer}, OtherMakes(s) \/ OtherProceeds(s) \/ OtherFails(s)
      PROVE  ToolStep(s)
    BY <1>8 DEF OtherMakes, OtherProceeds, OtherFails, ToolStep
<1>9. QED
    BY <1>1, <1>4, <1>5, <1>6, <1>7, <1>8 DEF Next

LEMMA ToolInvNext ==
    ASSUME ToolInv, [Next]_vars
    PROVE  ToolInv'
<1>1. CASE \E s \in Sessions : ToolStep(s)
    BY <1>1, ToolStepType
<1>2. CASE UNCHANGED <<backend, issues, tmp, op, now, named, closings, reset>>
    BY <1>2 DEF ToolInv, Backed, Numbered, Whole
<1>3. QED
    BY <1>1, <1>2, StepCases

-----------------------------------------------------------------------------
(* The machine and the workflow, one action at a time.                         *)

LEMMA TwelveChecks == Len(Checks) = 12
BY DEF Checks

LEMMA BeginType == AtBegin \in FlowTypes /\ AtBegin.at = "begin"
BY IssueToolAssumption, CaseCloseAssumption, TwelveChecks DEF AtBegin, FlowTypes, Places, Times

LEMMA WorseType ==
    ASSUME NEW status
    PROVE  /\ Worse(status) \in {"pass", "warn", "fail"}
           /\ Worse(status) = "pass" => flow.worst # "fail" /\ flow.worst # "warn" /\ status # "fail" /\ status # "warn"
BY DEF Worse

LEMMA RecordType ==
    ASSUME FlowInv, NEW accepted \in BOOLEAN
    PROVE  /\ RecordFor(accepted) \in Records
           /\ \A w \in WriteOutcomes(accepted) : w.file \in Files(Records) /\ w.fault \in {0, 1}
<1>1. RecordFor(accepted) \in Records
    BY DEF FlowInv, FlowTypes, RecordFor, Records
<1>2. record[Case] \in Files(Records)
    BY IssueToolAssumption DEF FlowInv, Case, Numbers
<1>3. QED
    BY <1>1, <1>2 DEF WriteOutcomes, Files

LEMMA WriteRecordType ==
    ASSUME FlowInv, NEW accepted \in BOOLEAN, NEW w \in WriteOutcomes(accepted), WriteRecord(w)
    PROVE  record' \in [Numbers -> Files(Records)] /\ faults' \in 0..MaxFaults
<1>1. w.file \in Files(Records) /\ w.fault \in {0, 1}
    BY RecordType
<1>2. faults' \in 0..MaxFaults
    BY <1>1, IssueToolAssumption DEF FlowInv, WriteRecord
<1>3. record' = [record EXCEPT ![Case] = w.file]
    BY DEF WriteRecord
<1>4. QED
    BY <1>1, <1>2, <1>3 DEF FlowInv

\* The rest of the flow stays as it is.
Rest == <<trouble, troubles, recorded, worktree, branch, latest, judged>>

LEMMA FlowMoves ==
    ASSUME FlowInv, UNCHANGED Rest, UNCHANGED <<record, faults>>,
           flow' \in FlowTypes,
           flow'.at = "refuse" => flow'.step = 0,
           flow'.at = "check" => flow'.step < Len(Checks)
    PROVE  FlowInv'
BY DEF FlowInv, Rest

LEMMA BeginsAndEnds ==
    ASSUME TInv, Prepare \/ Resume \/ CloseRefused \/ Closes \/ CleanUpAgain \/ Assemble
    PROVE  FlowInv'
<1> USE DEF TInv
<1>1. UNCHANGED Rest /\ UNCHANGED <<record, faults>>
    BY DEF Prepare, Resume, CloseRefused, Closes, CleanUpAgain, Assemble, Rest, toolVars
<1>2. CASE Prepare
    <2>1. issues[Case] \in Files(Issues)
        BY IssueToolAssumption DEF ToolInv, Case, Numbers
    <2>2. issues[Case] \in Issues
        BY <1>2, <2>1, WholeIsIssue DEF Prepare, Whole
    <2>3. issues[Case].revision \in Times /\ issues[Case].text \in Times
        BY <2>2 DEF Issues
    <2>4. flow' = [AtBegin EXCEPT !.at = "refuse", !.revision = issues[Case].revision,
                                  !.text = issues[Case].text]
        BY <1>2 DEF Prepare
    <2>5. flow' = [at |-> "refuse", revision |-> issues[Case].revision, text |-> issues[Case].text,
                   step |-> 0, attempts |-> 0, worst |-> "pass", allowed |-> FALSE]
        BY <2>4 DEF AtBegin
    <2>6. 0 \in 0..Len(Checks) /\ 0 \in 0..MaxAttempts
        BY CaseCloseAssumption, TwelveChecks
    <2>7. flow' \in FlowTypes /\ flow'.at = "refuse" /\ flow'.step = 0
        BY <2>3, <2>5, <2>6 DEF FlowTypes, Places
    <2>8. QED
        BY <1>1, <2>7, FlowMoves
<1>3. CASE Resume \/ CleanUpAgain
    <2>1. flow' = [AtBegin EXCEPT !.at = "reclaim"]
        BY <1>3 DEF Resume, CleanUpAgain
    <2>2. flow' \in FlowTypes /\ flow'.at = "reclaim"
        BY <2>1, BeginType DEF FlowTypes, Places
    <2>3. QED
        BY <1>1, <2>2, FlowMoves
<1>4. CASE CloseRefused \/ Closes
    <2>1. flow' = AtBegin
        BY <1>4 DEF CloseRefused, Closes
    <2>2. QED
        BY <1>1, <2>1, BeginType, FlowMoves
<1>5. CASE Assemble
    <2>1. flow' = [flow EXCEPT !.at = "accept"] \/ flow' = AtBegin
        BY <1>5 DEF Assemble
    <2>2. flow' \in FlowTypes /\ flow'.at \in {"accept", "begin"}
        BY <2>1, BeginType DEF FlowTypes, Places, FlowInv
    <2>3. QED
        BY <1>1, <2>2, FlowMoves
<1>6. QED
    BY <1>2, <1>3, <1>4, <1>5

\* A check that is done, and a poll that is not, leave the machine among its steps.
LEMMA CheckDoneType ==
    ASSUME FlowInv, flow.at = "check", NEW status, NEW early \in BOOLEAN, CheckDone(status, early)
    PROVE  flow' \in FlowTypes /\ flow'.at \in {"check", "assemble"}
           /\ (flow'.at = "check" => flow'.step < Len(Checks))
<1>1. flow \in FlowTypes /\ flow.step \in 0..12 /\ flow.step < 12
    BY TwelveChecks DEF FlowInv, FlowTypes
<1> DEFINE at      == IF early \/ flow.step + 1 = 12 THEN "assemble" ELSE "check"
           allowed == IF NextCheck = "acceptance-evaluation" THEN Seen = "pass" ELSE flow.allowed
           worst   == Worse(status)
<1>2. flow' = [flow EXCEPT !.worst = worst, !.step = @ + 1, !.at = at, !.allowed = allowed]
    BY TwelveChecks DEF CheckDone
<1>3. worst \in {"pass", "warn", "fail"} /\ at \in Places /\ at \in {"check", "assemble"}
      /\ (at = "check" => flow.step + 1 < 12)
    BY <1>1, WorseType DEF Places
<1>4. allowed \in BOOLEAN
    BY <1>1 DEF FlowTypes
<1> HIDE DEF worst, at, allowed
<1>5. flow.step + 1 \in 0..12
    BY <1>1
<1>6. QED
    BY <1>1, <1>2, <1>3, <1>4, <1>5, TwelveChecks DEF FlowTypes

LEMMA ChecksType ==
    ASSUME TInv, CheckAvailability \/ Poll \/ Check
    PROVE  FlowInv'
<1> USE DEF TInv
<1>1. UNCHANGED Rest /\ UNCHANGED <<record, faults>> /\ flow.at = "check"
    BY DEF CheckAvailability, Poll, Check, Rest, toolVars
<1>2. ASSUME NEW status, NEW early \in BOOLEAN, CheckDone(status, early)
      PROVE  FlowInv'
    <2>1. flow' \in FlowTypes /\ flow'.at \in {"check", "assemble"}
          /\ (flow'.at = "check" => flow'.step < Len(Checks))
        BY <1>1, <1>2, CheckDoneType
    <2>2. QED
        BY <1>1, <2>1, FlowMoves
<1>3. CASE PollsLeft /\ flow' = [flow EXCEPT !.attempts = @ + 1]
    <2>1. flow \in FlowTypes /\ flow.attempts + 1 \in 0..MaxAttempts
        BY <1>3, CaseCloseAssumption DEF FlowInv, FlowTypes, PollsLeft
    <2>2. flow' \in FlowTypes /\ flow'.at = flow.at /\ flow'.step = flow.step
        BY <1>3, <2>1 DEF FlowTypes
    <2>3. QED
        BY <1>1, <2>2, FlowMoves DEF FlowInv
<1>4. CASE CheckAvailability
    <2>1. CheckDone(Seen, Seen = "fail")
        BY <1>4 DEF CheckAvailability
    <2>2. QED
        BY <1>2, <2>1
<1>5. CASE Poll
    <2>1. \/ PollsLeft /\ flow' = [flow EXCEPT !.attempts = @ + 1]
          \/ CheckDone("fail", TRUE) \/ CheckDone("pass", FALSE) \/ CheckDone("warn", FALSE)
        BY <1>5 DEF Poll
    <2>2. QED
        BY <1>2, <1>3, <2>1
<1>6. CASE Check
    <2>1. CheckDone(IF Seen = "undetermined" THEN "pass" ELSE Seen, FALSE)
        BY <1>6 DEF Check
    <2>2. QED
        BY <1>2, <2>1
<1>7. QED
    BY <1>4, <1>5, <1>6

LEMMA RecordsType ==
    ASSUME TInv, RefuseFirst \/ Accept \/ Unaccept
    PROVE  FlowInv'
<1> USE DEF TInv
<1>1. UNCHANGED <<trouble, troubles, recorded, worktree, branch>>
    BY DEF RefuseFirst, Accept, Unaccept
<1>2. flow \in FlowTypes /\ judged \subseteq [text : Times, revision : Times]
    BY DEF FlowInv
<1>3. [text |-> flow.text, revision |-> flow.revision] \in [text : Times, revision : Times]
    BY <1>2 DEF FlowTypes
<1>4. CASE RefuseFirst
    <2>1. PICK w \in WriteOutcomes(FALSE) :
              /\ WriteRecord(w)
              /\ flow' = [flow EXCEPT !.at = "check", !.worst = IF w.written THEN "pass" ELSE "fail"]
              /\ latest' = IF w.written THEN "refused" ELSE latest
        BY <1>4 DEF RefuseFirst
    <2>2. flow' \in FlowTypes /\ flow'.at = "check" /\ flow'.step = flow.step
        BY <1>2, <2>1 DEF FlowTypes, Places
    <2>3. flow.step = 0 /\ judged' = judged
        BY <1>4 DEF RefuseFirst, FlowInv
    <2>4. record' \in [Numbers -> Files(Records)] /\ faults' \in 0..MaxFaults
        BY <2>1, WriteRecordType
    <2>5. QED
        BY <1>1, <1>2, <2>1, <2>2, <2>3, <2>4, TwelveChecks DEF FlowInv
<1>5. CASE Accept
    <2>1. PICK w \in WriteOutcomes(TRUE) :
              /\ WriteRecord(w)
              /\ flow' \in {[flow EXCEPT !.at = "record"], [flow EXCEPT !.at = "unaccept"]}
              /\ latest' = IF w.written THEN "accepted" ELSE latest
              /\ judged' \in {judged \cup {[text |-> flow.text, revision |-> flow.revision]}, judged}
        BY <1>5 DEF Accept
    <2>2. flow' \in FlowTypes /\ flow'.at \in {"record", "unaccept"}
        BY <1>2, <2>1 DEF FlowTypes, Places
    <2>3. record' \in [Numbers -> Files(Records)] /\ faults' \in 0..MaxFaults
        BY <2>1, WriteRecordType
    <2>4. judged' \subseteq [text : Times, revision : Times]
        BY <1>2, <1>3, <2>1
    <2>5. QED
        BY <1>1, <2>1, <2>2, <2>3, <2>4 DEF FlowInv
<1>6. CASE Unaccept
    <2>1. PICK w \in WriteOutcomes(FALSE) :
              /\ WriteRecord(w)
              /\ latest' = IF w.written THEN "refused" ELSE latest
        BY <1>6 DEF Unaccept
    <2>2. record' \in [Numbers -> Files(Records)] /\ faults' \in 0..MaxFaults
        BY <2>1, WriteRecordType
    <2>3. flow' = AtBegin /\ judged' = judged
        BY <1>6 DEF Unaccept
    <2>4. QED
        BY <1>1, <2>1, <2>2, <2>3, BeginType DEF FlowInv
<1>7. QED
    BY <1>4, <1>5, <1>6

LEMMA CleanupType ==
    ASSUME TInv, Reclaim \/ RemoveWorktree \/ RemoveBranch
    PROVE  FlowInv'
<1> USE DEF TInv
<1>1. flow \in FlowTypes /\ worktree \in BOOLEAN /\ branch \in BOOLEAN
    BY DEF FlowInv
<1>2. CASE Reclaim
    <2>1. PICK status \in {"pass", "warn", "fail"}, file \in {record[Case], Missing} :
              /\ record' = [record EXCEPT ![Case] = file]
              /\ flow' = [flow EXCEPT !.at = "remove-worktree", !.worst = Worse(status)]
        BY <1>2 DEF Reclaim
    <2>2. flow' \in FlowTypes /\ flow'.at = "remove-worktree"
        BY <1>1, <2>1, WorseType DEF FlowTypes, Places
    <2>3. record' \in [Numbers -> Files(Records)]
        BY <2>1, IssueToolAssumption DEF FlowInv, Files, Case, Numbers
    <2>4. QED
        BY <1>2, <2>2, <2>3 DEF FlowInv, Reclaim
<1>3. CASE RemoveWorktree
    <2>1. PICK removed \in BOOLEAN, asked \in BOOLEAN :
              /\ worktree' = (worktree /\ ~ removed)
              /\ flow' = [flow EXCEPT !.at = "remove-branch", !.allowed = asked => removed]
        BY <1>3 DEF RemoveWorktree
    <2>2. flow' \in FlowTypes /\ flow'.at = "remove-branch" /\ worktree' \in BOOLEAN
        BY <1>1, <2>1 DEF FlowTypes, Places
    <2>3. QED
        BY <1>3, <2>2 DEF FlowInv, RemoveWorktree, toolVars
<1>4. CASE RemoveBranch
    <2>1. PICK removed \in BOOLEAN, refused \in BOOLEAN, seen \in BOOLEAN :
              /\ branch' = (branch /\ ~ removed)
              /\ flow' = [flow EXCEPT !.at = "ended", !.allowed = FALSE,
                                !.worst = Worse(IF CleanupOk(branch' /\ seen, refused)
                                                THEN "pass" ELSE "warn")]
        BY <1>4 DEF RemoveBranch
    <2>2. flow' \in FlowTypes /\ flow'.at = "ended" /\ branch' \in BOOLEAN
        BY <1>1, <2>1, WorseType DEF FlowTypes, Places
    <2>3. QED
        BY <1>4, <2>2 DEF FlowInv, RemoveBranch, toolVars
<1>5. QED
    BY <1>2, <1>3, <1>4

LEMMA StopsType ==
    ASSUME TInv, MachineStops \/ World
    PROVE  FlowInv'
<1> USE DEF TInv
<1>1. CASE MachineStops
    <2>1. record' = record \/ record' = [record EXCEPT ![Case] = Damaged]
        BY <1>1 DEF MachineStops
    <2>2. record' \in [Numbers -> Files(Records)]
        BY <2>1 DEF FlowInv, Files
    <2>3. faults' \in 0..MaxFaults
        BY <1>1, IssueToolAssumption DEF MachineStops, FlowInv
    <2>4. QED
        BY <1>1, <2>2, <2>3, BeginType DEF FlowInv, MachineStops
<1>2. CASE World
    <2>1. troubles' \in 0..MaxTroubles /\ trouble' \in {NoTrouble} \cup Troubles
        BY <1>2, CaseCloseAssumption DEF World, FlowInv
    <2>2. QED
        BY <1>2, <2>1 DEF World, FlowInv, toolVars
<1>3. QED
    BY <1>1, <1>2

\* A call of the tool changes the flow only by what the workflow makes of it.
LEMMA FaultsType ==
    ASSUME FlowInv, NEW s \in Sessions
    PROVE  /\ Make(s) \/ Proceed(s) => UNCHANGED <<record, faults>>
           /\ Fault(s) => record' = record /\ faults' \in 0..MaxFaults
<1>1. Make(s) => UNCHANGED <<record, faults>>
    BY DEF Make, Request, Create, CheckClose
<1>2. Proceed(s) => UNCHANGED <<record, faults>>
    BY DEF Proceed, Decide, Refuse, Patch, Write, Truncate, Fill, Rename, Confirm
<1>3. Fault(s) => record' = record /\ faults' \in 0..MaxFaults
    BY IssueToolAssumption DEF Fault, RenameFails, Crash, FlowInv
<1>4. QED
    BY <1>1, <1>2, <1>3

LEMMA WorkflowCallsType ==
    ASSUME TInv, RecordWork \/ CloseCase \/ CloserProceeds \/ CloserFails
    PROVE  FlowInv'
<1> USE DEF TInv
<1>1. Closer \in Sessions
    BY CaseCloseAssumption
<1>2. CASE RecordWork
    <2>1. PICK i \in DOMAIN Notes :
              /\ \E nexts : Request(Closer, Notes[i], Case, 0, nexts)
              /\ recorded' \in {recorded, recorded \cup {Notes[i]}}
        BY <1>2 DEF RecordWork
    <2>2. Notes[i] \in {"update", "comment"} /\ UNCHANGED <<record, faults>>
        BY <2>1 DEF Notes, Request
    <2>3. recorded' \in SUBSET {"update", "comment"}
        BY <2>1, <2>2 DEF FlowInv
    <2>4. QED
        BY <1>2, <2>2, <2>3 DEF FlowInv, RecordWork
<1>3. CASE CloseCase
    <2>1. flow' = [flow EXCEPT !.at = "close"] /\ UNCHANGED Rest /\ UNCHANGED <<record, faults>>
        BY <1>3 DEF CloseCase, CheckClose, Rest
    <2>2. flow' \in FlowTypes /\ flow'.at = "close"
        BY <2>1 DEF FlowInv, FlowTypes, Places
    <2>3. QED
        BY <2>1, <2>2, FlowMoves
<1>4. CASE CloserProceeds
    <2>1. recorded' \in SUBSET {"update", "comment"}
        BY <1>4 DEF CloserProceeds, FlowInv
    <2>2. UNCHANGED <<record, faults>>
        BY <1>1, <1>4, FaultsType DEF CloserProceeds
    <2>3. QED
        BY <1>4, <2>1, <2>2 DEF CloserProceeds, FlowInv
<1>5. CASE CloserFails
    <2>1. record' = record /\ faults' \in 0..MaxFaults
        BY <1>1, <1>5, FaultsType DEF CloserFails
    <2>2. QED
        BY <1>5, <2>1, BeginType DEF CloserFails, FlowInv
<1>6. QED
    BY <1>2, <1>3, <1>4, <1>5

LEMMA TInvNext ==
    ASSUME TInv, [Next]_vars
    PROVE  TInv'
<1>1. ToolInv'
    BY ToolInvNext DEF TInv
<1>2. CASE Machine
    BY <1>1, <1>2, BeginsAndEnds, ChecksType, RecordsType, CleanupType DEF Machine, TInv
<1>3. CASE Workflow
    BY <1>1, <1>3, BeginsAndEnds, WorkflowCallsType DEF Workflow, TInv
<1>4. CASE MachineStops \/ World
    BY <1>1, <1>4, StopsType DEF TInv
<1>5. CASE CloserFails
    BY <1>1, <1>5, WorkflowCallsType DEF TInv
<1>6. CASE \E s \in Sessions \ {Closer} : OtherMakes(s) \/ OtherProceeds(s) \/ OtherFails(s)
    <2>1. PICK s \in Sessions \ {Closer} : OtherMakes(s) \/ OtherProceeds(s) \/ OtherFails(s)
        BY <1>6
    <2>2. UNCHANGED flowVars /\ record' = record /\ faults' \in 0..MaxFaults
        BY <2>1, FaultsType DEF OtherMakes, OtherProceeds, OtherFails, TInv, FlowInv
    <2>3. QED
        BY <1>1, <2>2 DEF TInv, FlowInv, flowVars
<1>7. CASE UNCHANGED vars
    BY <1>1, <1>7 DEF TInv, FlowInv, vars, flowVars, toolVars
<1>8. QED
    BY <1>2, <1>3, <1>4, <1>5, <1>6, <1>7 DEF Next

LEMMA TInvInit == Init => TInv
<1> SUFFICES ASSUME Init PROVE TInv
    OBVIOUS
<1>1. 0 \in Times /\ Case \in Numbers
    BY IssueToolAssumption DEF Times, Case, Numbers
<1> DEFINE first == [state |-> "open", role |-> "case", text |-> 0, revision |-> 0,
                     comments |-> {}, high |-> 0]
<1>2. first \in Issues /\ Numbered(first) /\ Numbered(Missing)
      /\ Missing \in Files(Issues) /\ Missing \in Files(Records)
    BY <1>1 DEF Issues, Numbered, Missing, Whole, Files
<1>3. issues \in [Numbers -> Files(Issues)] /\ \A n \in Numbers : Numbered(issues[n])
    BY <1>2 DEF Init, ToolInit, Files
<1>4. ToolInv
    BY <1>1, <1>2, <1>3 DEF Init, ToolInit, ToolInv, Backed
<1>5. FlowInv
    BY <1>2, BeginType, IssueToolAssumption, CaseCloseAssumption DEF Init, ToolInit, FlowInv, AtBegin
<1>6. QED
    BY <1>4, <1>5 DEF TInv

LEMMA TInvAlways == Spec => []TInv
BY TInvInit, TInvNext, PTL DEF Spec

\* Every reachable state is well typed, whatever sessions overlap, are killed or
\* replace an issue carelessly.
THEOREM TypeCorrect == Spec => []TypeOK
<1>1. TInv => TypeOK
    BY DEF TInv, ToolInv, FlowInv, TypeOK
<1>2. QED
    BY <1>1, TInvAlways, PTL

-----------------------------------------------------------------------------
(* The acceptance record.                                                      *)

RecordInv == LatestDecides /\ PermittedIsOnRecord

\* Steps that leave the record alone.
LEMMA RecordInvStays ==
    ASSUME RecordInv, UNCHANGED <<record, latest>>,
           flow' = flow \/ flow'.at # "record"
    PROVE  RecordInv'
BY DEF RecordInv, LatestDecides, PermittedIsOnRecord, RecordFor

\* What a write of the record may leave, by whether it succeeded.
LEMMA WriteLeaves ==
    ASSUME TInv, NEW accepted \in BOOLEAN, NEW w \in WriteOutcomes(accepted), WriteRecord(w)
    PROVE  /\ record'[Case] = w.file
           /\ w.written => w.file = RecordFor(accepted)
           /\ ~ w.written => w.file \in {record[Case], Damaged, Missing}
<1>1. record' = [record EXCEPT ![Case] = w.file] /\ Case \in DOMAIN record
    BY IssueToolAssumption DEF WriteRecord, TInv, FlowInv, Case, Numbers
<1>2. QED
    BY <1>1 DEF WriteOutcomes

LEMMA RecordInvWrites ==
    ASSUME TInv, RecordInv, RefuseFirst \/ Accept \/ Unaccept
    PROVE  RecordInv'
<1>1. flow \in FlowTypes
    BY DEF TInv, FlowInv
<1> USE DEF RecordInv, LatestDecides, PermittedIsOnRecord
<1>2. CASE RefuseFirst
    <2>1. PICK w \in WriteOutcomes(FALSE) :
              /\ WriteRecord(w)
              /\ flow' = [flow EXCEPT !.at = "check", !.worst = IF w.written THEN "pass" ELSE "fail"]
              /\ latest' = IF w.written THEN "refused" ELSE latest
        BY <1>2 DEF RefuseFirst
    <2>2. flow'.at = "check"
        BY <1>1, <2>1 DEF FlowTypes
    <2>3. record'[Case] = w.file /\ (w.written => w.file = RecordFor(FALSE))
          /\ (~ w.written => w.file \in {record[Case], Damaged, Missing})
        BY <2>1, WriteLeaves
    <2>4. LatestDecides'
        BY <2>1, <2>3 DEF RecordFor, Damaged, Missing
    <2>5. QED
        BY <2>2, <2>4
<1>3. CASE Unaccept
    <2>1. PICK w \in WriteOutcomes(FALSE) :
              /\ WriteRecord(w)
              /\ latest' = IF w.written THEN "refused" ELSE latest
        BY <1>3 DEF Unaccept
    <2>2. flow'.at = "begin"
        BY <1>3 DEF Unaccept, AtBegin
    <2>3. record'[Case] = w.file /\ (w.written => w.file = RecordFor(FALSE))
          /\ (~ w.written => w.file \in {record[Case], Damaged, Missing})
        BY <2>1, WriteLeaves
    <2>4. LatestDecides'
        BY <2>1, <2>3 DEF RecordFor, Damaged, Missing
    <2>5. QED
        BY <2>2, <2>4
<1>4. CASE Accept
    <2>1. PICK w \in WriteOutcomes(TRUE) :
              /\ WriteRecord(w)
              /\ flow' = IF Permitted(w) THEN [flow EXCEPT !.at = "record"]
                         ELSE [flow EXCEPT !.at = "unaccept"]
              /\ latest' = IF w.written THEN "accepted" ELSE latest
        BY <1>4 DEF Accept
    <2>2. flow'.revision = flow.revision
          /\ flow'.at = (IF Permitted(w) THEN "record" ELSE "unaccept")
        BY <1>1, <2>1 DEF FlowTypes
    <2>3. record'[Case] = w.file /\ (w.written => w.file = RecordFor(TRUE))
          /\ (~ w.written => w.file \in {record[Case], Damaged, Missing})
        BY <2>1, WriteLeaves
    <2>4. PermittedIsOnRecord'
        BY <2>2, <2>3 DEF Permitted, RecordFor
    <2>5. LatestDecides'
        BY <2>1, <2>3 DEF Damaged, Missing
    <2>6. QED
        BY <2>2, <2>4, <2>5
<1>5. QED
    BY <1>2, <1>3, <1>4

LEMMA RecordInvCleanup ==
    ASSUME TInv, RecordInv, Reclaim \/ RemoveWorktree \/ RemoveBranch
    PROVE  RecordInv'
<1>1. flow \in FlowTypes /\ Case \in DOMAIN record
    BY IssueToolAssumption DEF TInv, FlowInv, Case, Numbers
<1>2. CASE Reclaim
    <2>1. PICK status \in {"pass", "warn", "fail"}, file \in {record[Case], Missing} :
              /\ record' = [record EXCEPT ![Case] = file]
              /\ flow' = [flow EXCEPT !.at = "remove-worktree", !.worst = Worse(status)]
        BY <1>2 DEF Reclaim
    <2>2. flow'.at = "remove-worktree" /\ record'[Case] \in {record[Case], Missing}
        BY <1>1, <2>1 DEF FlowTypes
    <2>3. QED
        BY <1>2, <2>2 DEF Reclaim, Missing, RecordInv, LatestDecides, PermittedIsOnRecord
<1>3. CASE RemoveWorktree
    <2>1. PICK allowed : flow' = [flow EXCEPT !.at = "remove-branch", !.allowed = allowed]
        BY <1>3 DEF RemoveWorktree
    <2>2. flow'.at = "remove-branch" /\ UNCHANGED <<record, latest>>
        BY <1>1, <1>3, <2>1 DEF FlowTypes, RemoveWorktree, toolVars
    <2>3. QED
        BY <2>2, RecordInvStays
<1>4. CASE RemoveBranch
    <2>1. PICK worst : flow' = [flow EXCEPT !.at = "ended", !.allowed = FALSE, !.worst = worst]
        BY <1>4 DEF RemoveBranch
    <2>2. flow'.at = "ended" /\ UNCHANGED <<record, latest>>
        BY <1>1, <1>4, <2>1 DEF FlowTypes, RemoveBranch, toolVars
    <2>3. QED
        BY <2>2, RecordInvStays
<1>5. QED
    BY <1>2, <1>3, <1>4

LEMMA RecordInvNext ==
    ASSUME TInv, RecordInv, [Next]_vars
    PROVE  RecordInv'
<1>1. flow \in FlowTypes
    BY DEF TInv, FlowInv
<1>2. CASE Prepare \/ Resume \/ CloseRefused \/ Closes \/ CleanUpAgain \/ Assemble
    <2>1. UNCHANGED <<record, latest>>
        BY <1>2 DEF Prepare, Resume, CloseRefused, Closes, CleanUpAgain, Assemble, toolVars
    <2>2. flow'.at \in {"refuse", "reclaim", "begin", "accept"}
        <3>1. CASE Prepare
            BY <3>1 DEF Prepare, AtBegin
        <3>2. CASE Resume \/ CleanUpAgain
            BY <3>2 DEF Resume, CleanUpAgain, AtBegin
        <3>3. CASE CloseRefused \/ Closes
            BY <3>3 DEF CloseRefused, Closes, AtBegin
        <3>4. CASE Assemble
            BY <1>1, <3>4 DEF Assemble, AtBegin, FlowTypes
        <3>5. QED
            BY <1>2, <3>1, <3>2, <3>3, <3>4
    <2>3. QED
        BY <2>1, <2>2, RecordInvStays
<1>3. CASE CheckAvailability \/ Poll \/ Check
    <2>1. UNCHANGED <<record, latest>> /\ flow.at = "check"
        BY <1>3 DEF CheckAvailability, Poll, Check, toolVars
    <2>2. \/ flow' = [flow EXCEPT !.attempts = @ + 1]
          \/ \E status : \E early \in BOOLEAN : CheckDone(status, early)
        <3>1. CASE CheckAvailability
            <4>1. CheckDone(Seen, Seen = "fail")
                BY <3>1 DEF CheckAvailability
            <4>2. QED
                BY <4>1
        <3>2. CASE Poll
            <4>1. \/ flow' = [flow EXCEPT !.attempts = @ + 1]
                  \/ CheckDone("fail", TRUE) \/ CheckDone("pass", FALSE) \/ CheckDone("warn", FALSE)
                BY <3>2 DEF Poll
            <4>2. QED
                BY <4>1
        <3>3. CASE Check
            <4>1. CheckDone(IF Seen = "undetermined" THEN "pass" ELSE Seen, FALSE)
                BY <3>3 DEF Check
            <4>2. QED
                BY <4>1
        <3>4. QED
            BY <1>3, <3>1, <3>2, <3>3
    <2>3. flow'.at \in {"check", "assemble"}
        <3>1. CASE flow' = [flow EXCEPT !.attempts = @ + 1]
            BY <1>1, <2>1, <3>1 DEF FlowTypes
        <3>2. CASE \E status : \E early \in BOOLEAN : CheckDone(status, early)
            BY <2>1, <3>2, CheckDoneType DEF TInv
        <3>3. QED
            BY <2>2, <3>1, <3>2
    <2>4. QED
        BY <2>1, <2>3, RecordInvStays
<1>4. CASE MachineStops
    <2>1. flow'.at = "begin" /\ UNCHANGED latest
        BY <1>4 DEF MachineStops, AtBegin
    <2>2. record'[Case] \in {record[Case], Damaged}
        BY <1>4, IssueToolAssumption DEF MachineStops, TInv, FlowInv, Case, Numbers
    <2>3. QED
        BY <2>1, <2>2 DEF RecordInv, LatestDecides, PermittedIsOnRecord, Damaged
<1>5. CASE World
    BY <1>5, RecordInvStays DEF World, toolVars
<1>6. CASE RecordWork \/ CloseCase \/ CloserProceeds \/ CloserFails
    <2>1. latest' = latest /\ (flow' = flow \/ flow'.at # "record")
        BY <1>1, <1>6 DEF RecordWork, CloseCase, CloserProceeds, CloserFails, AtBegin, FlowTypes
    <2>2. record' = record
        BY <1>6, FaultsType, CaseCloseAssumption
        DEF RecordWork, Request, CloseCase, CheckClose, CloserProceeds, CloserFails, TInv
    <2>3. QED
        BY <2>1, <2>2, RecordInvStays
<1>7. CASE \E s \in Sessions \ {Closer} : OtherMakes(s) \/ OtherProceeds(s) \/ OtherFails(s)
    <2>1. PICK s \in Sessions \ {Closer} : OtherMakes(s) \/ OtherProceeds(s) \/ OtherFails(s)
        BY <1>7
    <2>2. UNCHANGED flowVars /\ record' = record
        BY <2>1, FaultsType DEF OtherMakes, OtherProceeds, OtherFails, TInv
    <2>3. QED
        BY <2>2, RecordInvStays DEF flowVars
<1>8. CASE UNCHANGED vars
    BY <1>8, RecordInvStays DEF vars, flowVars, toolVars
<1>9. QED
    BY <1>2, <1>3, <1>4, <1>5, <1>6, <1>7, <1>8, RecordInvWrites, RecordInvCleanup
    DEF Next, Machine, Workflow

LEMMA RecordInvAlways == Spec => []RecordInv
<1>1. Init => RecordInv
    BY IssueToolAssumption DEF Init, ToolInit, RecordInv, LatestDecides, PermittedIsOnRecord, AtBegin, Missing
<1>2. QED
    BY <1>1, RecordInvNext, TInvAlways, PTL DEF Spec

\* A refusal that was written stands until a run accepts, whatever write fails and
\* wherever a run is killed.
THEOREM LatestDecidesAlways == Spec => []LatestDecides
BY RecordInvAlways, PTL DEF RecordInv

\* A report that permits the close has the accepting record behind it.
THEOREM PermittedIsOnRecordAlways == Spec => []PermittedIsOnRecord
BY RecordInvAlways, PTL DEF RecordInv

-----------------------------------------------------------------------------
(* A revision names one text, if callers renew it with the text.               *)

Version(issue) == [text |-> issue.text, revision |-> issue.revision]

\* Writes to a file that are under way.
Writing(s) == op[s].at \in {"read", "truncated", "filled"}

\* What there is of the case's Issue: what readers find, what is in its temporary
\* file, and what calls are about to write.
Held == {file \in {issues[Case], tmp[Case]} : Whole(file)}
            \cup {op[s].next : s \in {r \in Sessions : Writing(r) /\ op[r].number = Case}}

NoVersion == [text |-> 0, revision |-> 0]

Versions == {Version(x) : x \in Held} \cup judged
                \cup {[text |-> flow.text, revision |-> flow.revision], NoVersion}

VersionInv ==
    /\ \A v \in Versions : v.revision <= now
    /\ \A v, w \in Versions : v.revision = w.revision => v.text = w.text

\* A record accepts what was judged.
AcceptedInv ==
    \A n \in Numbers : record[n].state = "whole" /\ record[n].accepted =>
        n = Case /\ \E v \in judged : v.revision = record[n].revision

CloseInv == VersionInv /\ AcceptedInv /\ ClosedAsAccepted

LEMMA HeldMoves ==
    ASSUME ToolInv, NEW s \in Sessions, NEW call, op' = [op EXCEPT ![s] = call],
           NEW S, Held \subseteq S,
           Whole(issues'[Case]) => issues'[Case] \in S,
           Whole(tmp'[Case]) => tmp'[Case] \in S,
           call.at \in {"read", "truncated", "filled"} /\ call.number = Case => call.next \in S
    PROVE  Held' \subseteq S
<1> SUFFICES ASSUME NEW x \in Held' PROVE x \in S
    OBVIOUS
<1>1. CASE x \in {file \in {issues[Case], tmp[Case]} : Whole(file)}'
    BY <1>1 DEF Whole
<1>2. CASE x \in {op[r].next : r \in {t \in Sessions : Writing(t) /\ op[t].number = Case}}'
    <2>1. PICK r \in Sessions : op'[r].at \in {"read", "truncated", "filled"} /\ op'[r].number = Case
                                /\ x = op'[r].next
        BY <1>2 DEF Writing
    <2>2. op'[r] = IF r = s THEN call ELSE op[r]
        BY DEF ToolInv
    <2>3. QED
        BY <2>1, <2>2 DEF Held, Writing
<1>3. QED
    BY <1>1, <1>2 DEF Held

\* What a session does with the tool makes one new version at most, at a new time.
NewVersion ==
    \/ Held' \subseteq Held /\ now' \in {now, Later}
    \/ \E x : Held' \subseteq Held \cup {x} /\ x.revision = Later /\ now' = Later

LEMMA CaseHeld ==
    ASSUME ToolInv
    PROVE  /\ Case \in Numbers
           /\ Whole(issues[Case]) => issues[Case] \in Held
           /\ Whole(tmp[Case]) => tmp[Case] \in Held
BY IssueToolAssumption DEF Held, Case, Numbers

LEMMA BeginHolds ==
    ASSUME ToolInv, NEW s \in Sessions, NEW n \in Numbers, NEW kind \in Kinds, NEW seq \in Nat,
           NEW next \in Issues, next.revision = Later, Tick,
           op' = [op EXCEPT ![s] = Call(IF backend = "github" THEN "applied" ELSE "read",
                                        kind, n, next, seq)],
           issues' = IF backend = "github" THEN [issues EXCEPT ![n] = next] ELSE issues,
           UNCHANGED tmp
    PROVE  NewVersion
<1> DEFINE call == Call(IF backend = "github" THEN "applied" ELSE "read", kind, n, next, seq)
<1>1. call.next = next /\ op' = [op EXCEPT ![s] = call]
    BY CallType
<1> HIDE DEF call
<1>2. issues'[Case] \in {issues[Case], next}
    BY CaseHeld DEF ToolInv
<1>3. Whole(issues'[Case]) => issues'[Case] \in Held \cup {next}
    BY <1>2, CaseHeld
<1>4. Whole(tmp'[Case]) => tmp'[Case] \in Held \cup {next}
    BY CaseHeld
<1> DEFINE S == Held \cup {next}
<1>5. Held \subseteq S /\ next \in S
    OBVIOUS
<1>6. (Whole(issues'[Case]) => issues'[Case] \in S) /\ (Whole(tmp'[Case]) => tmp'[Case] \in S)
    BY <1>3, <1>4
<1> HIDE DEF S
<1>7. Held' \subseteq S
    BY <1>1, <1>5, <1>6, HeldMoves
<1>8. QED
    BY <1>7 DEF NewVersion, Tick, S

LEMMA WriteHolds ==
    ASSUME ToolInv, NEW s \in Sessions, Write(s) \/ RenameFails(s)
    PROVE  Held' \subseteq Held /\ now' = now
<1> DEFINE n == op[s].number
<1>1. op[s] \in Calls /\ n \in Numbers /\ Writing(s)
    BY DEF ToolInv, Write, Truncate, Fill, Rename, RenameFails, Calls, Idle, Writing
<1>2. n = Case => op[s].next \in Held
    BY <1>1 DEF Held
<1>3. now' = now
    BY DEF Write, Truncate, Fill, Rename, RenameFails
<1>4. tmp \in [Numbers -> Files(Issues)] /\ issues \in [Numbers -> Files(Issues)]
    BY DEF ToolInv
<1>5. \A at \in {"truncated", "filled", "applied"} :
          LET call == [op[s] EXCEPT !.at = at]
          IN  call.at = at /\ call.number = n /\ call.next = op[s].next
    BY <1>1 DEF Calls
<1>6. ~ Whole(Damaged) /\ ~ Whole(Missing)
    BY DEF Whole, Damaged, Missing
<1>7. CASE Truncate(s)
    <2> DEFINE call == [op[s] EXCEPT !.at = "truncated"]
    <2>1. op' = [op EXCEPT ![s] = call]
          /\ tmp' = [tmp EXCEPT ![n] = Damaged] /\ issues' = issues
        BY <1>7 DEF Truncate
    <2>2. call.number = n /\ call.next = op[s].next
        BY <1>5
    <2> HIDE DEF call
    <2>3. tmp'[Case] \in {tmp[Case], Damaged}
        BY <1>4, <2>1, CaseHeld
    <2>4. Whole(tmp'[Case]) => tmp'[Case] \in Held
        BY <1>6, <2>3, CaseHeld
    <2>5. Whole(issues'[Case]) => issues'[Case] \in Held
        BY <2>1, CaseHeld
    <2>6. QED
        BY <1>2, <1>3, <2>1, <2>2, <2>4, <2>5, HeldMoves
<1>8. CASE Fill(s)
    <2> DEFINE call == [op[s] EXCEPT !.at = "filled"]
    <2>1. op' = [op EXCEPT ![s] = call]
          /\ tmp' = [tmp EXCEPT ![n] = op[s].next] /\ issues' = issues
        BY <1>8 DEF Fill
    <2>2. call.number = n /\ call.next = op[s].next
        BY <1>5
    <2> HIDE DEF call
    <2>3. tmp'[Case] = IF n = Case THEN op[s].next ELSE tmp[Case]
        BY <1>4, <2>1, CaseHeld
    <2>4. Whole(tmp'[Case]) => tmp'[Case] \in Held
        BY <1>2, <2>3, CaseHeld
    <2>5. Whole(issues'[Case]) => issues'[Case] \in Held
        BY <2>1, CaseHeld
    <2>6. QED
        BY <1>2, <1>3, <2>1, <2>2, <2>4, <2>5, HeldMoves
<1>9. CASE Rename(s)
    <2> DEFINE call == IF tmp[n] = Missing THEN Idle ELSE [op[s] EXCEPT !.at = "applied"]
    <2>1. op' = [op EXCEPT ![s] = call]
          /\ issues' = (IF tmp[n] = Missing THEN issues ELSE [issues EXCEPT ![n] = tmp[n]])
          /\ tmp' = [tmp EXCEPT ![n] = Missing]
        BY <1>9 DEF Rename
    <2>2. call.at \notin {"read", "truncated", "filled"}
        BY <1>5 DEF Idle
    <2> HIDE DEF call
    <2>3. tmp'[Case] \in {tmp[Case], Missing}
        BY <1>4, <2>1, CaseHeld
    <2>4. Whole(tmp'[Case]) => tmp'[Case] \in Held
        BY <1>6, <2>3, CaseHeld
    <2>5. issues'[Case] \in {issues[Case], tmp[Case]}
        BY <1>4, <2>1, CaseHeld
    <2>6. Whole(issues'[Case]) => issues'[Case] \in Held
        BY <2>5, CaseHeld
    <2>7. QED
        BY <1>3, <2>1, <2>2, <2>4, <2>6, HeldMoves
<1>10. CASE RenameFails(s)
    <2>1. op' = [op EXCEPT ![s] = Idle]
          /\ tmp' = [tmp EXCEPT ![n] = Missing] /\ issues' = issues
        BY <1>10 DEF RenameFails
    <2>2. tmp'[Case] \in {tmp[Case], Missing}
        BY <1>4, <2>1, CaseHeld
    <2>3. Whole(tmp'[Case]) => tmp'[Case] \in Held
        BY <1>6, <2>2, CaseHeld
    <2>4. Whole(issues'[Case]) => issues'[Case] \in Held
        BY <2>1, CaseHeld
    <2>5. Idle.at \notin {"read", "truncated", "filled"}
        BY DEF Idle
    <2>6. QED
        BY <1>3, <2>1, <2>3, <2>4, <2>5, HeldMoves
<1>11. QED
    BY <1>7, <1>8, <1>9, <1>10 DEF Write

\* A call that moves on without touching a file.
LEMMA OthersHold ==
    ASSUME ToolInv, NEW s \in Sessions,
           \/ \E n \in Numbers : CheckClose(s, n)
           \/ Refuse(s) \/ Confirm(s) \/ Crash(s)
    PROVE  Held' \subseteq Held /\ now' = now
<1>1. UNCHANGED <<issues, tmp, now>>
    BY DEF CheckClose, Refuse, Confirm, Crash
<1>2. PICK call : op' = [op EXCEPT ![s] = call] /\ call.at \notin {"read", "truncated", "filled"}
    BY DEF CheckClose, Refuse, Confirm, Crash, Idle, Call
<1>3. Whole(issues'[Case]) => issues'[Case] \in Held
    BY <1>1, CaseHeld
<1>4. Whole(tmp'[Case]) => tmp'[Case] \in Held
    BY <1>1, CaseHeld
<1>5. QED
    BY <1>1, <1>2, <1>3, <1>4, HeldMoves

LEMMA DecideHolds ==
    ASSUME ToolInv, NEW s \in Sessions, Decide(s)
    PROVE  NewVersion
<1> DEFINE n    == op[s].number
           at   == IF backend = "github" THEN "decided" ELSE "read"
           call == Call(at, "close", n, Closed(issues[n]), 0)
<1>1. op[s] \in Calls /\ n \in Numbers
    BY DEF ToolInv, Decide, Calls, Idle
<1>2. issues[n] \in Issues
    BY <1>1, WholeIsIssue DEF Decide, RunnerVerifies, ToolInv
<1>3. Closed(issues[n]).revision = Later
    BY <1>2 DEF Closed, Issues
<1>4. call.at = at /\ call.next = Closed(issues[n])
    BY DEF Call
<1>5. op' = [op EXCEPT ![s] = call] /\ UNCHANGED <<issues, tmp>>
      /\ now' = IF backend = "github" THEN now ELSE Later
    BY DEF Decide
<1> HIDE DEF call
<1>6. CASE backend = "github"
    <2>1. Held' \subseteq Held
        <3>1. Whole(issues'[Case]) => issues'[Case] \in Held
            BY <1>5, CaseHeld
        <3>2. Whole(tmp'[Case]) => tmp'[Case] \in Held
            BY <1>5, CaseHeld
        <3>3. QED
            BY <1>4, <1>5, <1>6, <3>1, <3>2, HeldMoves
    <2>2. QED
        BY <1>5, <1>6, <2>1 DEF NewVersion
<1>7. CASE backend # "github"
    <2>1. Held' \subseteq Held \cup {Closed(issues[n])}
        <3>1. Whole(issues'[Case]) => issues'[Case] \in Held \cup {Closed(issues[n])}
            BY <1>5, CaseHeld
        <3>2. Whole(tmp'[Case]) => tmp'[Case] \in Held \cup {Closed(issues[n])}
            BY <1>5, CaseHeld
        <3>3. QED
            BY <1>4, <1>5, <3>1, <3>2, HeldMoves
    <2>2. QED
        BY <1>3, <1>5, <1>7, <2>1 DEF NewVersion
<1>8. QED
    BY <1>6, <1>7

LEMMA PatchHolds ==
    ASSUME ToolInv, NEW s \in Sessions, Patch(s)
    PROVE  NewVersion
<1> DEFINE n == op[s].number
           call == [op[s] EXCEPT !.at = "applied"]
<1>1. op[s] \in Calls /\ n \in Numbers /\ op[s] # Idle
    BY DEF ToolInv, Patch, Calls, Idle
<1>2. issues[n] \in Issues
    BY <1>1, WholeIsIssue DEF Patch, ToolInv, Backed
<1>3. Closed(issues[n]).revision = Later
    BY <1>2 DEF Closed, Issues
<1>4. call.at = "applied"
    BY <1>1 DEF Calls
<1>5. op' = [op EXCEPT ![s] = call] /\ UNCHANGED tmp /\ now' = Later
      /\ issues' = [issues EXCEPT ![n] = Closed(issues[n])]
    BY DEF Patch, Tick
<1> HIDE DEF call
<1>6. issues'[Case] \in {issues[Case], Closed(issues[n])}
    BY <1>1, <1>5, CaseHeld DEF ToolInv
<1>7. Whole(issues'[Case]) => issues'[Case] \in Held \cup {Closed(issues[n])}
    BY <1>6, CaseHeld
<1>8. Whole(tmp'[Case]) => tmp'[Case] \in Held \cup {Closed(issues[n])}
    BY <1>5, CaseHeld
<1>9. Held' \subseteq Held \cup {Closed(issues[n])}
    BY <1>4, <1>5, <1>7, <1>8, HeldMoves
<1>10. QED
    BY <1>3, <1>5, <1>9 DEF NewVersion

LEMMA ToolStepVersion ==
    ASSUME Careful, ToolInv, NEW s \in Sessions, ToolStep(s)
    PROVE  NewVersion
<1>1. CASE \E n \in Numbers, kind \in Kinds \ {"create", "close"} :
              \E seq \in {0} \cup {c.seq : c \in IF Whole(issues[n]) THEN issues[n].comments ELSE {}} :
                  Ask(s, kind, n, seq)
    <2>1. PICK n \in Numbers, kind \in Kinds \ {"create", "close"} :
              \E seq \in {0} \cup {c.seq : c \in IF Whole(issues[n]) THEN issues[n].comments ELSE {}} :
                  Ask(s, kind, n, seq)
        BY <1>1
    <2>2. issues[n] \in Issues /\ Numbered(issues[n])
        BY <2>1, WholeIsIssue DEF Ask, Request, ToolInv, Backed
    <2>3. PICK seq \in Nat : Ask(s, kind, n, seq)
        BY <2>1, <2>2 DEF Issues, Comments
    <2>4. PICK next \in Changed(kind, issues[n], seq) :
              /\ Tick
              /\ op' = [op EXCEPT ![s] = Call(IF backend = "github" THEN "applied" ELSE "read",
                                            kind, n, next, SeqOf(kind, next, seq))]
              /\ issues' = IF backend = "github" THEN [issues EXCEPT ![n] = next] ELSE issues
        BY <2>3 DEF Ask, Request, Change
    <2>5. now < MaxTime /\ now \in Nat
        BY <2>4, LaterType DEF Tick, ToolInv
    <2>6. next \in Issues /\ next.revision = Later /\ SeqOf(kind, next, seq) \in Nat
        BY <2>2, <2>5, ChangedType
    <2>7. UNCHANGED tmp
        BY <2>3 DEF Ask, Request
    <2>8. QED
        BY <2>4, <2>6, <2>7, BeginHolds
<1>2. CASE \E role \in {"case", "tracking"} : Create(s, role)
    <2>1. PICK role \in {"case", "tracking"} : Create(s, role)
        BY <1>2
    <2>2. Later \in Times
        BY <2>1, LaterType DEF Create, Tick, ToolInv
    <2>3. NewIssue(role) \in Issues /\ NewIssue(role).revision = Later
        BY <2>2 DEF NewIssue, Issues
    <2>4. NextNumber \in Numbers /\ Tick /\ UNCHANGED tmp /\ "create" \in Kinds /\ 0 \in Nat
        BY <2>1 DEF Create, Kinds
    <2>5. op' = [op EXCEPT ![s] = Call(IF backend = "github" THEN "applied" ELSE "read",
                                       "create", NextNumber, NewIssue(role), 0)]
          /\ issues' = IF backend = "github" THEN [issues EXCEPT ![NextNumber] = NewIssue(role)] ELSE issues
        BY <2>1 DEF Create
    <2>6. QED
        BY <2>3, <2>4, <2>5, BeginHolds
<1>3. CASE (\E n \in Numbers : CheckClose(s, n)) \/ Refuse(s) \/ Confirm(s) \/ Crash(s)
    BY <1>3, OthersHold DEF NewVersion
<1>4. CASE Write(s) \/ RenameFails(s)
    BY <1>4, WriteHolds DEF NewVersion
<1>5. CASE Decide(s)
    BY <1>5, DecideHolds
<1>6. CASE Patch(s)
    BY <1>6, PatchHolds
<1>7. QED
    BY <1>1, <1>2, <1>3, <1>4, <1>5, <1>6 DEF ToolStep, Make, Ask, Proceed, Fault

LEMMA VersionsType ==
    ASSUME TInv
    PROVE  Versions \subseteq [text : Times, revision : Times]
<1>1. issues[Case] \in Files(Issues) /\ tmp[Case] \in Files(Issues)
    BY CaseHeld DEF TInv, ToolInv
<1>2. \A file \in {issues[Case], tmp[Case]} : Whole(file) => file \in Issues
    BY <1>1, WholeIsIssue
<1>3. \A s \in Sessions : Writing(s) => op[s].next \in Issues
    BY DEF TInv, ToolInv, Writing, Calls, Idle
<1>4. Held \subseteq Issues
    BY <1>2, <1>3 DEF Held
<1>5. \A x \in Held : Version(x) \in [text : Times, revision : Times]
    BY <1>4 DEF Version, Issues
<1>6. [text |-> flow.text, revision |-> flow.revision] \in [text : Times, revision : Times]
    BY DEF TInv, FlowInv, FlowTypes
<1>7. NoVersion \in [text : Times, revision : Times]
    BY IssueToolAssumption DEF NoVersion, Times
<1>8. QED
    BY <1>5, <1>6, <1>7 DEF Versions, TInv, FlowInv

LEMMA VersionsMove ==
    ASSUME TInv, VersionInv, NewVersion, judged' \subseteq Versions,
           [text |-> flow'.text, revision |-> flow'.revision] \in Versions
    PROVE  VersionInv'
<1>1. now \in Nat /\ \A v \in Versions : v.revision \in Nat /\ v.revision <= now
    BY VersionsType, IssueToolAssumption DEF VersionInv, TInv, ToolInv, Times
<1>2. NoVersion \in Versions /\ \A x \in Held : Version(x) \in Versions
    BY DEF Versions
<1>3. CASE Held' \subseteq Held /\ now' \in {now, Later}
    <2>1. Versions' \subseteq Versions
        BY <1>2, <1>3 DEF Versions, Version, NoVersion
    <2>2. \A v \in Versions : v.revision <= now'
        BY <1>1, <1>3 DEF Later
    <2>3. QED
        BY <2>1, <2>2 DEF VersionInv
<1>4. ASSUME NEW x, Held' \subseteq Held \cup {x}, x.revision = Later, now' = Later
      PROVE  VersionInv'
    <2>1. Versions' \subseteq Versions \cup {Version(x)}
        BY <1>2, <1>4 DEF Versions, Version, NoVersion
    <2>2. Version(x).revision = now + 1 /\ now' = now + 1
        BY <1>4 DEF Version, Later
    <2>3. \A v \in Versions : v.revision <= now' /\ v.revision # now + 1
        BY <1>1, <2>2
    <2>4. \A v \in Versions' : v.revision <= now'
        BY <1>1, <2>1, <2>2, <2>3
    <2>5. \A v, w \in Versions' : v.revision = w.revision => v.text = w.text
        BY <2>1, <2>2, <2>3 DEF VersionInv
    <2>6. QED
        BY <2>4, <2>5 DEF VersionInv
<1>5. QED
    BY <1>3, <1>4 DEF NewVersion

\* The machine judges a version there is.
LEMMA FlowVersions ==
    ASSUME TInv, [Next]_vars
    PROVE  /\ judged' \subseteq Versions /\ judged \subseteq judged'
           /\ [text |-> flow'.text, revision |-> flow'.revision] \in Versions
<1>1. judged \subseteq Versions /\ [text |-> flow.text, revision |-> flow.revision] \in Versions
      /\ NoVersion \in Versions /\ flow \in FlowTypes
    BY DEF Versions, TInv, FlowInv
<1>2. CASE Prepare
    <2>1. Whole(issues[Case])
        BY <1>2 DEF Prepare, Whole
    <2>2. Version(issues[Case]) \in Versions
        BY <2>1, CaseHeld DEF TInv, Versions
    <2>3. flow'.text = issues[Case].text /\ flow'.revision = issues[Case].revision /\ judged' = judged
        BY <1>2 DEF Prepare, AtBegin
    <2>4. QED
        BY <1>1, <2>2, <2>3 DEF Version
<1>3. CASE Accept
    <2>1. judged' \subseteq judged \cup {[text |-> flow.text, revision |-> flow.revision]}
          /\ judged \subseteq judged'
        BY <1>3 DEF Accept
    <2>2. flow' \in {[flow EXCEPT !.at = "record"], [flow EXCEPT !.at = "unaccept"]}
        BY <1>3 DEF Accept
    <2>3. flow'.text = flow.text /\ flow'.revision = flow.revision
        BY <1>1, <2>2 DEF FlowTypes
    <2>4. QED
        BY <1>1, <2>1, <2>3
<1>4. ASSUME ~ Prepare, ~ Accept
      PROVE  /\ judged' = judged
             /\ \/ flow'.text = flow.text /\ flow'.revision = flow.revision
                \/ flow'.text = 0 /\ flow'.revision = 0
    <2>1. CASE Resume \/ CleanUpAgain
        BY <2>1 DEF Resume, CleanUpAgain, AtBegin
    <2>2. CASE CloseRefused \/ Closes \/ Unaccept \/ CloserFails \/ MachineStops
        <3>1. judged' = judged /\ flow' = AtBegin
            BY <2>2 DEF CloseRefused, Closes, Unaccept, CloserFails, MachineStops
        <3>2. AtBegin.text = 0 /\ AtBegin.revision = 0
            BY DEF AtBegin
        <3>3. QED
            BY <3>1, <3>2
    <2>3. CASE Assemble
        BY <1>1, <2>3 DEF Assemble, AtBegin, FlowTypes
    <2>4. CASE RefuseFirst
        <3>1. PICK worst : flow' = [flow EXCEPT !.at = "check", !.worst = worst]
            BY <2>4 DEF RefuseFirst
        <3>2. QED
            BY <1>1, <2>4, <3>1 DEF RefuseFirst, FlowTypes
    <2>5. CASE Reclaim
        <3>1. PICK worst : flow' = [flow EXCEPT !.at = "remove-worktree", !.worst = worst]
            BY <2>5 DEF Reclaim
        <3>2. QED
            BY <1>1, <2>5, <3>1 DEF Reclaim, FlowTypes
    <2>6. CASE RemoveWorktree
        <3>1. PICK allowed : flow' = [flow EXCEPT !.at = "remove-branch", !.allowed = allowed]
            BY <2>6 DEF RemoveWorktree
        <3>2. QED
            BY <1>1, <2>6, <3>1 DEF RemoveWorktree, FlowTypes
    <2>7. CASE RemoveBranch
        <3>1. PICK worst : flow' = [flow EXCEPT !.at = "ended", !.allowed = FALSE, !.worst = worst]
            BY <2>7 DEF RemoveBranch
        <3>2. QED
            BY <1>1, <2>7, <3>1 DEF RemoveBranch, FlowTypes
    <2>8. ASSUME NEW status, NEW early, CheckDone(status, early)
          PROVE  flow'.text = flow.text /\ flow'.revision = flow.revision
        <3>1. PICK worst, step, at, allowed :
                  flow' = [flow EXCEPT !.worst = worst, !.step = step, !.at = at, !.allowed = allowed]
            BY <2>8 DEF CheckDone
        <3>2. QED
            BY <1>1, <3>1 DEF FlowTypes
    <2>9. CASE CheckAvailability
        BY <2>8, <2>9 DEF CheckAvailability
    <2>10. CASE Check
        <3>1. CheckDone(IF Seen = "undetermined" THEN "pass" ELSE Seen, FALSE)
            BY <2>10 DEF Check
        <3>2. QED
            BY <2>8, <2>10, <3>1 DEF Check
    <2>11. CASE Poll
        <3>1. \/ flow' = [flow EXCEPT !.attempts = @ + 1]
              \/ CheckDone("fail", TRUE) \/ CheckDone("pass", FALSE) \/ CheckDone("warn", FALSE)
            BY <2>11 DEF Poll
        <3>2. CASE flow' = [flow EXCEPT !.attempts = @ + 1]
            BY <1>1, <2>11, <3>2 DEF Poll, FlowTypes
        <3>3. QED
            BY <2>8, <2>11, <3>1, <3>2 DEF Poll
    <2>12. CASE RecordWork \/ CloserProceeds \/ World
        BY <2>12 DEF RecordWork, CloserProceeds, World
    <2>13. CASE CloseCase
        BY <1>1, <2>13 DEF CloseCase, FlowTypes
    <2>14. CASE UNCHANGED flowVars
        BY <2>14 DEF flowVars
    <2>15. CASE \E s \in Sessions \ {Closer} : OtherMakes(s) \/ OtherProceeds(s) \/ OtherFails(s)
        BY <2>14, <2>15 DEF OtherMakes, OtherProceeds, OtherFails
    <2>16. CASE UNCHANGED vars
        BY <2>14, <2>16 DEF vars
    <2>17. QED
        BY <1>4, <2>1, <2>2, <2>3, <2>4, <2>5, <2>6, <2>7, <2>9, <2>10, <2>11, <2>12, <2>13, <2>15, <2>16
        DEF Next, Machine, Workflow
<1>5. CASE ~ Prepare /\ ~ Accept
    BY <1>1, <1>4, <1>5 DEF NoVersion
<1>6. QED
    BY <1>2, <1>3, <1>5

LEMMA VersionInvNext ==
    ASSUME Careful, TInv, VersionInv, [Next]_vars
    PROVE  VersionInv'
<1>1. CASE \E s \in Sessions : ToolStep(s)
    BY <1>1, ToolStepVersion, VersionsMove, FlowVersions DEF TInv
<1>2. CASE UNCHANGED <<backend, issues, tmp, op, now, named, closings, reset>>
    <2>1. NewVersion
        BY <1>2 DEF NewVersion, Held, Writing
    <2>2. QED
        BY <2>1, VersionsMove, FlowVersions
<1>3. QED
    BY <1>1, <1>2, StepCases DEF TInv

\* What a step may leave in the files of the acceptance records.
LEMMA RecordMoves ==
    ASSUME TInv, [Next]_vars, NEW n \in Numbers
    PROVE  \/ record'[n] \in {record[n], Missing, Damaged}
           \/ n = Case /\ record'[n] = RecordFor(FALSE)
           \/ /\ n = Case /\ record'[n] = RecordFor(TRUE)
              /\ [text |-> flow.text, revision |-> flow.revision] \in judged'
<1> USE DEF TInv, FlowInv
<1>1. record \in [Numbers -> Files(Records)] /\ Closer \in Sessions
    BY CaseCloseAssumption
<1>2. ASSUME RefuseFirst \/ Unaccept
      PROVE  record'[n] \in {record[n], Missing, Damaged} \/ (n = Case /\ record'[n] = RecordFor(FALSE))
    <2>1. PICK w \in WriteOutcomes(FALSE) : WriteRecord(w)
        BY <1>2 DEF RefuseFirst, Unaccept
    <2>2. record' = [record EXCEPT ![Case] = w.file] /\ w.file \in {RecordFor(FALSE), record[Case], Damaged, Missing}
        BY <2>1, WriteLeaves DEF WriteRecord
    <2>3. QED
        BY <1>1, <2>2
<1>3. ASSUME Accept
      PROVE  \/ record'[n] \in {record[n], Missing, Damaged}
             \/ /\ n = Case /\ record'[n] = RecordFor(TRUE)
                /\ [text |-> flow.text, revision |-> flow.revision] \in judged'
    <2>1. PICK w \in WriteOutcomes(TRUE) :
              /\ WriteRecord(w)
              /\ judged' = IF w.written THEN judged \cup {[text |-> flow.text, revision |-> flow.revision]}
                           ELSE judged
        BY <1>3 DEF Accept
    <2>2. /\ record' = [record EXCEPT ![Case] = w.file]
          /\ w.written => w.file = RecordFor(TRUE)
          /\ ~ w.written => w.file \in {record[Case], Damaged, Missing}
        BY <2>1, WriteLeaves DEF WriteRecord
    <2>3. CASE w.written
        BY <1>1, <2>1, <2>2, <2>3
    <2>4. CASE ~ w.written
        BY <1>1, <2>2, <2>4
    <2>5. QED
        BY <2>3, <2>4
<1>4. ASSUME Reclaim \/ MachineStops PROVE record'[n] \in {record[n], Missing, Damaged}
    <2>1. \E file \in {record[Case], Missing, Damaged} :
              record' = record \/ record' = [record EXCEPT ![Case] = file]
        BY <1>4 DEF Reclaim, MachineStops
    <2>2. QED
        BY <1>1, <2>1
<1>5. ASSUME \/ Prepare \/ Resume \/ CheckAvailability \/ Poll \/ Check \/ Assemble \/ RecordWork
             \/ CloseCase \/ CloseRefused \/ Closes \/ RemoveWorktree \/ RemoveBranch \/ CleanUpAgain
             \/ World \/ UNCHANGED vars
      PROVE  record' = record
    BY <1>5 DEF Prepare, Resume, CheckAvailability, Poll, Check, Assemble, RecordWork, Request,
       CloseCase, CheckClose, CloseRefused, Closes, RemoveWorktree, RemoveBranch, CleanUpAgain,
       World, vars, toolVars
<1>6. ASSUME CloserProceeds \/ CloserFails PROVE record' = record
    BY <1>1, <1>6, FaultsType DEF CloserProceeds, CloserFails
<1>7. ASSUME NEW s \in Sessions \ {Closer}, OtherMakes(s) \/ OtherProceeds(s) \/ OtherFails(s)
      PROVE  record' = record
    BY <1>7, FaultsType DEF OtherMakes, OtherProceeds, OtherFails
<1>8. QED
    BY <1>2, <1>3, <1>4, <1>5, <1>6, <1>7 DEF Next, Machine, Workflow

LEMMA AcceptedInvNext ==
    ASSUME TInv, AcceptedInv, [Next]_vars
    PROVE  AcceptedInv'
<1>1. judged \subseteq judged'
    BY FlowVersions
<1>2. SUFFICES ASSUME NEW n \in Numbers, record'[n].state = "whole", record'[n].accepted
               PROVE  n = Case /\ \E v \in judged' : v.revision = record'[n].revision
    BY DEF AcceptedInv
<1>3. record'[n] \notin {Missing, Damaged}
    BY <1>2 DEF Missing, Damaged
<1>4. RecordFor(FALSE).accepted = FALSE /\ RecordFor(TRUE).revision = flow.revision
    BY DEF RecordFor
<1>5. CASE record'[n] = record[n]
    BY <1>1, <1>2, <1>5 DEF AcceptedInv
<1>6. CASE n = Case /\ record'[n] = RecordFor(TRUE)
           /\ [text |-> flow.text, revision |-> flow.revision] \in judged'
    <2>1. [text |-> flow.text, revision |-> flow.revision].revision = record'[n].revision
        BY <1>4, <1>6
    <2>2. QED
        BY <1>6, <2>1
<1>7. QED
    BY <1>2, <1>3, <1>4, <1>5, <1>6, RecordMoves

\* Only the runner of issue_close decides.
LEMMA ClosingsMove ==
    ASSUME TInv, [Next]_vars
    PROVE  \/ closings' = closings
           \/ \E n \in Numbers : RunnerVerifies(n) /\ closings' = closings \cup {AsRead(n)}
<1>1. ASSUME NEW s \in Sessions, Decide(s)
      PROVE  \E n \in Numbers : RunnerVerifies(n) /\ closings' = closings \cup {AsRead(n)}
    <2>1. op[s].number \in Numbers
        BY <1>1 DEF Decide, TInv, ToolInv, Calls, Idle
    <2>2. QED
        BY <1>1, <2>1 DEF Decide
<1>2. ASSUME NEW s \in Sessions, Make(s) \/ Refuse(s) \/ Patch(s) \/ Write(s) \/ Confirm(s) \/ Fault(s)
      PROVE  closings' = closings
    BY <1>2 DEF Make, Request, Create, CheckClose, Refuse, Patch, Write, Truncate, Fill, Rename,
       Confirm, Fault, RenameFails, Crash
<1>3. QED
    BY <1>1, <1>2, StepCases DEF ToolStep, Proceed, TInv

LEMMA ClosedAsAcceptedNext ==
    ASSUME TInv, VersionInv, AcceptedInv, ClosedAsAccepted, [Next]_vars
    PROVE  ClosedAsAccepted'
<1>1. judged \subseteq judged'
    BY FlowVersions
<1>2. CASE closings' = closings
    BY <1>1, <1>2 DEF ClosedAsAccepted
<1>3. ASSUME NEW n \in Numbers, RunnerVerifies(n), closings' = closings \cup {AsRead(n)}
      PROVE  ClosedAsAccepted'
    <2>1. ASSUME issues[n].role = "case"
          PROVE  n = Case /\ [text |-> issues[n].text, revision |-> issues[n].revision] \in judged
        <3>1. Accepts(n, issues[n].revision) /\ Whole(issues[n])
            BY <1>3, <2>1 DEF RunnerVerifies, MayClose
        <3>2. n = Case
            BY <3>1 DEF Accepts, AcceptedInv
        <3>3. PICK v \in judged : v.revision = issues[n].revision
            BY <3>1 DEF Accepts, AcceptedInv
        <3>4. Version(issues[n]) \in Versions /\ v \in Versions
            BY <3>1, <3>2, CaseHeld DEF TInv, Versions
        <3>5. Version(issues[n]).revision = issues[n].revision /\ Version(issues[n]).text = issues[n].text
            BY DEF Version
        <3>6. v.text = issues[n].text
            BY <3>3, <3>4, <3>5 DEF VersionInv
        <3>7. v = [text |-> v.text, revision |-> v.revision]
            BY <3>4, VersionsType
        <3>8. QED
            BY <3>2, <3>3, <3>6, <3>7
    <2>2. AsRead(n).number = n /\ AsRead(n).role = issues[n].role /\ AsRead(n).text = issues[n].text
          /\ AsRead(n).revision = issues[n].revision
        BY DEF AsRead
    <2>3. ASSUME NEW c \in closings', c.role = "case"
          PROVE  c.number = Case /\ [text |-> c.text, revision |-> c.revision] \in judged'
        <3>1. CASE c \in closings
            BY <1>1, <2>3, <3>1 DEF ClosedAsAccepted
        <3>2. CASE c = AsRead(n)
            BY <1>1, <2>1, <2>2, <2>3, <3>2
        <3>3. QED
            BY <1>3, <3>1, <3>2
    <2>4. QED
        BY <2>3 DEF ClosedAsAccepted
<1>4. QED
    BY <1>2, <1>3, ClosingsMove

LEMMA CloseInvInit == Init => CloseInv
<1> SUFFICES ASSUME Init PROVE CloseInv
    OBVIOUS
<1>1. Case \in Numbers /\ 0 \in Times
    BY IssueToolAssumption DEF Case, Numbers, Times
<1>2. issues[Case].text = 0 /\ issues[Case].revision = 0 /\ tmp[Case] = Missing
      /\ judged = {} /\ closings = {} /\ now = 0 /\ flow.text = 0 /\ flow.revision = 0
      /\ \A n \in Numbers : record[n] = Missing
    BY <1>1 DEF Init, ToolInit, AtBegin, Case
<1>3. \A s \in Sessions : ~ Writing(s)
    BY DEF Init, ToolInit, Writing, Idle
<1>4. ~ Whole(tmp[Case])
    BY <1>2 DEF Whole, Missing
<1>5. \A x \in Held : x = issues[Case]
    BY <1>3, <1>4 DEF Held
<1>6. \A v \in Versions : v.text = 0 /\ v.revision = 0
    BY <1>2, <1>5 DEF Versions, Version, NoVersion
<1>7. VersionInv
    BY <1>2, <1>6 DEF VersionInv
<1>8. AcceptedInv /\ ClosedAsAccepted
    BY <1>2 DEF AcceptedInv, ClosedAsAccepted, Missing
<1>9. QED
    BY <1>7, <1>8 DEF CloseInv

\* When callers renew the revision with the text, whoever calls issue_close and
\* whenever: a case Issue is closed with the text that a run of the machine accepted.
THEOREM ClosedAsAcceptedCareful == ASSUME Careful PROVE Spec => []ClosedAsAccepted
<1>1. TInv /\ CloseInv /\ [Next]_vars => CloseInv'
    BY VersionInvNext, AcceptedInvNext, ClosedAsAcceptedNext DEF CloseInv
<1>2. CloseInv => ClosedAsAccepted
    BY DEF CloseInv
<1>3. QED
    BY <1>1, <1>2, CloseInvInit, TInvAlways, PTL DEF Spec

-----------------------------------------------------------------------------
(* One call after another: issues stay whole, comments stay.                   *)

\* Calls of the local backend do not overlap, or the project is on GitHub.
Serialized == ~ Overlap \/ "local" \notin Backends

OneCall == backend = "local" => \A s, t \in Sessions : op[s] # Idle /\ op[t] # Idle => s = t

FilledIsNext == \A s \in Sessions : op[s].at = "filled" => tmp[op[s].number] = op[s].next

\* Every comment that was named, and is kept, is in the file.
Fits(names, n, file) ==
    Whole(file) =>
        \A c \in names : c.number = n /\ c.kept =>
            [seq |-> c.seq, posted |-> c.posted] \in file.comments

\* The numbers in use are those up to some k; a file that is being written is one of
\* them or the next one.
Upto(k) ==
    /\ \A n \in Numbers : issues[n] # Missing <=> n <= k
    /\ \A s \in Sessions : Writing(s) => op[s].number <= k + 1
Segment == \E k \in 0..MaxIssue : Upto(k)

KeptInv ==
    /\ OneCall /\ FilledIsNext /\ IssueWhole /\ Segment
    /\ \A n \in Numbers : Fits(named, n, issues[n])
    /\ \A s \in Sessions : Writing(s) => Fits(named, op[s].number, op[s].next)
    /\ \A c \in named : Whole(issues[c.number])

\* The next number is free, and the one after those in use.
LEMMA NextIsFree ==
    ASSUME NEW k \in 0..MaxIssue, Upto(k)
    PROVE  NextNumber = k + 1 /\ (NextNumber \in Numbers => issues[NextNumber] = Missing)
<1> DEFINE S == {0} \cup {n \in Numbers : issues[n] # Missing}
<1>1. MaxIssue \in Nat
    BY IssueToolAssumption
<1>2. k \in S /\ \A y \in S : y \in Nat /\ k >= y
    BY <1>1 DEF Upto, Numbers
<1>3. \A x \in S : (\A y \in S : x >= y) => x = k
    BY <1>1, <1>2
<1>4. Max(S) = k
    BY <1>2, <1>3 DEF Max
<1>5. NextNumber = k + 1
    BY <1>1, <1>4 DEF NextNumber
<1>6. QED
    BY <1>1, <1>5 DEF Upto

\* What is named after a call was named before it; a deleted comment is not kept.
LEMMA NamedBefore ==
    ASSUME ToolInv, NEW n, NEW kind, NEW seq, NEW c \in Named(n, kind, seq)
    PROVE  /\ \E d \in named : /\ c.number = d.number /\ c.seq = d.seq /\ c.posted = d.posted
                               /\ c.kept => d.kept
           /\ kind = "delete-comment" /\ c.number = n /\ c.seq = seq => ~ c.kept
<1>1. CASE kind # "delete-comment"
    BY <1>1 DEF Named
<1>2. CASE c \in Unnamed(n, seq)
    BY <1>2 DEF Unnamed
<1>3. CASE \E d \in named : c = [d EXCEPT !.kept = FALSE]
    BY <1>3 DEF ToolInv
<1>4. QED
    BY <1>1, <1>2, <1>3 DEF Named

\* One call moves on, and one issue at most is replaced by a whole one.
LEMMA KeptMoves ==
    ASSUME ToolInv, KeptInv, NEW s \in Sessions, NEW call, op' = [op EXCEPT ![s] = call],
           backend = "local" => \A t \in Sessions \ {s} : op[t] = Idle,
           UNCHANGED backend,
           call.at = "filled" => tmp'[call.number] = call.next,
           call.at \in {"read", "truncated", "filled"} =>
               /\ backend = "local" /\ call.number \in Numbers /\ call.number <= NextNumber
               /\ Fits(named', call.number, call.next),
           \/ issues' = issues
           \/ \E n \in Numbers, file \in Issues : n <= NextNumber /\ issues' = [issues EXCEPT ![n] = file],
           \A m \in Numbers : Fits(named', m, issues'[m]),
           \A c \in named' : Whole(issues'[c.number])
    PROVE  KeptInv'
<1>1. \A t \in Sessions : op'[t] = IF t = s THEN call ELSE op[t]
    BY DEF ToolInv
<1>2. \A t \in Sessions : t # s => ~ Writing(t)
    <2>1. SUFFICES ASSUME NEW t \in Sessions, t # s, Writing(t) PROVE FALSE
        OBVIOUS
    <2>2. op[t] # Idle
        BY <2>1 DEF Writing, Idle
    <2>3. backend = "local"
        BY <2>1, <2>2 DEF Writing, ToolInv, Backed
    <2>4. QED
        BY <2>1, <2>2, <2>3
<1>3. \A t \in Sessions : Writing(t)' => t = s /\ call.at \in {"read", "truncated", "filled"}
    BY <1>1, <1>2 DEF Writing
<1>4. OneCall'
    BY <1>1 DEF OneCall
<1>5. FilledIsNext'
    <2>1. SUFFICES ASSUME NEW t \in Sessions, op'[t].at = "filled"
                   PROVE  tmp'[op'[t].number] = op'[t].next
        BY DEF FilledIsNext
    <2>2. t = s
        BY <1>3, <2>1 DEF Writing
    <2>3. QED
        BY <1>1, <2>1, <2>2
<1>6. PICK k \in 0..MaxIssue : Upto(k)
    BY DEF KeptInv, Segment
<1>7. NextNumber = k + 1 /\ k \in Nat /\ MaxIssue \in Nat
    BY <1>6, NextIsFree, IssueToolAssumption
<1>8. \A file \in Issues : file # Missing /\ file # Damaged
    BY DEF Issues, Missing, Damaged
<1>9. issues \in [Numbers -> Files(Issues)]
    BY DEF ToolInv
<1>10. ASSUME Writing(s)' PROVE op'[s].number <= k + 1
    BY <1>1, <1>3, <1>7, <1>10
<1>11. IssueWhole' /\ Segment'
    <2>1. CASE issues' = issues
        <3>1. Upto(k)'
            BY <1>3, <1>6, <1>10, <2>1 DEF Upto
        <3>2. QED
            BY <2>1, <3>1 DEF KeptInv, IssueWhole, Segment
    <2>2. ASSUME NEW n \in Numbers, NEW file \in Issues, n <= k + 1, issues' = [issues EXCEPT ![n] = file]
          PROVE  IssueWhole' /\ Segment'
        <3>1. \A m \in Numbers : issues'[m] = IF m = n THEN file ELSE issues[m]
            BY <1>9, <2>2
        <3>2. IssueWhole'
            BY <1>8, <3>1 DEF KeptInv, IssueWhole
        <3>3. CASE n <= k
            <4>1. Upto(k)'
                BY <1>3, <1>6, <1>8, <1>10, <3>1, <3>3 DEF Upto
            <4>2. QED
                BY <3>2, <4>1 DEF Segment
        <3>4. CASE n = k + 1
            <4>1. k + 1 \in 0..MaxIssue
                BY <1>7, <3>4 DEF Numbers
            <4>2. \A m \in Numbers : issues'[m] # Missing <=> m <= k + 1
                BY <1>6, <1>7, <1>8, <3>1, <3>4 DEF Upto, Numbers
            <4>3. ASSUME NEW t \in Sessions, Writing(t)' PROVE op'[t].number <= (k + 1) + 1
                <5>1. t = s /\ call.number \in Numbers /\ op'[s] = call
                    BY <1>1, <1>3, <4>3
                <5>2. op'[s].number <= k + 1
                    BY <1>10, <4>3, <5>1
                <5>3. QED
                    BY <1>7, <5>1, <5>2 DEF Numbers
            <4>4. Upto(k + 1)'
                BY <4>2, <4>3 DEF Upto
            <4>5. QED
                BY <3>2, <4>1, <4>4 DEF Segment
        <3>5. QED
            BY <1>7, <2>2, <3>3, <3>4 DEF Numbers
    <2>3. QED
        BY <1>7, <2>1, <2>2
<1>12. \A t \in Sessions : Writing(t)' => Fits(named', op'[t].number, op'[t].next)
    BY <1>1, <1>3
<1>13. QED
    BY <1>4, <1>5, <1>11, <1>12 DEF KeptInv, Fits, Writing

LEMMA OthersIdle ==
    ASSUME Serialized, ToolInv, OneCall, NEW s \in Sessions, ToolStep(s), backend = "local"
    PROVE  \A t \in Sessions \ {s} : op[t] = Idle
<1>1. ~ Overlap
    BY DEF Serialized, ToolInv
<1>2. CASE Make(s)
    BY <1>1, <1>2 DEF Make, Request, Create, CheckClose, Alone
<1>3. CASE Proceed(s) \/ Fault(s)
    <2>1. op[s] # Idle
        BY <1>3 DEF Proceed, Fault, Decide, Refuse, Patch, Write, Truncate, Fill, Rename, Confirm,
           RenameFails, Crash, Idle
    <2>2. QED
        BY <2>1 DEF OneCall
<1>4. QED
    BY <1>2, <1>3 DEF ToolStep

\* Deleting a comment takes nothing from what fits.
LEMMA FitsBefore ==
    ASSUME ToolInv, NEW n, NEW kind, NEW seq, NEW m, NEW file, Fits(named, m, file)
    PROVE  Fits(Named(n, kind, seq), m, file)
<1>1. SUFFICES ASSUME Whole(file), NEW c \in Named(n, kind, seq), c.number = m, c.kept
               PROVE  [seq |-> c.seq, posted |-> c.posted] \in file.comments
    BY DEF Fits
<1>2. PICK d \in named : c.number = d.number /\ c.seq = d.seq /\ c.posted = d.posted /\ (c.kept => d.kept)
    BY NamedBefore
<1>3. QED
    BY <1>1, <1>2 DEF Fits

\* A call leaves the comments that it does not delete.
LEMMA ChangedComments ==
    ASSUME now \in Nat, now < MaxTime,
           NEW kind \in Kinds \ {"create"}, NEW issue \in Issues, Numbered(issue), NEW seq \in Nat,
           NEW next \in Changed(kind, issue, seq), NEW c \in issue.comments
    PROVE  c \in next.comments \/ (kind = "delete-comment" /\ c.seq = seq)
<1>1. CASE kind = "update"
    BY <1>1, UpdateType DEF Changed
<1>2. CASE kind = "comment"
    BY <1>2 DEF Changed, Commented, Issues
<1>3. CASE kind = "edit-comment"
    BY <1>3 DEF Changed, CommentEdited, Issues
<1>4. CASE kind = "delete-comment"
    BY <1>4 DEF Changed, CommentDeleted, Issues
<1>5. CASE kind = "close"
    BY <1>5 DEF Changed, Closed, Issues
<1>6. CASE kind = "reopen"
    BY <1>6 DEF Changed, Reopened, Issues
<1>7. QED
    BY <1>1, <1>2, <1>3, <1>4, <1>5, <1>6 DEF Kinds

LEMMA FitsNext ==
    ASSUME ToolInv, now < MaxTime, NEW n \in Numbers, NEW kind \in Kinds \ {"create"},
           NEW issue \in Issues, Numbered(issue), Fits(named, n, issue), NEW seq \in Nat,
           NEW next \in Changed(kind, issue, seq)
    PROVE  Fits(Named(n, kind, seq), n, next)
<1>1. now \in Nat /\ Whole(issue)
    BY LaterType DEF ToolInv, Issues, Whole
<1>2. SUFFICES ASSUME NEW c \in Named(n, kind, seq), c.number = n, c.kept
               PROVE  [seq |-> c.seq, posted |-> c.posted] \in next.comments
    BY DEF Fits
<1>3. [seq |-> c.seq, posted |-> c.posted] \in issue.comments
    BY <1>1, <1>2, FitsBefore DEF Fits
<1>4. kind = "delete-comment" => c.seq # seq
    BY <1>2, NamedBefore
<1>5. QED
    BY <1>1, <1>3, <1>4, ChangedComments

\* A whole issue has a number in use.
LEMMA WholeBelow ==
    ASSUME ToolInv, KeptInv, NEW n \in Numbers, issues[n] # Missing
    PROVE  n <= NextNumber
<1>1. PICK k \in 0..MaxIssue : Upto(k)
    BY DEF KeptInv, Segment
<1>2. QED
    BY <1>1, NextIsFree, IssueToolAssumption DEF Upto, Numbers

LEMMA NamesStay ==
    ASSUME ToolInv, KeptInv, NEW n, NEW kind, NEW seq, named' = Named(n, kind, seq)
    PROVE  \A c \in named' : c.number \in Numbers /\ Whole(issues[c.number])
BY NamedBefore DEF KeptInv, ToolInv

\* An issue is changed on GitHub, or a change of its file begins.
LEMMA KeptBegins ==
    ASSUME ToolInv, KeptInv, NEW s \in Sessions,
           backend = "local" => \A t \in Sessions \ {s} : op[t] = Idle,
           NEW n \in Numbers, n <= NextNumber, NEW kind \in Kinds, NEW seq \in Nat, NEW next \in Issues,
           op' = [op EXCEPT ![s] = Call(IF backend = "github" THEN "applied" ELSE "read",
                                        kind, n, next, seq)],
           issues' = IF backend = "github" THEN [issues EXCEPT ![n] = next] ELSE issues,
           UNCHANGED backend,
           Fits(named', n, next),
           \A m \in Numbers : Fits(named', m, issues[m]),
           \A c \in named' : c.number \in Numbers /\ Whole(issues[c.number])
    PROVE  KeptInv'
<1> DEFINE call == Call(IF backend = "github" THEN "applied" ELSE "read", kind, n, next, seq)
<1>1. /\ call.number = n /\ call.next = next
      /\ call.at = (IF backend = "github" THEN "applied" ELSE "read")
    BY CallType
<1>2. op' = [op EXCEPT ![s] = call]
    OBVIOUS
<1> HIDE DEF call
<1>3. backend \in {"github", "local"} /\ issues \in [Numbers -> Files(Issues)]
    BY IssueToolAssumption DEF ToolInv
<1>4. Whole(next)
    BY DEF Issues, Whole
<1>5. /\ \A m \in Numbers : Fits(named', m, issues'[m])
      /\ \A c \in named' : Whole(issues'[c.number])
    BY <1>3, <1>4
<1>6. \/ issues' = issues
      \/ \E m \in Numbers, file \in Issues : m <= NextNumber /\ issues' = [issues EXCEPT ![m] = file]
    OBVIOUS
<1>7. call.at # "filled"
      /\ (call.at \in {"read", "truncated", "filled"} =>
            /\ backend = "local" /\ call.number \in Numbers /\ call.number <= NextNumber
            /\ Fits(named', call.number, call.next))
    BY <1>1, <1>3
<1>8. QED
    BY <1>2, <1>5, <1>6, <1>7, KeptMoves

LEMMA RequestKept ==
    ASSUME Serialized, ToolInv, KeptInv, NEW s \in Sessions, NEW kind \in Kinds \ {"create", "close"},
           NEW n \in Numbers, NEW seq \in Nat, Ask(s, kind, n, seq),
           backend = "local" => \A t \in Sessions \ {s} : op[t] = Idle
    PROVE  KeptInv'
<1>1. issues[n] \in Issues /\ Numbered(issues[n])
    BY WholeIsIssue DEF Ask, Request, ToolInv, Backed
<1>2. now < MaxTime /\ now \in Nat
    BY LaterType DEF Ask, Request, Change, Tick, ToolInv
<1>3. PICK next \in Changed(kind, issues[n], seq) :
          /\ op' = [op EXCEPT ![s] = Call(IF backend = "github" THEN "applied" ELSE "read",
                                        kind, n, next, SeqOf(kind, next, seq))]
          /\ issues' = IF backend = "github" THEN [issues EXCEPT ![n] = next] ELSE issues
          /\ named' = Named(n, kind, seq)
    BY DEF Ask, Request, Change
<1>4. next \in Issues /\ SeqOf(kind, next, seq) \in Nat
    BY <1>1, <1>2, ChangedType
<1>5. Fits(named', n, next)
    <2>1. Fits(named, n, issues[n])
        BY DEF KeptInv
    <2>2. QED
        BY <1>1, <1>2, <1>3, <2>1, FitsNext
<1>6. \A m \in Numbers : Fits(named', m, issues[m])
    BY <1>3, FitsBefore DEF KeptInv
<1>7. \A c \in named' : c.number \in Numbers /\ Whole(issues[c.number])
    BY <1>3, NamesStay
<1>8. n <= NextNumber
    BY <1>1, WholeBelow DEF Issues, Missing
<1>9. UNCHANGED backend
    BY DEF Ask, Request
<1>10. QED
    BY <1>3, <1>4, <1>5, <1>6, <1>7, <1>8, <1>9, KeptBegins

LEMMA CreateKept ==
    ASSUME ToolInv, KeptInv, NEW s \in Sessions, NEW role \in {"case", "tracking"}, Create(s, role),
           backend = "local" => \A t \in Sessions \ {s} : op[t] = Idle
    PROVE  KeptInv'
<1>1. Later \in Times
    BY LaterType DEF Create, Tick, ToolInv
<1>2. NewIssue(role) \in Issues /\ NewIssue(role).comments = {}
    BY <1>1 DEF NewIssue, Issues
<1>3. NextNumber \in Numbers /\ named' = named /\ UNCHANGED backend /\ "create" \in Kinds /\ 0 \in Nat
    BY DEF Create, Kinds
<1>4. op' = [op EXCEPT ![s] = Call(IF backend = "github" THEN "applied" ELSE "read",
                                   "create", NextNumber, NewIssue(role), 0)]
      /\ issues' = IF backend = "github" THEN [issues EXCEPT ![NextNumber] = NewIssue(role)] ELSE issues
    BY DEF Create
<1>5. issues[NextNumber] = Missing
    BY <1>3, NextIsFree DEF KeptInv, Segment
<1>6. \A c \in named : c.number \in Numbers /\ Whole(issues[c.number]) /\ c.number # NextNumber
    BY <1>5 DEF KeptInv, ToolInv, Whole, Missing
<1>7. Fits(named', NextNumber, NewIssue(role))
    BY <1>2, <1>3, <1>6 DEF Fits
<1>8. NextNumber <= NextNumber
    BY <1>3 DEF Numbers
<1>9. \A m \in Numbers : Fits(named', m, issues[m])
    BY <1>3 DEF KeptInv
<1>10. QED
    BY <1>2, <1>3, <1>4, <1>6, <1>7, <1>8, <1>9, KeptBegins

\* A call moves on, and the issues and the named comments stay as they are.
LEMMA KeptMovesOnly ==
    ASSUME ToolInv, KeptInv, NEW s \in Sessions, NEW call, op' = [op EXCEPT ![s] = call],
           backend = "local" => \A t \in Sessions \ {s} : op[t] = Idle,
           UNCHANGED <<backend, issues, named>>,
           call.at = "filled" => tmp'[call.number] = call.next,
           call.at \in {"read", "truncated", "filled"} =>
               /\ backend = "local" /\ call.number \in Numbers /\ call.number <= NextNumber
               /\ Fits(named, call.number, call.next)
    PROVE  KeptInv'
<1>1. (\A m \in Numbers : Fits(named', m, issues'[m]))
      /\ (\A c \in named' : Whole(issues'[c.number]))
    BY DEF KeptInv
<1>2. QED
    BY <1>1, KeptMoves

LEMMA EndsKept ==
    ASSUME ToolInv, KeptInv, NEW s \in Sessions,
           (\E n \in Numbers : CheckClose(s, n)) \/ Refuse(s) \/ Crash(s) \/ RenameFails(s),
           backend = "local" => \A t \in Sessions \ {s} : op[t] = Idle
    PROVE  KeptInv'
<1>1. \E c : /\ op' = [op EXCEPT ![s] = c] /\ c.at \in {"idle", "checked"}
             /\ UNCHANGED <<backend, issues, named>>
    <2>1. Idle.at = "idle"
        BY DEF Idle
    <2>2. \A n : Call("checked", "close", n, issues[n], 0).at = "checked"
        BY DEF Call
    <2>3. QED
        BY <2>1, <2>2 DEF CheckClose, Refuse, Crash, RenameFails
<1>2. QED
    BY <1>1, KeptMovesOnly

\* The runner decides: on GitHub a request is to follow, a file is to be written.
LEMMA DecideKept ==
    ASSUME ToolInv, KeptInv, NEW s \in Sessions, Decide(s),
           backend = "local" => \A t \in Sessions \ {s} : op[t] = Idle
    PROVE  KeptInv'
<1> DEFINE n    == op[s].number
           call == Call(IF backend = "github" THEN "decided" ELSE "read", "close", n, Closed(issues[n]), 0)
<1>1. n \in Numbers
    BY DEF ToolInv, Decide, Calls, Idle
<1>2. issues[n] \in Issues
    BY <1>1, WholeIsIssue DEF Decide, RunnerVerifies, ToolInv
<1>3. backend \in {"github", "local"}
    BY IssueToolAssumption DEF ToolInv
<1>4. /\ call.at = (IF backend = "github" THEN "decided" ELSE "read")
      /\ call.number = n /\ call.next = Closed(issues[n])
    BY DEF Call
<1>5. op' = [op EXCEPT ![s] = call] /\ UNCHANGED <<backend, issues, named>>
    BY DEF Decide
<1> HIDE DEF call
<1>6. n <= NextNumber
    BY <1>1, <1>2, WholeBelow DEF Issues, Missing
<1>7. Fits(named, n, Closed(issues[n]))
    <2>1. Closed(issues[n]).comments = issues[n].comments
          /\ Whole(issues[n])
        BY <1>2 DEF Closed, Issues, Whole
    <2>2. Fits(named, n, issues[n])
        BY <1>1 DEF KeptInv
    <2>3. QED
        BY <2>1, <2>2 DEF Fits
<1>8. QED
    BY <1>1, <1>3, <1>4, <1>5, <1>6, <1>7, KeptMovesOnly

LEMMA PatchKept ==
    ASSUME ToolInv, KeptInv, NEW s \in Sessions, Patch(s),
           backend = "local" => \A t \in Sessions \ {s} : op[t] = Idle
    PROVE  KeptInv'
<1> DEFINE n    == op[s].number
           call == [op[s] EXCEPT !.at = "applied"]
<1>1. op[s] \in Calls /\ n \in Numbers /\ op[s] # Idle
    BY DEF ToolInv, Patch, Calls, Idle
<1>2. issues[n] \in Issues /\ issues \in [Numbers -> Files(Issues)]
    BY <1>1, WholeIsIssue DEF Patch, ToolInv, Backed
<1>3. now < MaxTime /\ now \in Nat /\ Later \in Times
    BY LaterType DEF Patch, Tick, ToolInv
<1>4. Closed(issues[n]) \in Issues /\ Closed(issues[n]).comments = issues[n].comments
      /\ Whole(issues[n]) /\ Whole(Closed(issues[n]))
    BY <1>2, <1>3 DEF Closed, Issues, Whole
<1>5. call.at = "applied"
    BY <1>1 DEF Calls
<1>6. op' = [op EXCEPT ![s] = call] /\ UNCHANGED <<backend, named>>
      /\ issues' = [issues EXCEPT ![n] = Closed(issues[n])]
    BY DEF Patch
<1> HIDE DEF call
<1>7. n <= NextNumber
    BY <1>1, <1>2, WholeBelow DEF Issues, Missing
<1>8. \A m \in Numbers : Fits(named', m, issues'[m])
    <2>1. Fits(named, n, Closed(issues[n]))
        BY <1>1, <1>4 DEF KeptInv, Fits
    <2>2. \A m \in Numbers : issues'[m] = IF m = n THEN Closed(issues[n]) ELSE issues[m]
        BY <1>2, <1>6
    <2>3. QED
        BY <1>6, <2>1, <2>2 DEF KeptInv
<1>9. \A c \in named' : Whole(issues'[c.number])
    <2>1. \A c \in named : c.number \in Numbers /\ Whole(issues[c.number])
        BY DEF KeptInv, ToolInv
    <2>2. QED
        BY <1>2, <1>4, <1>6, <2>1 DEF KeptInv
<1>10. QED
    BY <1>1, <1>4, <1>5, <1>6, <1>7, <1>8, <1>9, KeptMoves

LEMMA WriteKept ==
    ASSUME ToolInv, KeptInv, NEW s \in Sessions, Write(s),
           backend = "local" => \A t \in Sessions \ {s} : op[t] = Idle
    PROVE  KeptInv'
<1> DEFINE n == op[s].number
<1>1. op[s] \in Calls /\ n \in Numbers /\ op[s] # Idle /\ Writing(s)
    BY DEF ToolInv, Write, Truncate, Fill, Rename, Writing, Calls, Idle
<1>2. backend = "local" /\ Fits(named, n, op[s].next) /\ op[s].next \in Issues
    BY <1>1 DEF ToolInv, Backed, KeptInv, Writing, Calls
<1>3. n <= NextNumber
    <2>1. PICK k \in 0..MaxIssue : Upto(k)
        BY DEF KeptInv, Segment
    <2>2. QED
        BY <1>1, <2>1, NextIsFree DEF Upto
<1>4. issues \in [Numbers -> Files(Issues)] /\ tmp \in [Numbers -> Files(Issues)]
    BY DEF ToolInv
<1>5. \A at \in {"truncated", "filled", "applied"} :
          LET call == [op[s] EXCEPT !.at = at]
          IN  call.at = at /\ call.number = n /\ call.next = op[s].next
    BY <1>1 DEF Calls
<1>6. CASE Truncate(s)
    <2>1. op' = [op EXCEPT ![s] = [op[s] EXCEPT !.at = "truncated"]]
          /\ UNCHANGED <<backend, issues, named>>
        BY <1>6 DEF Truncate
    <2>2. QED
        BY <1>1, <1>2, <1>3, <1>5, <2>1, KeptMovesOnly
<1>7. CASE Fill(s)
    <2>1. op' = [op EXCEPT ![s] = [op[s] EXCEPT !.at = "filled"]]
          /\ UNCHANGED <<backend, issues, named>> /\ tmp' = [tmp EXCEPT ![n] = op[s].next]
        BY <1>7 DEF Fill
    <2>2. tmp'[n] = op[s].next
        BY <1>1, <1>4, <2>1
    <2>3. QED
        BY <1>1, <1>2, <1>3, <1>5, <2>1, <2>2, KeptMovesOnly
<1>8. CASE Rename(s)
    <2>1. tmp[n] = op[s].next /\ op[s].next # Missing /\ Whole(op[s].next)
        BY <1>2, <1>8 DEF Rename, KeptInv, FilledIsNext, Issues, Missing, Whole
    <2>2. op' = [op EXCEPT ![s] = [op[s] EXCEPT !.at = "applied"]]
          /\ issues' = [issues EXCEPT ![n] = op[s].next] /\ UNCHANGED <<backend, named>>
        BY <1>8, <2>1 DEF Rename
    <2>3. \A m \in Numbers : issues'[m] = IF m = n THEN op[s].next ELSE issues[m]
        BY <1>4, <2>2
    <2>4. \A m \in Numbers : Fits(named', m, issues'[m])
        BY <1>2, <2>2, <2>3 DEF KeptInv
    <2>5. \A c \in named : c.number \in Numbers /\ Whole(issues[c.number])
        BY DEF KeptInv, ToolInv
    <2>6. \A c \in named' : Whole(issues'[c.number])
        BY <2>1, <2>2, <2>3, <2>5 DEF KeptInv
    <2>7. \E m \in Numbers, file \in Issues : m <= NextNumber /\ issues' = [issues EXCEPT ![m] = file]
        BY <1>1, <1>2, <1>3, <2>2
    <2>8. QED
        BY <1>2, <1>5, <2>2, <2>4, <2>6, <2>7, KeptMoves
<1>9. QED
    BY <1>6, <1>7, <1>8 DEF Write

\* A comment is reported with the id and the time it has in the file.
LEMMA ConfirmKept ==
    ASSUME ToolInv, KeptInv, NEW s \in Sessions, Confirm(s),
           backend = "local" => \A t \in Sessions \ {s} : op[t] = Idle
    PROVE  KeptInv'
<1> DEFINE n     == op[s].number
           added == IF op[s].kind = "comment" /\ Whole(issues[n])
                    THEN {[number |-> n, seq |-> c.seq, posted |-> c.posted, kept |-> TRUE] :
                             c \in {x \in issues[n].comments : x.seq = op[s].seq}}
                    ELSE {}
<1>1. n \in Numbers
    BY DEF ToolInv, Confirm, Calls, Idle
<1>2. named' = named \cup added /\ UNCHANGED <<backend, issues>> /\ op' = [op EXCEPT ![s] = Idle]
      /\ Idle.at = "idle"
    BY DEF Confirm, Idle
<1>3. ASSUME NEW d \in added
      PROVE  /\ d.number = n /\ Whole(issues[n])
             /\ \E c \in issues[n].comments : c.seq = d.seq /\ c.posted = d.posted
    BY <1>3
<1>4. Whole(issues[n]) => issues[n] \in Issues /\ Numbered(issues[n])
    BY <1>1, WholeIsIssue DEF ToolInv, Backed
<1> HIDE DEF added
<1>5. ASSUME NEW d \in added
      PROVE  [seq |-> d.seq, posted |-> d.posted] \in issues[n].comments
    <2>1. PICK c \in issues[n].comments : c.seq = d.seq /\ c.posted = d.posted
        BY <1>3
    <2>2. c = [seq |-> c.seq, posted |-> c.posted]
        BY <1>3, <1>4 DEF Issues, Comments
    <2>3. QED
        BY <2>1, <2>2
<1>6. \A m \in Numbers : Fits(named', m, issues'[m])
    <2>1. SUFFICES ASSUME NEW m \in Numbers PROVE Fits(named \cup added, m, issues[m])
        BY <1>2
    <2>2. Fits(named, m, issues[m])
        BY DEF KeptInv
    <2>3. \A d \in added : d.number = m => m = n
        BY <1>3
    <2>4. QED
        BY <1>5, <2>2, <2>3 DEF Fits
<1>7. \A c \in named' : Whole(issues'[c.number])
    BY <1>2, <1>3 DEF KeptInv
<1>8. QED
    BY <1>2, <1>6, <1>7, KeptMoves

LEMMA KeptInvStep ==
    ASSUME Serialized, ToolInv, KeptInv, NEW s \in Sessions, ToolStep(s)
    PROVE  KeptInv'
<1>1. backend = "local" => \A t \in Sessions \ {s} : op[t] = Idle
    BY OthersIdle DEF KeptInv
<1>2. CASE \E n \in Numbers, kind \in Kinds \ {"create", "close"} :
              \E seq \in {0} \cup {c.seq : c \in IF Whole(issues[n]) THEN issues[n].comments ELSE {}} :
                  Ask(s, kind, n, seq)
    <2>1. PICK n \in Numbers, kind \in Kinds \ {"create", "close"} :
              \E seq \in {0} \cup {c.seq : c \in IF Whole(issues[n]) THEN issues[n].comments ELSE {}} :
                  Ask(s, kind, n, seq)
        BY <1>2
    <2>2. Whole(issues[n]) => \A c \in issues[n].comments : c.seq \in Nat
        <3>1. Whole(issues[n]) => issues[n] \in Issues
            BY WholeIsIssue DEF ToolInv
        <3>2. QED
            BY <3>1 DEF Issues, Comments
    <2>3. \E seq \in Nat : Ask(s, kind, n, seq)
        BY <2>1, <2>2
    <2>4. QED
        BY <1>1, <2>3, RequestKept
<1>3. CASE \E role \in {"case", "tracking"} : Create(s, role)
    BY <1>1, <1>3, CreateKept
<1>4. CASE (\E n \in Numbers : CheckClose(s, n)) \/ Refuse(s) \/ Crash(s) \/ RenameFails(s)
    BY <1>1, <1>4, EndsKept
<1>5. CASE Decide(s) \/ Patch(s) \/ Write(s) \/ Confirm(s)
    BY <1>1, <1>5, DecideKept, PatchKept, WriteKept, ConfirmKept
<1>6. QED
    BY <1>2, <1>3, <1>4, <1>5 DEF ToolStep, Make, Ask, Proceed, Fault

LEMMA KeptInvInit == Init => KeptInv
<1> SUFFICES ASSUME Init PROVE KeptInv
    OBVIOUS
<1>1. MaxIssue \in Nat /\ MaxIssue >= 1
    BY IssueToolAssumption
<1>2. /\ \A s \in Sessions : op[s] = Idle
      /\ named = {}
      /\ \A n \in Numbers : issues[n] # Damaged /\ (issues[n] # Missing <=> n <= 1)
                            /\ (Whole(issues[n]) => issues[n].comments = {})
    BY <1>1 DEF Init, ToolInit, Numbers, Missing, Damaged, Whole
<1>3. \A s \in Sessions : ~ Writing(s) /\ op[s].at # "filled"
    BY <1>2 DEF Writing, Idle
<1>4. 1 \in 0..MaxIssue /\ Upto(1)
    BY <1>1, <1>2, <1>3 DEF Upto
<1>5. QED
    BY <1>2, <1>3, <1>4 DEF KeptInv, OneCall, FilledIsNext, IssueWhole, Segment, Fits

LEMMA KeptInvAlways == ASSUME Serialized PROVE Spec => []KeptInv
<1>1. TInv /\ KeptInv /\ [Next]_vars => KeptInv'
    <2> SUFFICES ASSUME TInv, KeptInv, [Next]_vars PROVE KeptInv'
        OBVIOUS
    <2>1. CASE \E s \in Sessions : ToolStep(s)
        BY <2>1, KeptInvStep DEF TInv
    <2>2. CASE UNCHANGED <<backend, issues, tmp, op, now, named, closings, reset>>
        BY <2>2 DEF KeptInv, OneCall, FilledIsNext, IssueWhole, Segment, Upto, Fits, Writing
    <2>3. QED
        BY <2>1, <2>2, StepCases DEF TInv
<1>2. QED
    BY <1>1, KeptInvInit, TInvAlways, PTL DEF Spec

\* Wherever a writer is killed, a reader finds a whole issue, if calls do not overlap.
THEOREM IssueWholeSerialized == ASSUME Serialized PROVE Spec => []IssueWhole
<1>1. KeptInv => IssueWhole
    BY DEF KeptInv
<1>2. QED
    BY <1>1, KeptInvAlways, PTL

\* A comment that was confirmed is there until it is deleted, if calls do not overlap:
\* rewriting the whole file loses none.
THEOREM CommentsKeptSerialized == ASSUME Serialized PROVE Spec => []CommentsKept
<1>1. ToolInv /\ KeptInv => CommentsKept
    <2> SUFFICES ASSUME ToolInv, KeptInv, NEW c \in named, c.kept
                 PROVE  /\ Whole(issues[c.number])
                        /\ [seq |-> c.seq, posted |-> c.posted] \in issues[c.number].comments
        BY DEF CommentsKept
    <2>1. c.number \in Numbers /\ Whole(issues[c.number])
        BY DEF ToolInv, KeptInv
    <2>2. QED
        BY <2>1 DEF KeptInv, Fits
<1>2. TInv => ToolInv
    BY DEF TInv
<1>3. QED
    BY <1>1, <1>2, KeptInvAlways, TInvAlways, PTL

\* Two comments on an issue never have one id, whatever the high mark was set to, and
\* whether or not calls overlap or are killed.
THEOREM CommentIdsDistinctAlways == Spec => []CommentIdsDistinct
<1>1. TInv => CommentIdsDistinct
    BY DEF TInv, ToolInv, Backed, Numbered, CommentIdsDistinct
<1>2. QED
    BY <1>1, TInvAlways, PTL
=============================================================================
