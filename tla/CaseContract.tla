---------------------------- MODULE CaseContract -----------------------------
(* What the close of a case promises: a close decides only on a version of the *)
(* case's Issue that was accepted, the Issue is closed only by such a close,   *)
(* and the work of the case, its worktree and its branch, is removed only      *)
(* after one and never comes back.  There is one other way: an update that     *)
(* sets the state or the role of the Issue.  After it nothing is promised      *)
(* about the close, but still that only an accepted version is decided on.     *)
EXTENDS Naturals

CONSTANT Versions   \* of the Issue, as a reader may find it

VARIABLES
    accepted,  \* the versions that were accepted
    decided,   \* the versions of a case that closes have decided on
    reset,     \* has an update set the state or the role of the Issue?
    issue,     \* "open" or "closed"
    work       \* what there is of the case's work

vars == <<accepted, decided, reset, issue, work>>

Init ==
    /\ accepted = {} /\ decided = {} /\ reset = FALSE
    /\ issue = "open"
    /\ work = {"worktree", "branch"}

Accept ==
    \E v \in Versions :
        accepted' = accepted \cup {v} /\ UNCHANGED <<decided, reset, issue, work>>

Decide ==
    \E v \in accepted :
        decided' = decided \cup {v} /\ UNCHANGED <<accepted, reset, issue, work>>

Update ==
    /\ reset' = TRUE /\ issue' \in {"open", "closed"}
    /\ UNCHANGED <<accepted, decided, work>>

Close ==
    /\ decided # {} \/ reset
    /\ issue = "open" /\ issue' = "closed"
    /\ UNCHANGED <<accepted, decided, reset, work>>

Reopen ==
    /\ issue = "closed" /\ issue' = "open"
    /\ UNCHANGED <<accepted, decided, reset, work>>

Remove ==
    /\ decided # {} \/ reset
    /\ \E part \in work : work' = work \ {part}
    /\ UNCHANGED <<accepted, decided, reset, issue>>

Next == Accept \/ Decide \/ Update \/ Close \/ Reopen \/ Remove

Spec == Init /\ [][Next]_vars
=============================================================================
