---------------------------- MODULE EpicContract -----------------------------
(* What the orchestration of an Epic promises of its child Issues: a child is  *)
(* worked on only after everything it depends on was accepted, at most         *)
(* MaxActive children are worked on at a time, work that was accepted is not   *)
(* taken up again, and the Epic is closed when all children were accepted.     *)
EXTENDS Naturals, FiniteSets

CONSTANTS
    Children,   \* the child Issues
    DependsOn,  \* [Children -> SUBSET Children]
    MaxActive   \* tasks at work at a time

VARIABLES
    phase,  \* [Children -> {"open", "running", "accepted"}]
    epic    \* "open" or "closed"

vars == <<phase, epic>>

Init == phase = [c \in Children |-> "open"] /\ epic = "open"

Running == {c \in Children : phase[c] = "running"}
With(S, p) == [c \in Children |-> IF c \in S THEN p ELSE phase[c]]

\* Children whose providers are accepted start, as far as there are slots.
Start ==
    \E S \in (SUBSET Children) \ {{}} :
        /\ \A c \in S : phase[c] = "open" /\ \A p \in DependsOn[c] : phase[p] = "accepted"
        /\ Cardinality(Running \cup S) <= MaxActive
        /\ phase' = With(S, "running")
        /\ UNCHANGED epic

End == \E c \in Running : phase' = With({c}, "open") /\ UNCHANGED epic

Accept ==
    \E c \in Children : phase[c] = "open" /\ phase' = With({c}, "accepted") /\ UNCHANGED epic

Close ==
    /\ epic = "open" /\ \A c \in Children : phase[c] = "accepted"
    /\ epic' = "closed"
    /\ UNCHANGED phase

Next == Start \/ End \/ Accept \/ Close

Spec == Init /\ [][Next]_vars
=============================================================================
