------------------------------ MODULE LintCalls ------------------------------
(* What the worker pool promises to the gates that call it, with no pool in    *)
(* it: a call returns only when each of its targets has exactly one verdict,   *)
(* whoever produced it.                                                        *)
(* Abstract counterpart of lintTargetsInParallel (lib/workers/pool.ts).        *)
EXTENDS Naturals

CONSTANTS
    Calls,      \* invocations of lintTargetsInParallel
    Targets,    \* the files they inspect
    Owner,      \* [Targets -> Calls]: the call a target was submitted by
    Verdicts,   \* the verdicts inspectText can return
    None        \* no verdict yet

VARIABLES
    running,    \* the calls that have started
    returned,   \* the calls whose promise has been settled
    verdict     \* [Targets -> Verdicts \cup {None}]

vars == <<running, returned, verdict>>

TargetsOf(c) == {t \in Targets : Owner[t] = c}

Init ==
    /\ running = {}
    /\ returned = {}
    /\ verdict = [t \in Targets |-> None]

Start(c) ==
    /\ c \notin running
    /\ running' = running \cup {c}
    /\ UNCHANGED <<returned, verdict>>

\* One more target of a running call gets its verdict, once and for all.
Inspect(t) ==
    /\ Owner[t] \in running \ returned
    /\ verdict[t] = None
    /\ \E v \in Verdicts : verdict' = [verdict EXCEPT ![t] = v]
    /\ UNCHANGED <<running, returned>>

Return(c) ==
    /\ c \in running \ returned
    /\ \A t \in TargetsOf(c) : verdict[t] # None
    /\ returned' = returned \cup {c}
    /\ UNCHANGED <<running, verdict>>

Next ==
    \/ \E c \in Calls : Start(c) \/ Return(c)
    \/ \E t \in Targets : Inspect(t)

Spec == Init /\ [][Next]_vars
=============================================================================
