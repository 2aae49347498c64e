---------------------------- MODULE CaseResources ----------------------------
(* The temporary resources of a case on their way to the acceptance at close   *)
(* (verification-resources-ledger.ts, deletion-confirmation.ts and             *)
(* close_mechanical_steps.ts): directories and remotes are made and removed,   *)
(* servers are started, restarted under a new pid and stopped, by the child    *)
(* Issue, by the unit it belongs to and by others on the same machine.  What   *)
(* the child does is recorded before, after or never; what is deleted is       *)
(* confirmed and marked as collected in any order.  At any time the machine    *)
(* may look and decide with ResourceReconciliation.                            *)
EXTENDS ResourceReconciliation

CONSTANTS
    Dir, Url,       \* a directory in the dedicated area, and a remote
    Old,            \* a known residue from before the ledger
    UnitDir,        \* the directory of the unit's server
    Elsewhere,      \* the working directory of other programs
    Port,           \* on which the server of the child listens
    Self, Probe,    \* pids of the machine and of an inspection it runs
    Pids,           \* all other pids
    SelfStart,      \* when the machine starts
    MaxStarts,      \* bound: how many processes are started
    RecordedKeys    \* what may be recorded of the server of the child

Places == {Dir, Url, Old}
Owners == {"child", "unit", "other"}
Commands == [child |-> "server", unit |-> "unit-server", other |-> "server"]
Cwds == [child |-> Dir, unit |-> UnitDir, other |-> Elsewhere]

ASSUME ResourcesAssumption ==
    /\ Urls = {Url} /\ Url \notin {Dir, Old, UnitDir, Elsewhere}
    /\ Cardinality({Dir, Old, UnitDir, Elsewhere}) = 4
    /\ Self # Probe /\ {Self, Probe} \cap Pids = {}
    /\ None \notin Pids \cup {Self, Probe}
    /\ SelfStart \in Nat /\ MaxStarts \in Nat
    /\ RecordedKeys \subseteq SUBSET {"pid", "commandLine", "cwd", "startedAt", "listenPort"}

VARIABLES
    places,         \* the places that exist
    running,        \* [pids of the live processes -> who, since when, under which parent]
    clock,          \* the number of starts so far, which is the time
    entries,        \* the ledger
    confirmations,  \* entry id -> identifiers for which the deletion was confirmed
    declared,       \* is the population of the case declared?
    incarnations    \* history: entry id -> when the recorded process and its restarts began

vars == <<places, running, clock, entries, confirmations, declared, incarnations>>

\* The server of the child, in its directory; and the remote.
Kinds == {"server", "remote"}
KeysOf(kind) == IF kind = "remote" THEN {{}, {"url"}} ELSE RecordedKeys

UnitEntry(pid, place) ==
    [id |-> "unit", place |-> place, owner |-> "unit", collected |-> FALSE,
     basis |-> "creation", allowedPlace |-> TRUE,
     ids |-> [k \in {"pid", "commandLine"} |-> IF k = "pid" THEN pid ELSE Commands["unit"]]]

\* The unit may have a server of its own, in a directory of its own or in the residue.
Init ==
    /\ places \in {{}, {Old}}
    /\ declared \in BOOLEAN
    /\ confirmations = <<>>
    /\ \/ running = <<>> /\ clock = 0 /\ entries = {} /\ incarnations = <<>>
       \/ \E p \in Pids, place \in {UnitDir, Old} :
             /\ running = [q \in {p} |-> [who |-> "unit", since |-> 0, parent |-> None]]
             /\ clock = 1 /\ entries = {UnitEntry(p, place)}
             /\ incarnations = [id \in {"unit"} |-> {0}]

-----------------------------------------------------------------------------
(* What happens on the machine.                                                *)

Make(place) ==
    /\ place \in {Dir, Url} \ places
    /\ places' = places \cup {place}
    /\ UNCHANGED <<running, clock, entries, confirmations, declared, incarnations>>

Remove(place) ==
    /\ place \in places
    /\ places' = places \ {place}
    /\ UNCHANGED <<running, clock, entries, confirmations, declared, incarnations>>

With(p, process, rest) == [q \in {p} \cup rest |-> IF q = p THEN process ELSE running[q]]

\* A start takes any pid that no process has at the time, also one that a process had
\* before and an entry records.
MayTake(p, free) == clock < MaxStarts /\ p \notin DOMAIN running \ free

\* The parent of a process may be gone, and its pid may be the machine's now.
Start(who, p) ==
    /\ MayTake(p, {})
    /\ \A q \in DOMAIN running : running[q].who # who
    /\ \E parent \in {None} \cup {x \in {Self} : clock < SelfStart} :
          running' = With(p, [who |-> who, since |-> clock, parent |-> parent], DOMAIN running)
    /\ clock' = clock + 1
    /\ UNCHANGED <<places, entries, confirmations, declared, incarnations>>

Stop(p) ==
    /\ p \in DOMAIN running
    /\ running' = [q \in DOMAIN running \ {p} |-> running[q]]
    /\ UNCHANGED <<places, clock, entries, confirmations, declared, incarnations>>

\* A server comes up again, as a rule under another pid, whatever became of its entry.
Restart(p, new) ==
    /\ p \in DOMAIN running /\ MayTake(new, {p})
    /\ running' = With(new, [running[p] EXCEPT !.since = clock,
                                              !.parent = IF clock < SelfStart THEN @ ELSE None],
                       DOMAIN running \ {p})
    /\ clock' = clock + 1
    /\ incarnations' = [id \in DOMAIN incarnations |->
                           incarnations[id] \cup {x \in {clock} : running[p].since \in incarnations[id]}]
    /\ UNCHANGED <<places, entries, confirmations, declared>>

-----------------------------------------------------------------------------
(* What is recorded.                                                           *)

\* Mutant of IdsAllowed: anything goes.
IdsUnchecked(keys) == TRUE

\* validateRegistrationInput: at least one identifier.
IdsAllowed(keys) == keys # {}

\* registerResource, for a remote and for what is about to be made in an allowed
\* place, and recordOccurrenceFact, for what is there already, wherever it is.
Register(kind, keys) ==
    /\ \A e \in entries : e.id # kind
    /\ IdsAllowed(keys)
    /\ \E p \in IF kind = "server" THEN {q \in DOMAIN running : running[q].who = "child"} ELSE {None} :
          LET value == [url |-> Url, pid |-> p, commandLine |-> Commands["child"], cwd |-> Dir,
                        listenPort |-> Port, startedAt |-> IF p = None THEN 0 ELSE running[p].since]
              place == IF kind = "remote" THEN Url ELSE Dir
          IN  /\ entries' = entries \cup
                    {[id |-> kind, place |-> place,
                      ids |-> [k \in keys |-> value[k]], owner |-> "child", collected |-> FALSE,
                      basis |-> IF place \in places \ Urls THEN "occurrence" ELSE "creation",
                      allowedPlace |-> place \notin places \ Urls]}
              /\ incarnations' = [id \in DOMAIN incarnations \cup {kind} |->
                                     IF id # kind THEN incarnations[id]
                                     ELSE {running[q].since : q \in {p} \ {None}}]
    /\ UNCHANGED <<places, running, clock, confirmations, declared>>

\* The user confirms the deletion of what was shown to him, which may be less than
\* the entry says.
Confirm(e, keys) ==
    /\ e.owner = "child"
    /\ confirmations' = [id \in DOMAIN confirmations \cup {e.id} |->
                            IF id = e.id THEN [k \in keys |-> e.ids[k]] ELSE confirmations[id]]
    /\ UNCHANGED <<places, running, clock, entries, declared, incarnations>>

\* recordEntryCollected: also while the resource is still there.
Collect(e) ==
    /\ ~ e.collected
    /\ entries' = (entries \ {e}) \cup {[e EXCEPT !.collected = TRUE]}
    /\ UNCHANGED <<places, running, clock, confirmations, declared, incarnations>>

Next ==
    \/ \E place \in Places : Make(place) \/ Remove(place)
    \/ \E p \in Pids : \/ \E who \in Owners : Start(who, p)
                       \/ Stop(p)
                       \/ \E new \in Pids : Restart(p, new)
    \/ \E kind \in Kinds : \E keys \in KeysOf(kind) : Register(kind, keys)
    \/ \E e \in entries : \/ Collect(e)
                          \/ \E keys \in {DOMAIN e.ids, DOMAIN e.ids \ {"pid"}} : Confirm(e, keys)

Spec == Init /\ [][Next]_vars

-----------------------------------------------------------------------------
(* What the machine sees.  All live processes are listed, and the recorded pids *)
(* that were looked for; some attributes of the processes may be unreadable.    *)

ProcessOf(p, readable) ==
    LET seen(who, since) ==
            [k \in readable |-> CASE k = "commandLine" -> IF who = "machine" THEN "close" ELSE Commands[who]
                                  [] k = "cwd" -> IF who = "machine" THEN Elsewhere ELSE Cwds[who]
                                  [] k = "startedAt" -> since]
    IN  CASE p = Self -> [alive |-> TRUE, parent |-> None, seen |-> seen("machine", SelfStart)]
          [] p = Probe -> [alive |-> TRUE, parent |-> Self, seen |-> seen("machine", SelfStart)]
          [] p \in DOMAIN running -> [alive |-> TRUE, parent |-> running[p].parent,
                                      seen |-> seen(running[p].who, running[p].since)]
          [] OTHER -> [alive |-> FALSE, parent |-> None, seen |-> <<>>]

ChildPids == {p \in DOMAIN running : running[p].who = "child"}

Observed(readable, looked, failures) ==
    [failures |-> failures, exists |-> places \ Urls, remotes |-> {}, worktrees |-> {}, branches |-> {},
     processes |-> [p \in DOMAIN running \cup {Self, Probe} \cup looked |-> ProcessOf(p, readable)],
     ports |-> [port \in {Port} |-> ChildPids # {}],
     absence |-> [url \in Urls |-> url \notin places],
     files |-> {[path |-> place, source |-> IF place = Dir THEN "dedicated-area" ELSE "os-temp-area",
                 ground |-> None] : place \in places \ Urls},
     excluded |-> {}]

\* The other program is known as shared by its pid when it is grounded.
Check(grounded) ==
    [issue |-> "child", declared |-> declared, confirmations |-> confirmations,
     residues |-> {[place |-> Old, ids |-> <<>>]}, self |-> Self, scopes |-> RequiredScopes,
     grounds |-> {[key |-> "pid", value |-> p] : p \in grounded}, recordable |-> TRUE]

Passes(readable, looked, failures, grounded) ==
    StepPasses(entries # {}, entries, Observed(readable, looked, failures), Check(grounded))

RecordedPids == Recorded("pid", entries)
Others == {p \in DOMAIN running : running[p].who = "other"}
Childs == {e \in entries : e.owner = "child"}

\* A live process whose pid is a number that an entry of the unit records is taken for
\* that entry's, whosever it is, and with a declared population nothing else gives it
\* away (close_mechanical_steps.ts:2013).
Mistaken(p) == declared /\ p \in Recorded("pid", entries \ Childs)

Runs(e) == \E p \in DOMAIN running : running[p].since \in incarnations[e.id] /\ ~ Mistaken(p)

-----------------------------------------------------------------------------
(* Properties.                                                                 *)

\* Every variable has its type; every entry names what it stands for.
TypeOK ==
    /\ places \subseteq Places
    /\ DOMAIN running \subseteq Pids /\ clock \in Nat
    /\ \A p \in DOMAIN running : running[p] \in [who : Owners, since : Nat, parent : {None, Self}]
    /\ \A e \in entries : DOMAIN e.ids # {} /\ e.collected \in BOOLEAN
    /\ DOMAIN confirmations \subseteq {e.id : e \in entries}
    /\ DOMAIN incarnations = {e.id : e \in entries}
    /\ declared \in BOOLEAN

\* As long as anything is left of what the child recorded, be it under another pid,
\* the step does not pass, whatever the machine could read and whatever pids it
\* looked for.  With a declared population it must have read the working directories,
\* and a process under a pid that the unit's entry records is out of its sight.  A
\* known residue counts unless an entry has its path.
PermittedMeansGone ==
    (\/ Old \in places /\ \A e \in entries : e.place # Old
     \/ \E e \in Childs : e.place \in places \/ Runs(e))
    => \A readable \in SUBSET AttributionKeys, looked \in {{}, RecordedPids} :
          ~ declared \/ "cwd" \in readable => ~ Passes(readable, looked, {}, Others)

\* Nor does it pass while anything is left that the child did not record.  With a
\* declared population that is so for processes in a directory of the record, except
\* under a pid that the unit's entry records.
NothingUnrecorded ==
    (\/ Dir \in places
     \/ ~ declared /\ Url \in places
     \/ \E p \in ChildPids : ~ Mistaken(p) /\ (~ declared \/ \E e \in Childs : e.place = Dir))
    => \A readable \in SUBSET AttributionKeys :
          ~ declared \/ "cwd" \in readable => ~ Passes(readable, RecordedPids, {}, Others)

\* When everything of the child is gone, collected and confirmed, and nothing is
\* running that might be taken for it, by its pid or otherwise, the step passes,
\* whatever the unit has left.
CleanPasses ==
    (/\ Childs # {}
     /\ places = {} /\ ChildPids = {} /\ Others = {}
     /\ \A e \in Childs : /\ e.collected
                          /\ e.id \in DOMAIN confirmations
                          /\ confirmations[e.id] = e.ids
     /\ DOMAIN running \subseteq RecordedPids \ Recorded("pid", Childs))
    => Passes(AttributionKeys, RecordedPids, {}, {})
=============================================================================
