----------------------- MODULE ResourceReconciliation -----------------------
(* How the pre-merge part of close compares the ledger of a case with what it  *)
(* observes on the machine (close_mechanical_steps.ts): is every resource the  *)
(* case recorded gone, and is anything there that nobody recorded?             *)
(*                                                                             *)
(* The module has no state.  An observation obs is a record of                 *)
(*   failures   the inspections that failed        exists     places that exist*)
(*   remotes, worktrees, branches                  listed by git               *)
(*   processes  pid -> [alive, seen, parent], where seen maps the attributes   *)
(*              that could be read to their values; ports  port -> listening   *)
(*   absence    url -> is it confirmed absent                                  *)
(*   files      temporary files found: [path, source, ground]                  *)
(*   excluded   paths that are no temporary resource                           *)
(* A check is what the caller hands in: the Issue, the known residues, the     *)
(* confirmed deletions (entry id -> identifiers), the grounds for processes    *)
(* and ports, the pid of the machine itself, and whether a population is       *)
(* declared.  Paths and values are compared after normalisation, so equal      *)
(* values of the model are equal normalised ones.                              *)
EXTENDS Naturals, FiniteSets, Functions

CONSTANTS
    Urls,       \* places that are addresses of remotes
    Inside,     \* pairs <<path, directory>> of a path under a directory
    Mentions,   \* pairs <<command line or url, place>> of a text naming a place
    CaseNamed,  \* texts and paths that contain an identifier of the case
    None        \* no parent, no ground

AttributionKeys == {"commandLine", "cwd", "startedAt"}
RequiredScopes == {"dedicated-area-listing", "os-temp-area-scan", "process-liveness",
                   "listen-port-check", "remote-absence-verification"}

Within(path, directory) == path = directory \/ <<path, directory>> \in Inside
HasPid(e) == "pid" \in DOMAIN e.ids
LivePids(obs) == {p \in DOMAIN obs.processes : obs.processes[p].alive}
AlivePid(obs, pid) == pid \in LivePids(obs)

\* deletionConfirmationCoversEntry: the confirmation names every identifier.
Covers(e, confirmed) ==
    \A k \in DOMAIN e.ids : k \in DOMAIN confirmed /\ confirmed[k] = e.ids[k]

Confirmed(e, check) ==
    /\ e.id \in DOMAIN check.confirmations
    /\ Covers(e, check.confirmations[e.id])

-----------------------------------------------------------------------------
(* A process that was restarted has a new pid.  It is attributed to an entry   *)
(* by its other attributes, if that is possible in one way only.               *)

Comparable(e, proc) == AttributionKeys \cap DOMAIN e.ids \cap DOMAIN proc.seen

\* A working directory alone is shared and proves nothing.
LooksLike(e, proc) ==
    /\ ~ Comparable(e, proc) \subseteq {"cwd"}
    /\ \A k \in Comparable(e, proc) : e.ids[k] = proc.seen[k]

Candidates(e, obs) == {p \in LivePids(obs) : LooksLike(e, obs.processes[p])}

\* The one process an entry claims whose own pid is not seen alive.
Claim(e, obs) ==
    IF HasPid(e) /\ ~ AlivePid(obs, e.ids["pid"]) /\ Cardinality(Candidates(e, obs)) = 1
    THEN Candidates(e, obs) ELSE {}

\* deriveLedgerProcessAttribution: a process that two entries claim is nobody's.
Attributed(e, entries, obs) ==
    {p \in Claim(e, obs) : \A other \in entries \ {e} : p \notin Claim(other, obs)}

-----------------------------------------------------------------------------
(* deriveEntryPresence: what the observation says of the resource of an entry. *)
(* owned is the set with the process attributed to it, or empty.               *)

AbsenceConfirmed(url, obs) == url \in DOMAIN obs.absence /\ obs.absence[url]

Undetermined(e, obs) ==
    e.place \in Urls \ obs.remotes /\ ~ AbsenceConfirmed(e.place, obs)

PlaceSeen(e, obs) ==
    \/ e.place \in obs.remotes
    \/ e.place \notin Urls /\ e.place \in obs.exists \cup obs.worktrees

SeenPresent(e, owned, obs) ==
    \/ PlaceSeen(e, obs)
    \/ HasPid(e) /\ (AlivePid(obs, e.ids["pid"]) \/ owned # {})
    \/ "listenPort" \in DOMAIN e.ids /\ e.ids["listenPort"] \in DOMAIN obs.ports
                                     /\ obs.ports[e.ids["listenPort"]]
    \/ "branch" \in DOMAIN e.ids /\ e.ids["branch"] \in obs.branches

NotCovered(e, owned, obs) ==
    \/ HasPid(e) /\ owned = {} /\ e.ids["pid"] \notin DOMAIN obs.processes
    \/ "listenPort" \in DOMAIN e.ids /\ e.ids["listenPort"] \notin DOMAIN obs.ports

\* Mutant of Presence: only the recorded pid is looked at.
PresenceOfPid(e, owned, obs) ==
    IF Undetermined(e, obs) THEN "undetermined"
    ELSE IF SeenPresent(e, {}, obs) THEN "present"
    ELSE IF NotCovered(e, owned, obs) THEN "unavailable"
    ELSE "absent"

Presence(e, owned, obs) ==
    IF Undetermined(e, obs) THEN "undetermined"
    ELSE IF SeenPresent(e, owned, obs) THEN "present"
    ELSE IF NotCovered(e, owned, obs) THEN "unavailable"
    ELSE "absent"

-----------------------------------------------------------------------------
(* What was found on the machine and is in no record.                          *)

\* isOutsideCaseCreationPopulation: nothing connects it with the case.  Without a
\* declaration nothing is outside.
Outside(texts, paths, entries, check) ==
    /\ check.declared
    /\ (texts \cup paths) \cap CaseNamed = {}
    /\ \A e \in entries : /\ \A path \in paths : ~ Within(path, e.place)
                          /\ \A text \in texts : <<text, e.place>> \notin Mentions

\* evaluateUnregisteredObservations: the temporary files nobody accounts for.
UnregisteredFiles(entries, obs, check) ==
    {f \in obs.files :
        /\ \A x \in obs.excluded : ~ Within(f.path, x)
        /\ \A e \in entries : e.place # f.path
        /\ \A r \in check.residues : r.place # f.path
        /\ f.ground = None
        /\ f.source = "dedicated-area" \/ ~ Outside({}, {f.path}, entries, check)}

\* The remote of a known residue: what its identifiers say, or else its place.
RemotesOf(r) == IF "url" \in DOMAIN r.ids THEN {r.ids["url"]} ELSE {r.place} \cap Urls

\* A known residue is there if its path was found, unless that is excluded or an entry
\* has it, or if one of its identifiers was seen.
ResiduesFound(entries, obs, check) ==
    {r \in check.residues :
        \/ \E f \in obs.files : /\ f.path = r.place
                               /\ \A x \in obs.excluded : ~ Within(f.path, x)
                               /\ \A e \in entries : e.place # f.path
        \/ HasPid(r) /\ AlivePid(obs, r.ids["pid"])
        \/ "listenPort" \in DOMAIN r.ids /\ r.ids["listenPort"] \in DOMAIN obs.ports
                                         /\ obs.ports[r.ids["listenPort"]]
        \/ \E u \in RemotesOf(r) : u \in obs.remotes \/ (u \in DOMAIN obs.absence /\ ~ obs.absence[u])
        \/ "branch" \in DOMAIN r.ids /\ r.ids["branch"] \in obs.branches}

\* Mutant of ChildOf: the number of the parent is believed.
ChildOfNamed(p, q, obs) == obs.processes[p].parent = q /\ q \in DOMAIN obs.processes

\* The machine's own process and what descends from it.  A parent is believed
\* only when it is known not to have started after the child.
ChildOf(p, q, obs) ==
    /\ obs.processes[p].parent = q
    /\ q \in DOMAIN obs.processes
    /\ "startedAt" \in DOMAIN obs.processes[p].seen \cap DOMAIN obs.processes[q].seen
    /\ obs.processes[q].seen["startedAt"] <= obs.processes[p].seen["startedAt"]

\* Who may be among them: the others have no parent that is believed.
Kin(obs, check) ==
    {check.self} \cup {p \in DOMAIN obs.processes : \E q \in DOMAIN obs.processes : ChildOf(p, q, obs)}

OwnProcesses(obs, check) ==
    LET closed(S) == \A p \in DOMAIN obs.processes : (\E q \in S : ChildOf(p, q, obs)) => p \in S
        kin == Kin(obs, check)
    IN  {p \in kin : \A S \in SUBSET kin : check.self \in S /\ closed(S) => p \in S}

\* findEntityGroundExclusion: a ground names the process by its pid, or by an
\* attribute that only one live process has.
Grounded(p, obs, check) ==
    \E g \in check.grounds :
        \/ g = [key |-> "pid", value |-> p]
        \/ {q \in LivePids(obs) : g.key \in DOMAIN obs.processes[q].seen
                                  /\ obs.processes[q].seen[g.key] = g.value} = {p}

Recorded(key, entries) == {e.ids[key] : e \in {x \in entries : key \in DOMAIN x.ids}}

AttributedPids(entries, obs) == UNION {Attributed(e, entries, obs) : e \in entries}

\* evaluateObservationEntityConsumption: live processes, listening ports and
\* remotes that no record accounts for.
TextsOf(proc) == {proc.seen[k] : k \in DOMAIN proc.seen \cap {"commandLine"}}
PathsOf(proc) == {proc.seen[k] : k \in DOMAIN proc.seen \cap {"cwd"}}

UnregisteredProcesses(entries, obs, check) ==
    LET known == Recorded("pid", entries \cup check.residues)
                     \cup AttributedPids(entries, obs) \cup OwnProcesses(obs, check)
    IN  {p \in LivePids(obs) \ known :
            /\ ~ Grounded(p, obs, check)
            /\ ~ Outside(TextsOf(obs.processes[p]) \cup PathsOf(obs.processes[p]),
                         PathsOf(obs.processes[p]), entries, check)}

UnregisteredPorts(entries, obs, check) ==
    {p \in DOMAIN obs.ports :
        /\ obs.ports[p]
        /\ p \notin Recorded("listenPort", entries \cup check.residues)
        /\ [key |-> "port", value |-> p] \notin check.grounds
        /\ ~ Outside({}, {}, entries, check)}

UnregisteredRemotes(entries, obs, check) ==
    {u \in DOMAIN obs.absence :
        /\ ~ obs.absence[u]
        /\ u \notin {e.place : e \in entries} \cup UNION {RemotesOf(r) : r \in check.residues}
        /\ ~ Outside({u}, {}, entries, check)}

-----------------------------------------------------------------------------
(* The decision.                                                               *)

\* Mutant of IsChilds: the child answers for the whole unit.
IsAnyones(e, check) == TRUE

IsChilds(e, check) == e.owner = check.issue

\* An entry of the Issue is settled when its resource is seen to be gone, it is
\* marked as collected, and the deletion was confirmed.
Settled(e, entries, obs, check) ==
    /\ e.collected /\ Confirmed(e, check)
    /\ Presence(e, Attributed(e, entries, obs), obs) = "absent"

\* evaluateVerificationResourceReconciliation: there is no finding.
Permitted(known, entries, obs, check) ==
    /\ known
    /\ \A e \in entries : IsChilds(e, check) => Settled(e, entries, obs, check)
    /\ obs.failures = {}
    /\ UnregisteredFiles(entries, obs, check) = {}
    /\ ResiduesFound(entries, obs, check) = {}
    /\ UnregisteredPorts(entries, obs, check) = {}
    /\ UnregisteredRemotes(entries, obs, check) = {}
    /\ UnregisteredProcesses(entries, obs, check) = {}

\* The resources of the others do not keep this Issue open, only the unit it is in.
UnitBlocked(entries, check) == \E e \in entries : ~ IsChilds(e, check) /\ ~ e.collected

\* deriveAcceptanceGaps and buildAcceptanceControlObservation: each control is in
\* fact connected.  Here a restarted process is not attributed to its entry.
Connected(known, entries, obs, check) ==
    /\ known /\ obs.failures = {}
    /\ \A e \in entries : e.basis = "occurrence" \/ e.allowedPlace
    /\ RequiredScopes \subseteq check.scopes
    /\ \A e \in entries :
          IsChilds(e, check) /\ e.collected /\ Presence(e, {}, obs) = "absent" => Confirmed(e, check)
    /\ check.recordable

\* executeVerificationResourceReconciliation: the step of the report passes.
StepPasses(known, entries, obs, check) ==
    Permitted(known, entries, obs, check) /\ Connected(known, entries, obs, check)
=============================================================================
