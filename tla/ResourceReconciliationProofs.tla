--------------------- MODULE ResourceReconciliationProofs ---------------------
(* What the decision of ResourceReconciliation means, for every observation    *)
(* and every check: what was inspected when it permits, which processes it     *)
(* takes for those of an entry or for its own, and what it leaves unrecorded.  *)
EXTENDS ResourceReconciliation, FiniteSetTheorems, TLAPS

-----------------------------------------------------------------------------
(* Restarted processes.                                                        *)

\* A process is attributed to one entry at most, whatever the entries say of
\* themselves (deriveLedgerProcessAttribution).
THEOREM AttributedToOneEntry ==
    ASSUME NEW entries, NEW obs, NEW e \in entries, NEW f \in entries,
           NEW p \in Attributed(e, entries, obs), p \in Attributed(f, entries, obs)
    PROVE  e = f
<1> SUFFICES ASSUME e # f PROVE FALSE
    OBVIOUS
<1>1. p \in Claim(e, obs) /\ \A other \in entries \ {e} : p \notin Claim(other, obs)
    BY DEF Attributed
<1>2. p \in Claim(f, obs)
    BY DEF Attributed
<1>3. QED
    BY <1>1, <1>2

\* An entry has one process at most attributed to it; that process is alive, and an
\* attribute other than its working directory speaks for it.
THEOREM AttributedOnce ==
    ASSUME NEW entries, NEW obs, NEW e \in entries, IsFiniteSet(DOMAIN obs.processes),
           NEW p \in Attributed(e, entries, obs), NEW q \in Attributed(e, entries, obs)
    PROVE  /\ p = q
           /\ AlivePid(obs, p)
           /\ \E k \in {"commandLine", "startedAt"} :
                 /\ k \in DOMAIN e.ids \cap DOMAIN obs.processes[p].seen
                 /\ e.ids[k] = obs.processes[p].seen[k]
<1>1. /\ p \in Candidates(e, obs) /\ q \in Candidates(e, obs)
      /\ Cardinality(Candidates(e, obs)) = 1
    BY DEF Attributed, Claim
<1>2. Candidates(e, obs) \subseteq DOMAIN obs.processes
    BY DEF Candidates, LivePids
<1>3. PICK x : Candidates(e, obs) = {x}
    BY <1>1, <1>2, FS_Subset, FS_Singleton
<1>4. p = q
    BY <1>1, <1>3
<1>5. p \in LivePids(obs) /\ LooksLike(e, obs.processes[p])
    BY <1>1 DEF Candidates
<1>6. PICK k \in Comparable(e, obs.processes[p]) : k # "cwd"
    BY <1>5 DEF LooksLike
<1>7. k \in {"commandLine", "startedAt"} /\ k \in DOMAIN e.ids \cap DOMAIN obs.processes[p].seen
    BY <1>6 DEF Comparable, AttributionKeys
<1>8. e.ids[k] = obs.processes[p].seen[k]
    BY <1>5, <1>6 DEF LooksLike
<1>9. QED
    BY <1>4, <1>5, <1>7, <1>8 DEF AlivePid

-----------------------------------------------------------------------------
(* The processes of the machine itself.                                        *)

DescentClosed(S, obs) ==
    \A p \in DOMAIN obs.processes : (\E q \in S : ChildOf(p, q, obs)) => p \in S

LEMMA OwnByDefinition ==
    ASSUME NEW obs, NEW check
    PROVE  OwnProcesses(obs, check) =
              {p \in Kin(obs, check) : \A S \in SUBSET Kin(obs, check) :
                   check.self \in S /\ DescentClosed(S, obs) => p \in S}
BY DEF OwnProcesses, DescentClosed

\* What is in every set that has the machine and its descendants is its own.
LEMMA OwnIsLeast ==
    ASSUME NEW obs, NEW check, NEW S \in SUBSET Kin(obs, check),
           check.self \in S, DescentClosed(S, obs)
    PROVE  OwnProcesses(obs, check) \subseteq S
BY OwnByDefinition

\* The machine is among its own processes, and so is what descends from one of them.
LEMMA OwnIsClosed ==
    ASSUME NEW obs, NEW check
    PROVE  /\ check.self \in OwnProcesses(obs, check)
           /\ DescentClosed(OwnProcesses(obs, check), obs)
           /\ OwnProcesses(obs, check) \subseteq Kin(obs, check)
<1> DEFINE own == OwnProcesses(obs, check)
<1>1. own = {p \in Kin(obs, check) : \A S \in SUBSET Kin(obs, check) :
                 check.self \in S /\ DescentClosed(S, obs) => p \in S}
    BY OwnByDefinition
<1> HIDE DEF own
<1>2. check.self \in own /\ own \subseteq Kin(obs, check)
    BY <1>1 DEF Kin
<1>3. ASSUME NEW p \in DOMAIN obs.processes, NEW q \in own, ChildOf(p, q, obs)
      PROVE  p \in own
    <2>1. ASSUME NEW S \in SUBSET Kin(obs, check), check.self \in S, DescentClosed(S, obs)
          PROVE  p \in S
        <3>1. q \in S
            BY <1>1, <2>1
        <3>2. QED
            BY <1>3, <2>1, <3>1 DEF DescentClosed
    <2>2. p \in Kin(obs, check)
        BY <1>3 DEF Kin, ChildOf
    <2>3. QED
        BY <1>1, <2>1, <2>2
<1>4. QED
    BY <1>2, <1>3 DEF own, DescentClosed

\* Each of the machine's own processes but the machine is the child of another of
\* them: no two strangers vouch for each other.
THEOREM OwnHasOwnParent ==
    ASSUME NEW obs, NEW check, NEW p \in OwnProcesses(obs, check), p # check.self
    PROVE  \E q \in OwnProcesses(obs, check) \ {p} : ChildOf(p, q, obs)
<1> DEFINE own == OwnProcesses(obs, check)
<1> SUFFICES ASSUME \A q \in own \ {p} : ~ ChildOf(p, q, obs) PROVE FALSE
    OBVIOUS
<1>1. check.self \in own /\ DescentClosed(own, obs) /\ own \subseteq Kin(obs, check)
    BY OwnIsClosed
<1>2. DescentClosed(own \ {p}, obs)
    BY <1>1 DEF DescentClosed
<1>3. own \subseteq own \ {p}
    <2>1. own \ {p} \in SUBSET Kin(obs, check) /\ check.self \in own \ {p}
        BY <1>1
    <2>2. QED
        BY <1>2, <2>1, OwnIsLeast
<1>4. QED
    BY <1>3

\* A process that is known to have started before the machine is never taken for one
\* of its own, whatever parents the observation names: a pid that was given again
\* does not hide what an earlier process left behind.
THEOREM OwnStartedLater ==
    ASSUME NEW obs, NEW check, check.self \in DOMAIN obs.processes,
           \A p \in DOMAIN obs.processes :
               "startedAt" \in DOMAIN obs.processes[p].seen
               => obs.processes[p].seen["startedAt"] \in Nat,
           NEW p \in OwnProcesses(obs, check), p # check.self
    PROVE  /\ p \in DOMAIN obs.processes
           /\ "startedAt" \in DOMAIN obs.processes[p].seen
           /\ "startedAt" \in DOMAIN obs.processes[check.self].seen
           /\ obs.processes[check.self].seen["startedAt"] <= obs.processes[p].seen["startedAt"]
<1> DEFINE At(q) == obs.processes[q].seen["startedAt"]
<1> DEFINE Known(q) == "startedAt" \in DOMAIN obs.processes[q].seen
<1> DEFINE later == {check.self} \cup
                    {q \in Kin(obs, check) : /\ q \in DOMAIN obs.processes
                                             /\ Known(q) /\ Known(check.self)
                                             /\ At(check.self) <= At(q)}
<1>1. later \in SUBSET Kin(obs, check) /\ check.self \in later
    BY DEF Kin
<1>2. ASSUME NEW c \in DOMAIN obs.processes, NEW q \in later, ChildOf(c, q, obs)
      PROVE  c \in later
    <2>1. Known(c) /\ Known(q) /\ At(q) <= At(c) /\ q \in DOMAIN obs.processes
        BY <1>2 DEF ChildOf
    <2>2. At(c) \in Nat /\ At(q) \in Nat
        BY <2>1
    <2>3. Known(check.self) /\ At(check.self) <= At(q)
        <3>1. CASE q = check.self
            BY <2>1, <2>2, <3>1
        <3>2. CASE q # check.self
            BY <1>2, <3>2
        <3>3. QED
            BY <3>1, <3>2
    <2>4. At(check.self) \in Nat
        BY <2>3
    <2> HIDE DEF At, Known
    <2>5. At(check.self) <= At(c)
        BY <2>1, <2>2, <2>3, <2>4
    <2>6. c \in Kin(obs, check)
        BY <1>2, <2>1 DEF Kin
    <2>7. QED
        BY <2>1, <2>3, <2>5, <2>6
<1>3. DescentClosed(later, obs)
    BY <1>2 DEF DescentClosed
<1> HIDE DEF later
<1>4. p \in later
    BY <1>1, <1>3, OwnIsLeast
<1>5. QED
    BY <1>4 DEF later

-----------------------------------------------------------------------------
(* What is permitted.                                                          *)

\* When the acceptance is permitted, every resource of the Issue was inspected and
\* is gone, under each identifier that was recorded of it, and its deletion was
\* confirmed under each of them.  What was not looked at never counts as gone.
THEOREM PermittedMeansInspected ==
    ASSUME NEW known, NEW entries, NEW obs, NEW check, Permitted(known, entries, obs, check),
           NEW e \in entries, IsChilds(e, check)
    PROVE  /\ e.collected /\ e.id \in DOMAIN check.confirmations
           /\ Covers(e, check.confirmations[e.id])
           /\ e.place \in Urls => e.place \notin obs.remotes /\ AbsenceConfirmed(e.place, obs)
           /\ e.place \notin Urls => e.place \notin obs.exists \cup obs.worktrees
           /\ HasPid(e) => /\ e.ids["pid"] \in DOMAIN obs.processes
                           /\ ~ obs.processes[e.ids["pid"]].alive
                           /\ Attributed(e, entries, obs) = {}
           /\ "listenPort" \in DOMAIN e.ids => /\ e.ids["listenPort"] \in DOMAIN obs.ports
                                               /\ ~ obs.ports[e.ids["listenPort"]]
           /\ "branch" \in DOMAIN e.ids => e.ids["branch"] \notin obs.branches
<1> DEFINE owned == Attributed(e, entries, obs)
<1>1. Settled(e, entries, obs, check)
    BY DEF Permitted
<1>2. e.collected /\ Confirmed(e, check) /\ Presence(e, owned, obs) = "absent"
    BY <1>1 DEF Settled
<1> HIDE DEF owned
<1>3. ~ Undetermined(e, obs) /\ ~ SeenPresent(e, owned, obs) /\ ~ NotCovered(e, owned, obs)
    BY <1>2 DEF Presence
<1>4. ~ PlaceSeen(e, obs)
    BY <1>3 DEF SeenPresent
<1>5. e.place \in Urls => e.place \notin obs.remotes /\ AbsenceConfirmed(e.place, obs)
    BY <1>3, <1>4 DEF Undetermined, PlaceSeen
<1>6. e.place \notin Urls => e.place \notin obs.exists \cup obs.worktrees
    BY <1>4 DEF PlaceSeen
<1>7. HasPid(e) => /\ e.ids["pid"] \in DOMAIN obs.processes
                   /\ ~ obs.processes[e.ids["pid"]].alive
                   /\ owned = {}
    BY <1>3 DEF SeenPresent, NotCovered, AlivePid, LivePids
<1>8. "listenPort" \in DOMAIN e.ids => /\ e.ids["listenPort"] \in DOMAIN obs.ports
                                       /\ ~ obs.ports[e.ids["listenPort"]]
    BY <1>3 DEF SeenPresent, NotCovered
<1>9. "branch" \in DOMAIN e.ids => e.ids["branch"] \notin obs.branches
    BY <1>3 DEF SeenPresent
<1>10. QED
    BY <1>2, <1>5, <1>6, <1>7, <1>8, <1>9 DEF owned, Confirmed

\* Without a declared population, everything that was seen on the machine is
\* accounted for when the acceptance is permitted: each live process by a record, by
\* its attributes, by descent or by a ground, each listening port
\* and each temporary file and remote by a record or a ground.  A known residue
\* accounts for nothing.
THEOREM PermittedAccountsForAll ==
    ASSUME NEW known, NEW entries, NEW obs, NEW check, Permitted(known, entries, obs, check),
           ~ check.declared
    PROVE  /\ \A p \in LivePids(obs) :
                  \/ p \in Recorded("pid", entries)
                  \/ p \in AttributedPids(entries, obs)
                  \/ p \in OwnProcesses(obs, check)
                  \/ Grounded(p, obs, check)
           /\ \A port \in DOMAIN obs.ports :
                  \/ ~ obs.ports[port]
                  \/ port \in Recorded("listenPort", entries)
                  \/ [key |-> "port", value |-> port] \in check.grounds
           /\ \A u \in DOMAIN obs.absence :
                  \/ obs.absence[u]
                  \/ u \in {e.place : e \in entries}
           /\ \A f \in obs.files :
                  \/ f.ground # None
                  \/ \E x \in obs.excluded : Within(f.path, x)
                  \/ \E e \in entries : e.place = f.path
<1>1. \A texts, paths : ~ Outside(texts, paths, entries, check)
    BY DEF Outside
<1>2. /\ UnregisteredFiles(entries, obs, check) = {} /\ ResiduesFound(entries, obs, check) = {}
      /\ UnregisteredProcesses(entries, obs, check) = {}
      /\ UnregisteredPorts(entries, obs, check) = {}
      /\ UnregisteredRemotes(entries, obs, check) = {}
    BY DEF Permitted
<1>3. ASSUME NEW key, NEW x \in Recorded(key, entries \cup check.residues)
      PROVE  \/ x \in Recorded(key, entries)
             \/ \E r \in check.residues : key \in DOMAIN r.ids /\ r.ids[key] = x
    BY <1>3 DEF Recorded
<1>4. ASSUME NEW p \in LivePids(obs)
      PROVE  \/ p \in Recorded("pid", entries)
             \/ p \in AttributedPids(entries, obs)
             \/ p \in OwnProcesses(obs, check)
             \/ Grounded(p, obs, check)
    <2> SUFFICES ASSUME p \in Recorded("pid", entries \cup check.residues),
                        p \notin Recorded("pid", entries)
                 PROVE  FALSE
        BY <1>1, <1>2 DEF UnregisteredProcesses
    <2>1. PICK r \in check.residues : "pid" \in DOMAIN r.ids /\ r.ids["pid"] = p
        BY <1>3
    <2>2. r \in ResiduesFound(entries, obs, check)
        BY <2>1 DEF ResiduesFound, HasPid, AlivePid
    <2>3. QED
        BY <1>2, <2>2
<1>5. ASSUME NEW port \in DOMAIN obs.ports
      PROVE  \/ ~ obs.ports[port]
             \/ port \in Recorded("listenPort", entries)
             \/ [key |-> "port", value |-> port] \in check.grounds
    <2> SUFFICES ASSUME obs.ports[port], port \in Recorded("listenPort", entries \cup check.residues),
                        port \notin Recorded("listenPort", entries)
                 PROVE  FALSE
        BY <1>1, <1>2 DEF UnregisteredPorts
    <2>1. PICK r \in check.residues : "listenPort" \in DOMAIN r.ids /\ r.ids["listenPort"] = port
        BY <1>3
    <2>2. r \in ResiduesFound(entries, obs, check)
        BY <2>1 DEF ResiduesFound
    <2>3. QED
        BY <1>2, <2>2
<1>6. ASSUME NEW u \in DOMAIN obs.absence
      PROVE  obs.absence[u] \/ u \in {e.place : e \in entries}
    <2> SUFFICES ASSUME ~ obs.absence[u], u \notin {e.place : e \in entries}
                 PROVE  FALSE
        OBVIOUS
    <2>1. PICK r \in check.residues : u \in RemotesOf(r)
        BY <1>1, <1>2 DEF UnregisteredRemotes
    <2>2. r \in ResiduesFound(entries, obs, check)
        BY <2>1 DEF ResiduesFound
    <2>3. QED
        BY <1>2, <2>2
<1>7. ASSUME NEW f \in obs.files
      PROVE  \/ f.ground # None
             \/ \E x \in obs.excluded : Within(f.path, x)
             \/ \E e \in entries : e.place = f.path
    <2> SUFFICES ASSUME f.ground = None, \A x \in obs.excluded : ~ Within(f.path, x),
                        \A e \in entries : e.place # f.path
                 PROVE  FALSE
        OBVIOUS
    <2>1. PICK r \in check.residues : r.place = f.path
        BY <1>1, <1>2 DEF UnregisteredFiles
    <2>2. r \in ResiduesFound(entries, obs, check)
        BY <2>1 DEF ResiduesFound
    <2>3. QED
        BY <1>2, <2>2
<1>8. QED
    BY <1>4, <1>5, <1>6, <1>7

\* A declared population only ever excuses: what is permitted without one is
\* permitted with it.
THEOREM DeclaringExcuses ==
    ASSUME NEW known, NEW entries, NEW obs, NEW issue, NEW confirmations, NEW residues, NEW self,
           NEW grounds, NEW scopes, NEW recordable
    PROVE  LET check(declared) ==
                   [issue |-> issue, declared |-> declared, confirmations |-> confirmations,
                    residues |-> residues, self |-> self, scopes |-> scopes,
                    grounds |-> grounds, recordable |-> recordable]
           IN  Permitted(known, entries, obs, check(FALSE))
               => Permitted(known, entries, obs, check(TRUE))
<1> DEFINE check(declared) ==
               [issue |-> issue, declared |-> declared, confirmations |-> confirmations,
                residues |-> residues, self |-> self, scopes |-> scopes,
                grounds |-> grounds, recordable |-> recordable]
<1> DEFINE strict == check(FALSE)
<1> DEFINE lax == check(TRUE)
<1>1. /\ ~ strict.declared /\ lax.declared
      /\ lax.issue = strict.issue /\ lax.confirmations = strict.confirmations
      /\ lax.residues = strict.residues /\ lax.self = strict.self /\ lax.grounds = strict.grounds
    OBVIOUS
<1> HIDE DEF strict, lax
<1>2. \A texts, paths : ~ Outside(texts, paths, entries, strict)
    BY <1>1 DEF Outside
<1> SUFFICES ASSUME Permitted(known, entries, obs, strict)
             PROVE  Permitted(known, entries, obs, lax)
    BY DEF strict, lax
<1>3. \A e \in entries : IsChilds(e, lax) => Settled(e, entries, obs, lax)
    BY <1>1 DEF Permitted, IsChilds, Settled, Confirmed
<1>4. UnregisteredFiles(entries, obs, lax) \subseteq UnregisteredFiles(entries, obs, strict)
    BY <1>1, <1>2 DEF UnregisteredFiles
<1>5. ResiduesFound(entries, obs, lax) = ResiduesFound(entries, obs, strict)
    BY <1>1 DEF ResiduesFound
<1>6. /\ OwnProcesses(obs, lax) = OwnProcesses(obs, strict)
      /\ \A p : Grounded(p, obs, lax) = Grounded(p, obs, strict)
    <2>1. Kin(obs, lax) = Kin(obs, strict)
        BY <1>1 DEF Kin
    <2>2. OwnProcesses(obs, lax) = OwnProcesses(obs, strict)
        BY <1>1, <2>1, OwnByDefinition
    <2>3. \A p : Grounded(p, obs, lax) = Grounded(p, obs, strict)
        BY <1>1 DEF Grounded
    <2>4. QED
        BY <2>2, <2>3
<1>7. UnregisteredProcesses(entries, obs, lax) \subseteq UnregisteredProcesses(entries, obs, strict)
    BY <1>1, <1>2, <1>6 DEF UnregisteredProcesses
<1>8. UnregisteredPorts(entries, obs, lax) \subseteq UnregisteredPorts(entries, obs, strict)
    BY <1>1, <1>2 DEF UnregisteredPorts
<1>9. UnregisteredRemotes(entries, obs, lax) \subseteq UnregisteredRemotes(entries, obs, strict)
    BY <1>1, <1>2 DEF UnregisteredRemotes
<1>10. QED
    BY <1>3, <1>4, <1>5, <1>7, <1>8, <1>9 DEF Permitted
=============================================================================
