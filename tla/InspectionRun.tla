---------------------------- MODULE InspectionRun ----------------------------
(* Inspections of agentdev-textlint-guard that share the store of file results *)
(* of a project: runs of the final gate (lib/runs.ts), each a process of its   *)
(* own, and calls of a guarded tool (plugin.ts).                               *)
(*                                                                             *)
(* Of the inspection conditions only the project's dictionary is kept: whether *)
(* the rules are composed with it is decided when they are prepared, its hash  *)
(* goes into the key of a stored result, and its content is read by the prh    *)
(* rule each time a text is inspected.  Meanwhile anyone may edit it, and the  *)
(* files.  A verdict is told apart by the rules it was reached under.          *)
EXTENDS Naturals, FiniteSets

CONSTANTS
    Gates,          \* runs of the final gate
    Purpose,        \* [Gates -> {"final", "independent"}]
    Hooks,          \* calls of write or edit by an agent
    Planned,        \* [Hooks -> [file : Files, text : Texts]]: what a call would write
    Files,          \* numbered in the order they are enumerated
    Texts,
    Dictionaries,   \* contents the project's dictionary can have
    Violating,      \* the texts with a hard violation: pairs of a text and rules
    MaxEntries,     \* STORE_MAX_ENTRIES
    MaxRuns,        \* bound: inspections that are started
    MaxEdits,       \* bound: changes made by editors
    Absent,         \* no file, no dictionary, no stored result
    Standard,       \* the standard rules alone
    Uninspectable,  \* {ok: false}
    Untracked       \* the inspection conditions could not be computed

Inspections == Gates \cup Hooks
Rules == Dictionaries \cup {Standard}
Conditions == [composed : BOOLEAN, dictionary : Dictionaries \cup {Absent}]
Keys == [file : Files, text : Texts, conditions : Conditions]

\* The inspections whose results may be stored.
Storers == Hooks \cup {g \in Gates : Purpose[g] = "final"}

ASSUME InspectionAssumption ==
    /\ Gates \cap Hooks = {} /\ IsFiniteSet(Gates) /\ IsFiniteSet(Hooks)
    /\ Purpose \in [Gates -> {"final", "independent"}]
    /\ Planned \in [Hooks -> [file : Files, text : Texts]]
    /\ Files \subseteq Nat /\ IsFiniteSet(Files)
    /\ Violating \subseteq Texts \X Rules
    /\ MaxEntries \in Nat \ {0}
    /\ MaxRuns \in Nat /\ MaxEdits \in Nat
    /\ Absent \notin Texts \cup Rules /\ Standard \notin Dictionaries
    /\ Uninspectable \notin Rules \cup {Absent} /\ Untracked \notin Conditions

VARIABLES
    text,       \* [Files -> Texts \cup {Absent}]: the files of the project
    dictionary, \* the project's dictionary
    store,      \* the stored file results, a function of their keys
    phase,      \* [Inspections -> ...]: how far each has come
    composed,   \* [Inspections -> BOOLEAN]: the prepared rules use the dictionary
    seen,       \* [Inspections -> SUBSET BOOLEAN]: what a worker may compose with
    conditions, \* [Inspections -> Conditions \cup {Untracked}]: the hashed conditions
    snapshot,   \* [Inspections -> [Files -> Texts \cup {Absent}]]: the texts inspected
    todo,       \* [Inspections -> SUBSET Files]: the files its phase has left
    reused,     \* [Inspections -> SUBSET Files]: whose result came from the store
    verdict,    \* [Inspections -> [Files -> Rules \cup {Uninspectable, Absent}]]
    doomed,     \* [Inspections -> SUBSET Keys]: the stored results left to remove
    edits,      \* number of edits so far
    disturbed,  \* history: inspections under way since before the last dictionary edit
    calm,       \* history: the dictionary was never edited during an inspection
    during,     \* history: the texts each file has had since a gate began to end
    most        \* history: the most that ever stored at the same time

vars == <<text, dictionary, store, phase, composed, seen, conditions, snapshot, todo,
          reused, verdict, doomed, edits, disturbed, calm, during, most>>

NoText == [f \in Files |-> Absent]
NotEnding == [f \in Files |-> {}]

Init ==
    /\ text \in [Files -> Texts \cup {Absent}]
    /\ dictionary \in Dictionaries \cup {Absent}
    /\ store = [key \in {} |-> Standard]
    /\ phase = [a \in Inspections |-> "idle"]
    /\ composed = [a \in Inspections |-> FALSE]
    /\ seen = [a \in Inspections |-> {}]
    /\ conditions = [a \in Inspections |-> Untracked]
    /\ snapshot = [a \in Inspections |-> NoText]
    /\ todo = [a \in Inspections |-> {}]
    /\ reused = [a \in Inspections |-> {}]
    /\ verdict = [a \in Inspections |-> NoText]
    /\ doomed = [a \in Inspections |-> {}]
    /\ edits = 0
    /\ disturbed = {}
    /\ calm = TRUE
    /\ during = [a \in Inspections |-> NotEnding]
    /\ most = 0

TargetsOf(a) == {f \in Files : snapshot[a][f] # Absent}
Becomes(a, to) == phase' = [phase EXCEPT ![a] = to]
Moves(a, from, to) == phase[a] = from /\ Becomes(a, to)

\* Files are read, looked up and stored one at a time, in order.
NextOf(a) == {f \in todo[a] : \A g \in todo[a] : f <= g}
Done(a, f) == todo' = [todo EXCEPT ![a] = @ \ {f}]

\* An inspection ends, and its memory is gone.
Ends(a, outcome) ==
    /\ Becomes(a, outcome)
    /\ composed' = [composed EXCEPT ![a] = FALSE]
    /\ seen' = [seen EXCEPT ![a] = {}]
    /\ conditions' = [conditions EXCEPT ![a] = Untracked]
    /\ snapshot' = [snapshot EXCEPT ![a] = NoText]
    /\ todo' = [todo EXCEPT ![a] = {}]
    /\ reused' = [reused EXCEPT ![a] = {}]
    /\ verdict' = [verdict EXCEPT ![a] = NoText]
    /\ disturbed' = disturbed \ {a}
    /\ during' = [during EXCEPT ![a] = NotEnding]
    /\ UNCHANGED <<text, dictionary, store, doomed, edits, calm, most>>

-----------------------------------------------------------------------------
(* An inspection reads what it is about.                                       *)

\* No more than MaxRuns are started.
MayBegin == Cardinality({b \in Inspections : phase[b] # "idle"}) < MaxRuns

\* prepareInspection: the project's dictionary is looked for and the rules are
\* composed.
Prepare(a) ==
    /\ MayBegin
    /\ Moves(a, "idle", "prepared")
    /\ composed' = [composed EXCEPT ![a] = dictionary # Absent]
    /\ UNCHANGED <<text, dictionary, store, seen, conditions, snapshot, todo, reused,
                   verdict, doomed, edits, disturbed, calm, during, most>>

\* Without settings or an engine nothing is inspected.
CannotPrepare(a) == MayBegin /\ phase[a] = "idle" /\ Ends(a, "refused")

\* Mutant of ComputedConditions: the content of the dictionary is not hashed.
UnhashedDictionary(a) == {[composed |-> composed[a], dictionary |-> Absent], Untracked}

\* computeInspectionConditions: the hash names the dictionary on disk and whether
\* the rules that are prepared refer to it; when a part cannot be read, no hash.
ComputedConditions(a) ==
    {[composed |-> composed[a], dictionary |-> dictionary], Untracked}

\* The conditions are hashed, last in prepareInspectionContext.  A tool has its
\* text at hand, a gate has yet to find its targets.
Start(a) ==
    /\ Moves(a, "prepared", IF a \in Gates THEN "listing" ELSE "looking")
    /\ \E c \in ComputedConditions(a) : conditions' = [conditions EXCEPT ![a] = c]
    /\ \/ a \in Gates /\ UNCHANGED <<snapshot, todo>>
       \/ /\ a \in Hooks
          /\ snapshot' = [snapshot EXCEPT ![a][Planned[a].file] = Planned[a].text]
          /\ todo' = [todo EXCEPT ![a] = {Planned[a].file}]
    /\ UNCHANGED <<text, dictionary, store, composed, seen, reused, verdict, doomed,
                   edits, disturbed, calm, during, most>>

\* enumerateTargetFiles: the files that exist at that moment.
Enumerated == {f \in Files : text[f] # Absent}

\* readTargets enumerates the targets; a gate with none is refused.
List(g) ==
    /\ phase[g] = "listing"
    /\ \/ Enumerated = {} /\ Ends(g, "refused")
       \/ /\ Enumerated # {}
          /\ Becomes(g, "reading")
          /\ todo' = [todo EXCEPT ![g] = Enumerated]
          /\ UNCHANGED <<text, dictionary, store, composed, seen, conditions, snapshot,
                         reused, verdict, doomed, edits, disturbed, calm, during, most>>

\* It reads them one after the other, and gives up on one that is gone.
Read(g) ==
    /\ phase[g] = "reading"
    /\ \E f \in NextOf(g) :
          \/ text[f] = Absent /\ Ends(g, "refused")
          \/ /\ text[f] # Absent
             /\ Done(g, f)
             /\ snapshot' = [snapshot EXCEPT ![g][f] = text[f]]
             /\ UNCHANGED <<text, dictionary, store, phase, composed, seen, conditions,
                            reused, verdict, doomed, edits, disturbed, calm, during, most>>

\* Stored results are for the final gate and the tools, and for tracked conditions.
Reuses(a, c) == c # Untracked /\ a \in Storers

\* All are read: they are looked up, if stored results may be used at all.
AllRead(g) ==
    /\ todo[g] = {}
    /\ Moves(g, "reading", "looking")
    /\ todo' = [todo EXCEPT ![g] = IF Reuses(g, conditions[g]) THEN TargetsOf(g) ELSE {}]
    /\ UNCHANGED <<text, dictionary, store, composed, seen, conditions, snapshot, reused,
                   verdict, doomed, edits, disturbed, calm, during, most>>

-----------------------------------------------------------------------------
(* It reuses what the store has (lib/result-store.ts), and inspects the rest.  *)

Key(f, t, c) == [file |-> f, text |-> t, conditions |-> c]

\* loadStoredFileResult: the result stored under a key, if there is one.
Stored(key) == {store[k] : k \in DOMAIN store \cap {key}}

\* Mutant of Found: the conditions of the key are ignored.
FoundByText(a, c, f, t) ==
    IF ~Reuses(a, c) THEN {}
    ELSE {store[k] : k \in {j \in DOMAIN store : j.file = f /\ j.text = t}}

Found(a, c, f, t) == IF Reuses(a, c) THEN Stored(Key(f, t, c)) ELSE {}

\* A target is looked up in the store.
LookUp(a) ==
    /\ phase[a] = "looking"
    /\ \E f \in NextOf(a) :
          LET found == Found(a, conditions[a], f, snapshot[a][f]) IN
          /\ Done(a, f)
          /\ \/ found = {} /\ UNCHANGED <<reused, verdict>>
             \/ \E v \in found :
                   /\ reused' = [reused EXCEPT ![a] = @ \cup {f}]
                   /\ verdict' = [verdict EXCEPT ![a][f] = v]
    /\ UNCHANGED <<text, dictionary, store, phase, composed, seen, conditions, snapshot,
                   doomed, edits, disturbed, calm, during, most>>

\* All are: what was not found is left to inspect, and workers prepare themselves.
LookedUp(a) ==
    /\ todo[a] = {}
    /\ Moves(a, "looking", "inspecting")
    /\ todo' = [todo EXCEPT ![a] = TargetsOf(a) \ reused[a]]
    /\ seen' = [seen EXCEPT ![a] = {composed[a], dictionary # Absent}]
    /\ UNCHANGED <<text, dictionary, store, composed, conditions, snapshot, reused, verdict,
                   doomed, edits, disturbed, calm, during, most>>

\* What the inspection of a text comes to: the prh rule reads the dictionary the
\* rules refer to, and fails when there is none.
Outcome(refers) ==
    IF ~refers THEN Standard
    ELSE IF dictionary = Absent THEN Uninspectable ELSE dictionary

\* A gate with more than one text to inspect has it done by workers, which have
\* prepared their own rules since then, or by itself as everyone else.
Composes(a) ==
    IF a \in Gates /\ Cardinality(TargetsOf(a) \ reused[a]) > 1
    THEN seen[a] ELSE {composed[a]}

\* inspectText, which may crash.
Inspect(a) ==
    /\ phase[a] = "inspecting"
    /\ \E f \in todo[a], refers \in Composes(a) :
       \E v \in {Outcome(refers), Uninspectable} :
          /\ Done(a, f)
          /\ verdict' = [verdict EXCEPT ![a][f] = v]
    /\ UNCHANGED <<text, dictionary, store, phase, composed, seen, conditions, snapshot,
                   reused, doomed, edits, disturbed, calm, during, most>>

\* Mutant of Storable: failed inspections are stored too.
StorableFailures(a) == {f \in TargetsOf(a) \ reused[a] : Reuses(a, conditions[a])}

\* The results to store: what was inspected here, and successfully.
Storable(a) ==
    {f \in TargetsOf(a) \ reused[a] : verdict[a][f] \in Rules /\ Reuses(a, conditions[a])}

Inspected(a) ==
    /\ todo[a] = {}
    /\ Moves(a, "inspecting", "storing")
    /\ todo' = [todo EXCEPT ![a] = Storable(a)]
    /\ UNCHANGED <<text, dictionary, store, composed, seen, conditions, snapshot, reused,
                   verdict, doomed, edits, disturbed, calm, during, most>>

-----------------------------------------------------------------------------
(* Its results are stored, one at a time.  Nothing keeps two processes from    *)
(* doing so at the same time.                                                  *)

\* Mutant of Excess: one result too many is kept.
ExcessOffByOne ==
    {old \in SUBSET DOMAIN store :
        IF Cardinality(DOMAIN store) < MaxEntries THEN old = {}
        ELSE Cardinality(DOMAIN store \ old) = MaxEntries}

\* enforceCapacityLimit: unless there is room for one more, the oldest results are
\* to go until there is, even when the key is there already; which these are is
\* left open.
Excess ==
    {old \in SUBSET DOMAIN store :
        IF Cardinality(DOMAIN store) < MaxEntries THEN old = {}
        ELSE Cardinality(DOMAIN store \ old) = MaxEntries - 1}

\* storeFileResult lists the store,
Store(a) ==
    /\ todo[a] # {}
    /\ Moves(a, "storing", "pruning")
    /\ \E old \in Excess : doomed' = [doomed EXCEPT ![a] = old]
    /\ most' = LET now == 1 + Cardinality({b \in Inspections : phase[b] = "pruning"})
               IN IF now > most THEN now ELSE most
    /\ UNCHANGED <<text, dictionary, store, composed, seen, conditions, snapshot, todo,
                   reused, verdict, edits, disturbed, calm, during>>

\* removes what is too old, whether or not someone else has,
Prune(a) ==
    /\ phase[a] = "pruning"
    /\ \E key \in doomed[a] :
          /\ doomed' = [doomed EXCEPT ![a] = @ \ {key}]
          /\ store' = [k \in DOMAIN store \ {key} |-> store[k]]
    /\ UNCHANGED <<text, dictionary, phase, composed, seen, conditions, snapshot, todo,
                   reused, verdict, edits, disturbed, calm, during, most>>

\* and puts the result under the key it was looked up by, by a rename.  A failure
\* to store it is ignored.
Put(a) ==
    /\ doomed[a] = {}
    /\ Moves(a, "pruning", "storing")
    /\ \E f \in NextOf(a) :
       LET key == Key(f, snapshot[a][f], conditions[a]) IN
          /\ Done(a, f)
          /\ store' \in {store, [k \in DOMAIN store \cup {key} |->
                                    IF k = key THEN verdict[a][f] ELSE store[k]]}
    /\ UNCHANGED <<text, dictionary, composed, seen, conditions, snapshot, reused, verdict,
                   doomed, edits, disturbed, calm, during, most>>

-----------------------------------------------------------------------------
(* It ends: a gate by reading everything again.                                *)

\* Mutant of Clean: a target that could not be inspected does not count.
CleanWhereInspected(a) ==
    \A f \in TargetsOf(a) : <<snapshot[a][f], verdict[a][f]>> \notin Violating

\* Every target was inspected, and none has a hard violation.
Clean(a) ==
    \A f \in TargetsOf(a) :
        /\ verdict[a][f] \in Rules
        /\ <<snapshot[a][f], verdict[a][f]>> \notin Violating

\* recomputeSnapshotInputs: the conditions are hashed again.
Recheck(g) ==
    /\ g \in Gates /\ todo[g] = {} /\ phase[g] = "storing"
    /\ \E c \in ComputedConditions(g) :
          \/ c # conditions[g] /\ Ends(g, "refused")
          \/ /\ c = conditions[g]
             /\ Becomes(g, "relisting")
             /\ during' = [during EXCEPT ![g] = [f \in Files |-> {text[f]}]]
             /\ UNCHANGED <<text, dictionary, store, composed, seen, conditions, snapshot,
                            todo, reused, verdict, doomed, edits, disturbed, calm, most>>

\* readTargets: the targets are enumerated again,
Relist(g) ==
    /\ phase[g] = "relisting"
    /\ \/ Enumerated # TargetsOf(g) /\ Ends(g, "refused")
       \/ /\ Enumerated = TargetsOf(g)
          /\ Becomes(g, "rereading")
          /\ todo' = [todo EXCEPT ![g] = TargetsOf(g)]
          /\ UNCHANGED <<text, dictionary, store, composed, seen, conditions, snapshot,
                         reused, verdict, doomed, edits, disturbed, calm, during, most>>

\* Mutant of Unchanged: that the file can be read is enough.
StillThere(g, f) == text[f] # Absent

\* The text that is read again hashes as it did.
Unchanged(g, f) == text[f] = snapshot[g][f]

\* and read again one after the other.
Reread(g) ==
    /\ phase[g] = "rereading"
    /\ \E f \in NextOf(g) :
          \/ ~Unchanged(g, f) /\ Ends(g, "refused")
          \/ /\ Unchanged(g, f)
             /\ Done(g, f)
             /\ UNCHANGED <<text, dictionary, store, phase, composed, seen, conditions,
                            snapshot, reused, verdict, doomed, edits, disturbed, calm,
                            during, most>>

\* acceptForProgress on the result of the gate.
Finish(g) ==
    /\ phase[g] = "rereading" /\ todo[g] = {}
    /\ LET accepted == Clean(g) /\ (Purpose[g] = "independent" => reused[g] = {})
       IN Ends(g, IF accepted THEN "accepted" ELSE "refused")

\* guardOperation returns: the tool may write what it planned, or must not.
Decide(h) ==
    /\ h \in Hooks /\ todo[h] = {} /\ phase[h] = "storing"
    /\ Ends(h, IF Clean(h) THEN "accepted" ELSE "refused")

\* A process that is killed takes no further step; what it stored stays.
Ending == {"relisting", "rereading"}
Active == {"prepared", "listing", "reading", "looking", "inspecting", "storing",
           "pruning"} \cup Ending
Ended == {"refused", "accepted", "written"}

-----------------------------------------------------------------------------
(* Files and dictionary change.                                                *)

\* A file gets another text, or is deleted.
ChangeText(f, t) ==
    /\ text' = [text EXCEPT ![f] = t]
    /\ during' = [a \in Inspections |->
                     IF phase[a] \in Ending THEN [during[a] EXCEPT ![f] = @ \cup {t}]
                     ELSE during[a]]

\* The tool writes what it planned.
Write(h) ==
    /\ h \in Hooks
    /\ Moves(h, "accepted", "written")
    /\ ChangeText(Planned[h].file, Planned[h].text)
    /\ UNCHANGED <<dictionary, store, composed, seen, conditions, snapshot, todo, reused,
                   verdict, doomed, edits, disturbed, calm, most>>

\* An editor changes, creates or deletes a file.
EditText ==
    /\ edits < MaxEdits
    /\ edits' = edits + 1
    /\ \E f \in Files, t \in Texts \cup {Absent} : text[f] # t /\ ChangeText(f, t)
    /\ UNCHANGED <<dictionary, store, phase, composed, seen, conditions, snapshot, todo,
                   reused, verdict, doomed, disturbed, calm, most>>

\* Or the dictionary: a worker prepared from now on composes its rules accordingly.
EditDictionary ==
    /\ edits < MaxEdits
    /\ edits' = edits + 1
    /\ dictionary' \in (Dictionaries \cup {Absent}) \ {dictionary}
    /\ disturbed' = {a \in Inspections : phase[a] \in Active}
    /\ calm' = (calm /\ disturbed' = {})
    /\ seen' = [a \in Inspections |->
                  IF phase[a] = "inspecting" THEN seen[a] \cup {dictionary' # Absent}
                  ELSE seen[a]]
    /\ UNCHANGED <<text, store, phase, composed, conditions, snapshot, todo, reused,
                   verdict, doomed, during, most>>

\* Every inspection that was started has ended.
AllEnded ==
    /\ \A a \in Inspections : phase[a] \in Ended \cup {"idle"}
    /\ UNCHANGED vars

Next ==
    \/ \E a \in Inspections :
          \/ Prepare(a) \/ CannotPrepare(a) \/ Start(a) \/ List(a) \/ Read(a) \/ AllRead(a)
          \/ LookUp(a) \/ LookedUp(a) \/ Inspect(a) \/ Inspected(a)
          \/ Store(a) \/ Prune(a) \/ Put(a)
          \/ Recheck(a) \/ Relist(a) \/ Reread(a) \/ Finish(a) \/ Decide(a) \/ Write(a)
    \/ EditText
    \/ EditDictionary
    \/ AllEnded

Spec == Init /\ [][Next]_vars

-----------------------------------------------------------------------------
(* Properties.                                                                 *)

TypeOK ==
    /\ text \in [Files -> Texts \cup {Absent}]
    /\ dictionary \in Dictionaries \cup {Absent}
    /\ DOMAIN store \subseteq Keys
    /\ store \in [DOMAIN store -> Rules]
    /\ phase \in [Inspections -> {"idle"} \cup Active \cup Ended]
    /\ composed \in [Inspections -> BOOLEAN]
    /\ seen \in [Inspections -> SUBSET BOOLEAN]
    /\ conditions \in [Inspections -> Conditions \cup {Untracked}]
    /\ snapshot \in [Inspections -> [Files -> Texts \cup {Absent}]]
    /\ todo \in [Inspections -> SUBSET Files]
    /\ reused \in [Inspections -> SUBSET Files]
    /\ verdict \in [Inspections -> [Files -> Rules \cup {Uninspectable, Absent}]]
    /\ doomed \in [Inspections -> SUBSET Keys]
    /\ edits \in 0..MaxEdits
    /\ disturbed \subseteq Inspections
    /\ calm \in BOOLEAN
    /\ during \in [Inspections -> [Files -> SUBSET (Texts \cup {Absent})]]
    /\ most \in Nat

RulesInForce == IF dictionary = Absent THEN Standard ELSE dictionary
CleanInForce(a) ==
    \A f \in TargetsOf(a) : <<snapshot[a][f], RulesInForce>> \notin Violating
Accepts(a) == phase[a] # "accepted" /\ phase'[a] = "accepted"

\* A result is only found again under the rules it was reached under
\* (result-store.ts, identity.ts), as long as the dictionary is edited only
\* between inspections: however inspections share the store, die or evict.
StoredUnderItsRules ==
    calm =>
        \A k \in DOMAIN store :
            store[k] = IF k.conditions.composed THEN k.conditions.dictionary ELSE Standard

\* The store exceeds STORE_MAX_ENTRIES by no more than the processes that stored at
\* the same time, one excepted, can explain (result-store.ts:91-98): whatever each
\* of them listed, removed and wrote meanwhile, and with none of them beside it a
\* process leaves the store within its limit.
StoreBounded == Cardinality(DOMAIN store) <= MaxEntries - 1 + most

\* A gate is accepted for files that were there: each text it inspected was in the
\* project, and each file it did not inspect was missing from it, at some moment of
\* the end check, which reads them one after the other while editors and tools
\* change them (runs.ts:22-23).
AcceptedForCurrentFiles ==
    [][\A g \in Gates : Accepts(g) =>
          TargetsOf(g) # {} /\ \A f \in Files : snapshot[g][f] \in during[g][f]]_vars

\* Acceptance means that nothing violates the rules in force, results of other
\* inspections reused, as long as the dictionary is edited only between them.
AcceptedIsClean ==
    [][\A a \in Inspections : Accepts(a) /\ calm => CleanInForce(a)]_vars

\* An independent inspection needs nobody else to be undisturbed: no result that
\* another inspection left in the store has a part in it.
IndependentIsClean ==
    [][\A a \in Gates :
          Accepts(a) /\ Purpose[a] = "independent" /\ a \notin disturbed
              => CleanInForce(a)]_vars

\* "Reuse is the reproduction of the same verdict for the same input"
\* (plugin.ts:130): what an undisturbed inspection accepts is clean.
ReuseReproduces ==
    [][\A a \in Inspections : Accepts(a) /\ a \notin disturbed => CleanInForce(a)]_vars
=============================================================================
