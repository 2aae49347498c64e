------------------------ MODULE InspectionRunProofs ------------------------
(* Proofs about InspectionRun, for any gates, tools, files and dictionaries.   *)
EXTENDS InspectionRun, TLAPS, FiniteSetTheorems

\* Under way, and the dictionary is what it was when the rules were composed.
Undisturbed(b) == phase[b] \in Active /\ b \notin disturbed
Started(b) == phase[b] \in Active \ {"prepared", "listing", "reading"}

\* Nothing is known before it begins.
IdleKnowsNothing(b) == phase[b] = "idle" => verdict[b] = NoText /\ reused[b] = {}

\* What has started is about some text.
HasTargets(b) ==
    /\ phase[b] = "reading" => todo[b] \cup TargetsOf(b) # {}
    /\ Started(b) => TargetsOf(b) # {}

\* What is left to inspect was not found in the store, what is left to store may be.
TodoFits(b) ==
    /\ phase[b] = "inspecting" => todo[b] \cap reused[b] = {}
    /\ phase[b] \in {"storing", "pruning"} => todo[b] \subseteq Storable(b)

\* Undisturbed, the rules are composed as the dictionary is,
ComposedInForce(b) ==
    Undisturbed(b) =>
        /\ composed[b] = (dictionary # Absent)
        /\ phase[b] = "inspecting" => seen[b] = {composed[b]}

\* the conditions name them and the dictionary,
ConditionsInForce(b) ==
    Undisturbed(b) /\ phase[b] # "prepared" /\ conditions[b] # Untracked =>
        conditions[b] = [composed |-> composed[b], dictionary |-> dictionary]

\* and what was inspected here, was inspected under the rules in force.
InspectedInForce(b) ==
    Undisturbed(b) =>
        \A f \in Files \ reused[b] : verdict[b][f] \in {Absent, Uninspectable, RulesInForce}

\* So was what is reused, if the dictionary is edited between inspections only.
ReusedInForce(b) ==
    calm /\ phase[b] \in Active => \A f \in reused[b] : verdict[b][f] = RulesInForce

Sound(b) ==
    /\ IdleKnowsNothing(b) /\ HasTargets(b) /\ TodoFits(b) /\ ComposedInForce(b)
    /\ ConditionsInForce(b) /\ InspectedInForce(b) /\ ReusedInForce(b)

CalmUndisturbed == calm => disturbed = {}

IInv ==
    /\ TypeOK
    /\ \A b \in Inspections : Sound(b)
    /\ CalmUndisturbed
    /\ StoredUnderItsRules

\* What an inspection knows, and how it is known to be as it was.
Same(b) ==
    /\ phase'[b] = phase[b] /\ composed'[b] = composed[b] /\ seen'[b] = seen[b]
    /\ conditions'[b] = conditions[b] /\ snapshot'[b] = snapshot[b]
    /\ todo'[b] = todo[b] /\ reused'[b] = reused[b] /\ verdict'[b] = verdict[b]
SameDictionary == dictionary' = dictionary /\ calm' = calm

-----------------------------------------------------------------------------
(* Type correctness.                                                           *)

\* The initial state is well typed.
LEMMA InitTypeOK == Init => TypeOK
<1> SUFFICES ASSUME Init PROVE TypeOK
  OBVIOUS
<1>1. DOMAIN store = {} /\ store \in [DOMAIN store -> Rules]
  BY DEF Init
<1>2. edits \in 0..MaxEdits
  BY InspectionAssumption DEF Init, InspectionAssumption
<1>3. QED
  BY <1>1, <1>2 DEF Init, TypeOK, Active, Ended, Ending, NoText, NotEnding

\* Reading what the inspection is about keeps the types,
LEMMA TypeReads ==
    ASSUME TypeOK, NEW a \in Inspections,
           Prepare(a) \/ Start(a) \/ AllRead(a) \/ LookedUp(a)
    PROVE  TypeOK'
<1>1. CASE Prepare(a)
  BY <1>1 DEF TypeOK, Prepare, Moves, Becomes, Active
<1>2. CASE Start(a)
  <2>1. conditions' \in [Inspections -> Conditions \cup {Untracked}]
    BY <1>2 DEF Start, ComputedConditions, Conditions, TypeOK
  <2>2. phase' \in [Inspections -> {"idle"} \cup Active \cup Ended]
    BY <1>2 DEF Start, Moves, Becomes, TypeOK, Active
  <2>3. a \in Hooks => Planned[a].file \in Files /\ Planned[a].text \in Texts
    BY InspectionAssumption DEF InspectionAssumption
  <2>4. /\ snapshot' \in [Inspections -> [Files -> Texts \cup {Absent}]]
        /\ todo' \in [Inspections -> SUBSET Files]
    <3>1. CASE UNCHANGED <<snapshot, todo>>
      BY <3>1 DEF TypeOK
    <3>2. CASE /\ a \in Hooks
               /\ snapshot' = [snapshot EXCEPT ![a][Planned[a].file] = Planned[a].text]
               /\ todo' = [todo EXCEPT ![a] = {Planned[a].file}]
      <4>1. snapshot' \in [Inspections -> [Files -> Texts \cup {Absent}]]
        BY <3>2, <2>3 DEF TypeOK
      <4>2. todo' \in [Inspections -> SUBSET Files]
        BY <3>2, <2>3 DEF TypeOK
      <4>3. QED
        BY <4>1, <4>2
    <3>3. QED
      BY <1>2, <3>1, <3>2 DEF Start
  <2>5. QED
    BY <1>2, <2>1, <2>2, <2>4 DEF Start, TypeOK
<1>3. CASE AllRead(a)
  <2>1. TargetsOf(a) \subseteq Files
    BY DEF TargetsOf
  <2>2. QED
    BY <1>3, <2>1 DEF TypeOK, AllRead, Moves, Becomes, Active
<1>4. CASE LookedUp(a)
  <2>1. seen' \in [Inspections -> SUBSET BOOLEAN]
    <3>1. {composed[a], dictionary # Absent} \in SUBSET BOOLEAN
      BY Zenon DEF TypeOK
    <3>2. QED
      BY <1>4, <3>1 DEF LookedUp, TypeOK
  <2>2. TargetsOf(a) \subseteq Files
    BY DEF TargetsOf
  <2>3. QED
    BY <1>4, <2>1, <2>2 DEF TypeOK, LookedUp, Moves, Becomes, Active
<1>5. QED
  BY <1>1, <1>2, <1>3, <1>4

\* so does its end,
LEMMA TypeEnds ==
    ASSUME TypeOK, NEW a \in Inspections, NEW outcome \in Ended, Ends(a, outcome)
    PROVE  TypeOK'
<1>1. disturbed' \subseteq Inspections
  BY DEF Ends, TypeOK
<1>2. phase' \in [Inspections -> {"idle"} \cup Active \cup Ended]
  BY DEF Ends, Becomes, TypeOK
<1>3. /\ composed' \in [Inspections -> BOOLEAN]
      /\ seen' \in [Inspections -> SUBSET BOOLEAN]
      /\ conditions' \in [Inspections -> Conditions \cup {Untracked}]
      /\ reused' \in [Inspections -> SUBSET Files]
      /\ todo' \in [Inspections -> SUBSET Files]
  BY DEF Ends, TypeOK
<1>4. /\ snapshot' \in [Inspections -> [Files -> Texts \cup {Absent}]]
      /\ verdict' \in [Inspections -> [Files -> Rules \cup {Uninspectable, Absent}]]
      /\ during' \in [Inspections -> [Files -> SUBSET (Texts \cup {Absent})]]
  BY DEF Ends, TypeOK, NoText, NotEnding
<1>5. QED
  BY <1>1, <1>2, <1>3, <1>4 DEF Ends, TypeOK

\* finding and reading its targets,
LEMMA TypeTargets ==
    ASSUME TypeOK, NEW a \in Inspections, List(a) \/ Read(a)
    PROVE  TypeOK'
<1>1. CASE List(a)
  <2>1. CASE Ends(a, "refused")
    BY <2>1, TypeEnds DEF Ended
  <2>2. CASE ~Ends(a, "refused")
    <3>1. Enumerated \subseteq Files
      BY DEF Enumerated
    <3>2. QED
      BY <1>1, <2>2, <3>1 DEF List, Becomes, TypeOK, Active
  <2>3. QED
    BY <2>1, <2>2
<1>2. CASE Read(a)
  <2>1. CASE Ends(a, "refused")
    BY <2>1, TypeEnds DEF Ended
  <2>2. CASE ~Ends(a, "refused")
    <3>1. PICK f \in NextOf(a) : Done(a, f) /\ snapshot' = [snapshot EXCEPT ![a][f] = text[f]]
      BY <1>2, <2>2 DEF Read
    <3>2. f \in Files
      BY <3>1 DEF NextOf, TypeOK
    <3>3. /\ snapshot' \in [Inspections -> [Files -> Texts \cup {Absent}]]
          /\ todo' \in [Inspections -> SUBSET Files]
      BY <3>1, <3>2 DEF Done, TypeOK
    <3>4. QED
      BY <1>2, <2>2, <3>3 DEF Read, TypeOK
  <2>3. QED
    BY <2>1, <2>2
<1>3. QED
  BY <1>1, <1>2

\* looking a target up,
LEMMA TypeLookUp ==
    ASSUME TypeOK, NEW a \in Inspections, LookUp(a)
    PROVE  TypeOK'
<1>1. PICK f \in NextOf(a) :
          /\ Done(a, f)
          /\ \/ UNCHANGED <<reused, verdict>>
             \/ \E v \in Found(a, conditions[a], f, snapshot[a][f]) :
                   /\ reused' = [reused EXCEPT ![a] = @ \cup {f}]
                   /\ verdict' = [verdict EXCEPT ![a][f] = v]
  BY DEF LookUp
<1>2. f \in Files
  BY <1>1 DEF NextOf, TypeOK
<1>3. Found(a, conditions[a], f, snapshot[a][f]) \subseteq Rules
  BY DEF TypeOK, Found, Stored
<1>4. todo' \in [Inspections -> SUBSET Files]
  BY <1>1 DEF Done, TypeOK
<1>5. CASE UNCHANGED <<reused, verdict>>
  BY <1>4, <1>5 DEF LookUp, TypeOK
<1>6. ASSUME NEW v \in Found(a, conditions[a], f, snapshot[a][f]),
             reused' = [reused EXCEPT ![a] = @ \cup {f}],
             verdict' = [verdict EXCEPT ![a][f] = v]
      PROVE  TypeOK'
  <2>1. reused' \in [Inspections -> SUBSET Files]
    BY <1>2, <1>6 DEF TypeOK
  <2>2. verdict' \in [Inspections -> [Files -> Rules \cup {Uninspectable, Absent}]]
    BY <1>2, <1>3, <1>6 DEF TypeOK
  <2>3. QED
    BY <1>4, <2>1, <2>2 DEF LookUp, TypeOK
<1>7. QED
  BY <1>1, <1>5, <1>6

\* inspecting it,
LEMMA TypeInspect ==
    ASSUME TypeOK, NEW a \in Inspections, Inspect(a)
    PROVE  TypeOK'
<1>1. PICK f \in todo[a], v \in Rules \cup {Uninspectable} :
          Done(a, f) /\ verdict' = [verdict EXCEPT ![a][f] = v]
  BY DEF Inspect, Outcome, Rules, TypeOK
<1>2. /\ todo' \in [Inspections -> SUBSET Files]
      /\ verdict' \in [Inspections -> [Files -> Rules \cup {Uninspectable, Absent}]]
  BY <1>1 DEF Done, TypeOK
<1>3. QED
  BY <1>2 DEF Inspect, TypeOK

\* deciding what is to be stored,
LEMMA TypeInspected ==
    ASSUME TypeOK, NEW a \in Inspections, Inspected(a)
    PROVE  TypeOK'
<1>1. Storable(a) \subseteq Files
  BY DEF Storable, TargetsOf
<1>2. QED
  BY <1>1 DEF TypeOK, Inspected, Moves, Becomes, Active

\* There are finitely many inspections.
LEMMA InspectionsFinite == IsFiniteSet(Inspections)
BY FS_Union, InspectionAssumption DEF Inspections, InspectionAssumption

\* making room for it,
LEMMA TypeRoom ==
    ASSUME TypeOK, NEW a \in Inspections, Store(a) \/ Prune(a)
    PROVE  TypeOK'
<1>1. CASE Store(a)
  <2>1. doomed' \in [Inspections -> SUBSET Keys]
    BY <1>1 DEF Store, Excess, TypeOK
  <2>2. most' \in Nat
    <3>1. {b \in Inspections : phase[b] = "pruning"} \subseteq Inspections
      OBVIOUS
    <3>2. IsFiniteSet({b \in Inspections : phase[b] = "pruning"})
      BY <3>1, InspectionsFinite, FS_Subset
    <3>3. QED
      BY <1>1, <3>2, FS_CardinalityType DEF Store, TypeOK
  <2>3. QED
    BY <1>1, <2>1, <2>2 DEF Store, Moves, Becomes, TypeOK, Active
<1>2. CASE Prune(a)
  <2>1. PICK key \in doomed[a] :
          /\ doomed' = [doomed EXCEPT ![a] = @ \ {key}]
          /\ store' = [k \in DOMAIN store \ {key} |-> store[k]]
    BY <1>2 DEF Prune
  <2>2. doomed' \in [Inspections -> SUBSET Keys]
    BY <2>1 DEF TypeOK
  <2>3. DOMAIN store' \subseteq Keys /\ store' \in [DOMAIN store' -> Rules]
    BY <2>1 DEF TypeOK
  <2>4. QED
    BY <1>2, <2>2, <2>3 DEF Prune, TypeOK
<1>3. QED
  BY <1>1, <1>2

\* What a result is stored under and what it is.
LEMMA StoredTypes ==
    ASSUME TypeOK, NEW a \in Inspections, TodoFits(a), Put(a)
    PROVE  \E f \in NextOf(a), key \in Keys :
              /\ key = Key(f, snapshot[a][f], conditions[a])
              /\ Done(a, f) /\ f \in Storable(a) /\ verdict[a][f] \in Rules
              /\ \/ store' = store
                 \/ store' = [k \in DOMAIN store \cup {key} |->
                                 IF k = key THEN verdict[a][f] ELSE store[k]]
<1>1. PICK f \in NextOf(a) :
        LET key == Key(f, snapshot[a][f], conditions[a]) IN
          /\ Done(a, f)
          /\ store' \in {store, [k \in DOMAIN store \cup {key} |->
                                    IF k = key THEN verdict[a][f] ELSE store[k]]}
  BY DEF Put
<1>2. f \in Storable(a)
  BY <1>1 DEF Put, Moves, TodoFits, NextOf
<1>3. /\ f \in Files /\ verdict[a][f] \in Rules /\ conditions[a] \in Conditions
      /\ snapshot[a][f] \in Texts
  BY <1>2 DEF Storable, Reuses, TargetsOf, TypeOK
<1>4. Key(f, snapshot[a][f], conditions[a]) \in Keys
  BY <1>3 DEF Key, Keys
<1>5. QED
  BY <1>1, <1>2, <1>3, <1>4

\* storing it,
LEMMA TypePut ==
    ASSUME TypeOK, NEW a \in Inspections, TodoFits(a), Put(a)
    PROVE  TypeOK'
<1>1. PICK f \in NextOf(a), key \in Keys :
              /\ Done(a, f) /\ verdict[a][f] \in Rules
              /\ \/ store' = store
                 \/ store' = [k \in DOMAIN store \cup {key} |->
                                 IF k = key THEN verdict[a][f] ELSE store[k]]
  BY StoredTypes
<1>2. DOMAIN store' \subseteq Keys /\ store' \in [DOMAIN store' -> Rules]
  BY <1>1 DEF TypeOK
<1>3. todo' \in [Inspections -> SUBSET Files]
  BY <1>1 DEF Done, TypeOK
<1>4. QED
  BY <1>2, <1>3 DEF Put, Moves, Becomes, TypeOK, Active

\* reading everything again,
LEMMA TypeRereads ==
    ASSUME TypeOK, NEW a \in Inspections, Recheck(a) \/ Relist(a) \/ Reread(a)
    PROVE  TypeOK'
<1>1. CASE Ends(a, "refused")
  BY <1>1, TypeEnds DEF Ended
<1>2. CASE Recheck(a) /\ ~Ends(a, "refused")
  <2>1. [f \in Files |-> {text[f]}] \in [Files -> SUBSET (Texts \cup {Absent})]
    BY DEF TypeOK
  <2>2. during' \in [Inspections -> [Files -> SUBSET (Texts \cup {Absent})]]
    BY <1>2, <2>1 DEF Recheck, TypeOK
  <2>3. QED
    BY <1>2, <2>2 DEF Recheck, Becomes, TypeOK, Active, Ending
<1>3. CASE Relist(a) /\ ~Ends(a, "refused")
  <2>1. TargetsOf(a) \subseteq Files
    BY DEF TargetsOf
  <2>2. todo' \in [Inspections -> SUBSET Files]
    BY <1>3, <2>1 DEF Relist, TypeOK
  <2>3. phase' \in [Inspections -> {"idle"} \cup Active \cup Ended]
    BY <1>3 DEF Relist, Becomes, TypeOK, Active, Ending
  <2>4. QED
    BY <1>3, <2>2, <2>3 DEF Relist, TypeOK
<1>4. CASE Reread(a) /\ ~Ends(a, "refused")
  <2>1. PICK f \in NextOf(a) :
            /\ Done(a, f)
            /\ UNCHANGED <<text, dictionary, store, phase, composed, seen, conditions,
                           snapshot, reused, verdict, doomed, edits, disturbed, calm,
                           during, most>>
    BY <1>4 DEF Reread
  <2>2. todo' \in [Inspections -> SUBSET Files]
    BY <2>1 DEF Done, TypeOK
  <2>3. QED
    BY <2>1, <2>2 DEF TypeOK
<1>5. QED
  BY <1>1, <1>2, <1>3, <1>4

\* a write that the guard let through and an edit by anyone else.
LEMMA TypeChangeText ==
    ASSUME TypeOK, NEW f \in Files, NEW t \in Texts \cup {Absent}, ChangeText(f, t)
    PROVE  /\ text' \in [Files -> Texts \cup {Absent}]
           /\ during' \in [Inspections -> [Files -> SUBSET (Texts \cup {Absent})]]
<1>1. text' \in [Files -> Texts \cup {Absent}]
  BY DEF ChangeText, TypeOK
<1>2. ASSUME NEW b \in Inspections
      PROVE  [during[b] EXCEPT ![f] = @ \cup {t}] \in [Files -> SUBSET (Texts \cup {Absent})]
  BY DEF TypeOK
<1>3. during' \in [Inspections -> [Files -> SUBSET (Texts \cup {Absent})]]
  BY <1>2 DEF ChangeText, TypeOK
<1>4. QED
  BY <1>1, <1>3

LEMMA TypeChanges ==
    ASSUME TypeOK, EditText \/ EditDictionary \/ \E h \in Inspections : Write(h)
    PROVE  TypeOK'
<1>1. ASSUME NEW h \in Inspections, Write(h)
      PROVE  TypeOK'
  <2>1. Planned[h].text \in Texts /\ Planned[h].file \in Files
    BY <1>1, InspectionAssumption DEF InspectionAssumption, Write
  <2>2. /\ text' \in [Files -> Texts \cup {Absent}]
        /\ during' \in [Inspections -> [Files -> SUBSET (Texts \cup {Absent})]]
    BY <1>1, <2>1, TypeChangeText DEF Write
  <2>3. QED
    BY <1>1, <2>2 DEF Write, Moves, Becomes, TypeOK, Ended
<1>2. CASE EditText
  <2>1. /\ text' \in [Files -> Texts \cup {Absent}]
        /\ during' \in [Inspections -> [Files -> SUBSET (Texts \cup {Absent})]]
    BY <1>2, TypeChangeText DEF EditText
  <2>2. edits' \in 0..MaxEdits
    BY <1>2, InspectionAssumption DEF EditText, TypeOK, InspectionAssumption
  <2>3. QED
    BY <1>2, <2>1, <2>2 DEF EditText, TypeOK
<1>3. CASE EditDictionary
  <2>1. edits' \in 0..MaxEdits
    BY <1>3, InspectionAssumption DEF EditDictionary, TypeOK, InspectionAssumption
  <2>2. seen' \in [Inspections -> SUBSET BOOLEAN]
    <3>1. (dictionary' # Absent) \in BOOLEAN
      OBVIOUS
    <3>2. QED
      BY <1>3, <3>1, Zenon DEF EditDictionary, TypeOK
  <2>3. calm' \in BOOLEAN
    BY <1>3 DEF EditDictionary, TypeOK
  <2>4. dictionary' \in Dictionaries \cup {Absent} /\ disturbed' \subseteq Inspections
    BY <1>3 DEF EditDictionary
  <2>5. QED
    BY <1>3, <2>1, <2>2, <2>3, <2>4 DEF EditDictionary, TypeOK
<1>4. QED
  BY <1>1, <1>2, <1>3

\* Every step keeps the types.
LEMMA TypeStep ==
    ASSUME TypeOK, \A b \in Inspections : TodoFits(b), [Next]_vars
    PROVE  TypeOK'
<1>1. CASE UNCHANGED vars \/ AllEnded
  BY <1>1 DEF TypeOK, vars, AllEnded
<1>2. CASE EditText \/ EditDictionary
  BY <1>2, TypeChanges
<1>3. ASSUME NEW a \in Inspections,
          \/ Prepare(a) \/ CannotPrepare(a) \/ Start(a) \/ List(a) \/ Read(a) \/ AllRead(a)
          \/ LookUp(a) \/ LookedUp(a) \/ Inspect(a) \/ Inspected(a)
          \/ Store(a) \/ Prune(a) \/ Put(a)
          \/ Recheck(a) \/ Relist(a) \/ Reread(a) \/ Finish(a) \/ Decide(a) \/ Write(a)
      PROVE  TypeOK'
  <2>1. CASE CannotPrepare(a) \/ Finish(a) \/ Decide(a)
    <3>1. \E outcome \in Ended : Ends(a, outcome)
      BY <2>1 DEF CannotPrepare, Finish, Decide, Ended
    <3>2. QED
      BY <3>1, TypeEnds
  <2>2. CASE Write(a)
    BY <2>2, TypeChanges
  <2>3. CASE Put(a)
    BY <2>3, TypePut
  <2>4. QED
    BY <1>3, <2>1, <2>2, <2>3, TypeReads, TypeTargets, TypeLookUp, TypeInspect,
       TypeInspected, TypeRoom, TypeRereads
<1>4. QED
  BY <1>1, <1>2, <1>3 DEF Next

-----------------------------------------------------------------------------
(* The rules in force.  Each lemma is about one action.                        *)

\* Nothing is under way or stored at first.
LEMMA InitIInv == Init => IInv
<1> SUFFICES ASSUME Init PROVE IInv
  OBVIOUS
<1>1. TypeOK
  BY InitTypeOK
<1>2. \A b \in Inspections : phase[b] = "idle" /\ verdict[b] = NoText /\ reused[b] = {}
  BY DEF Init
<1>3. DOMAIN store = {} /\ disturbed = {}
  BY DEF Init
<1>4. \A b \in Inspections : Sound(b)
  BY <1>2 DEF Sound, IdleKnowsNothing, HasTargets, TodoFits, ComposedInForce,
       ConditionsInForce, InspectedInForce, ReusedInForce, Started, Undisturbed, Active,
       Ending
<1>5. QED
  BY <1>1, <1>3, <1>4 DEF IInv, CalmUndisturbed, StoredUnderItsRules

\* An inspection that a step leaves alone stays as sound as it was,
LEMMA SoundKept ==
    ASSUME NEW b \in Inspections, Sound(b), Same(b), SameDictionary,
           b \in disturbed' <=> b \in disturbed
    PROVE  Sound(b)'
<1>1. Undisturbed(b)' <=> Undisturbed(b)
  BY DEF Undisturbed, Same
<1>2. TargetsOf(b)' = TargetsOf(b) /\ Storable(b)' = Storable(b) /\ (Started(b)' <=> Started(b))
  BY DEF TargetsOf, Storable, Reuses, Started, Same
<1>3. RulesInForce' = RulesInForce
  BY DEF RulesInForce, SameDictionary
<1>4. IdleKnowsNothing(b)' /\ HasTargets(b)' /\ TodoFits(b)'
  BY <1>2 DEF Sound, IdleKnowsNothing, HasTargets, TodoFits, Same, NoText
<1>5. ComposedInForce(b)' /\ ConditionsInForce(b)'
  BY <1>1 DEF Sound, ComposedInForce, ConditionsInForce, Same, SameDictionary
<1>6. InspectedInForce(b)' /\ ReusedInForce(b)'
  BY <1>1, <1>3 DEF Sound, InspectedInForce, ReusedInForce, Same, SameDictionary
<1>7. QED
  BY <1>4, <1>5, <1>6 DEF Sound

\* as does one that has just ended.
LEMMA SoundEnded ==
    ASSUME NEW b \in Inspections, phase'[b] \in Ended
    PROVE  Sound(b)'
BY DEF Sound, IdleKnowsNothing, HasTargets, TodoFits, ComposedInForce, ConditionsInForce,
       InspectedInForce, ReusedInForce, Started, Undisturbed, Active, Ending, Ended

\* So a step of one inspection that leaves the dictionary and the store alone keeps
\* the invariant if that inspection stays sound.
LEMMA StepOfOne ==
    ASSUME IInv, TypeOK', NEW a \in Inspections, Sound(a)',
           \A b \in Inspections \ {a} : Same(b),
           SameDictionary, store' = store, disturbed' \in {disturbed, disturbed \ {a}}
    PROVE  IInv'
<1>1. ASSUME NEW b \in Inspections
      PROVE  Sound(b)'
  <2>1. CASE b = a
    BY <2>1
  <2>2. CASE b # a
    BY <2>2, SoundKept DEF IInv
  <2>3. QED
    BY <2>1, <2>2
<1>2. CalmUndisturbed' /\ StoredUnderItsRules'
  BY DEF IInv, CalmUndisturbed, StoredUnderItsRules, SameDictionary
<1>3. QED
  BY <1>1, <1>2 DEF IInv

\* The end of an inspection is one,
LEMMA IInvEnds ==
    ASSUME IInv, TypeOK', NEW a \in Inspections, NEW outcome \in Ended, Ends(a, outcome)
    PROVE  IInv'
<1>1. phase'[a] = outcome
  BY DEF Ends, Becomes, IInv, TypeOK
<1>2. Sound(a)'
  BY <1>1, SoundEnded
<1>3. \A b \in Inspections \ {a} : Same(b)
  BY DEF Ends, Becomes, Same, IInv, TypeOK
<1>4. QED
  BY <1>2, <1>3, StepOfOne DEF Ends, SameDictionary

\* and so is its beginning: the rules are composed as the dictionary is, and the
\* conditions hashed.
LEMMA IInvBegins ==
    ASSUME IInv, TypeOK', NEW a \in Inspections, Prepare(a) \/ Start(a)
    PROVE  IInv'
<1>1. Sound(a)
  BY DEF IInv
<1>2. CASE Prepare(a)
  <2>1. /\ phase[a] = "idle" /\ phase'[a] = "prepared"
        /\ composed'[a] = (dictionary # Absent)
        /\ verdict'[a] = NoText /\ reused'[a] = {}
    BY <1>1, <1>2 DEF Prepare, Moves, Becomes, Sound, IdleKnowsNothing, IInv, TypeOK
  <2>2. \A f \in Files : verdict'[a][f] = Absent
    BY <2>1 DEF NoText
  <2>3. dictionary' = dictionary
    BY <1>2 DEF Prepare
  <2>4. IdleKnowsNothing(a)' /\ HasTargets(a)' /\ TodoFits(a)'
    BY <2>1 DEF IdleKnowsNothing, HasTargets, TodoFits, Started
  <2>5. ComposedInForce(a)'
    BY <2>1, <2>3 DEF ComposedInForce
  <2>6. ConditionsInForce(a)' /\ InspectedInForce(a)' /\ ReusedInForce(a)'
    BY <2>1, <2>2 DEF ConditionsInForce, InspectedInForce, ReusedInForce
  <2>7. Sound(a)'
    BY <2>4, <2>5, <2>6 DEF Sound
  <2>8. \A b \in Inspections \ {a} : Same(b)
    BY <1>2 DEF Prepare, Moves, Becomes, Same, IInv, TypeOK
  <2>9. QED
    BY <1>2, <2>7, <2>8, StepOfOne DEF Prepare, SameDictionary
<1>3. CASE Start(a)
  <2>1. PICK c \in ComputedConditions(a) : conditions' = [conditions EXCEPT ![a] = c]
    BY <1>3 DEF Start
  <2>2. /\ phase[a] = "prepared" /\ phase'[a] \in {"listing", "looking"}
        /\ conditions'[a] = c
    BY <1>3, <2>1 DEF Start, Moves, Becomes, IInv, TypeOK
  <2>3. /\ composed' = composed /\ seen' = seen /\ reused' = reused /\ verdict' = verdict
        /\ dictionary' = dictionary /\ disturbed' = disturbed /\ calm' = calm
        /\ store' = store
    BY <1>3 DEF Start
  <2>4. phase'[a] = "looking" => TargetsOf(a)' # {}
    <3>1. ASSUME phase'[a] = "looking"
          PROVE  a \in Hooks
      BY <1>3, <3>1 DEF Start, Moves, Becomes, IInv, TypeOK, Inspections
    <3>2. ASSUME a \in Hooks, phase'[a] = "looking"
          PROVE  snapshot'[a][Planned[a].file] = Planned[a].text
                 /\ Planned[a].file \in Files /\ Planned[a].text # Absent
      <4>1. a \notin Gates /\ Planned[a].file \in Files /\ Planned[a].text \in Texts
        BY <3>2, InspectionAssumption DEF InspectionAssumption
      <4>2. snapshot' = [snapshot EXCEPT ![a][Planned[a].file] = Planned[a].text]
        BY <1>3, <4>1 DEF Start
      <4>3. QED
        BY <4>1, <4>2, InspectionAssumption DEF InspectionAssumption, IInv, TypeOK
    <3>3. QED
      BY <3>1, <3>2 DEF TargetsOf
  <2>5. Undisturbed(a)' <=> Undisturbed(a)
    BY <2>2, <2>3 DEF Undisturbed, Active
  <2>6. IdleKnowsNothing(a)' /\ HasTargets(a)' /\ TodoFits(a)'
    BY <2>2, <2>4 DEF IdleKnowsNothing, HasTargets, TodoFits, Started
  <2>7. ComposedInForce(a)' /\ InspectedInForce(a)' /\ ReusedInForce(a)'
    BY <1>1, <2>2, <2>3, <2>5 DEF Sound, ComposedInForce, InspectedInForce, ReusedInForce,
                                  RulesInForce, Active
  <2>8. ConditionsInForce(a)'
    BY <2>2, <2>3 DEF ConditionsInForce, ComputedConditions
  <2>9. Sound(a)'
    BY <2>6, <2>7, <2>8 DEF Sound
  <2>10. \A b \in Inspections \ {a} : Same(b)
    BY <1>3, <2>1, <2>3 DEF Start, Moves, Becomes, Same, IInv, TypeOK
  <2>11. QED
    BY <2>3, <2>9, <2>10, StepOfOne DEF SameDictionary
<1>4. QED
  BY <1>2, <1>3

\* What a step leaves of the inspection it is a step of, when only its texts, its
\* phase and what is left to do change.
LEMMA SoundMoves ==
    ASSUME IInv, NEW a \in Inspections, Undisturbed(a)' <=> Undisturbed(a),
           phase[a] \in Active \ {"prepared"}, phase'[a] \in Active \ {"prepared", "inspecting"},
           HasTargets(a)', TodoFits(a)', SameDictionary,
           composed' = composed, seen' = seen, conditions' = conditions,
           reused' = reused, verdict' = verdict
    PROVE  Sound(a)'
<1>1. Sound(a)
  BY DEF IInv
<1>2. IdleKnowsNothing(a)'
  BY DEF IdleKnowsNothing, Active, Ending
<1>3. ComposedInForce(a)'
  BY <1>1 DEF Sound, ComposedInForce, SameDictionary
<1>4. ConditionsInForce(a)'
  BY <1>1 DEF Sound, ConditionsInForce, SameDictionary
<1>5. InspectedInForce(a)' /\ ReusedInForce(a)'
  BY <1>1 DEF Sound, InspectedInForce, ReusedInForce, SameDictionary, RulesInForce
<1>6. QED
  BY <1>2, <1>3, <1>4, <1>5 DEF Sound

\* Finding the targets and reading them.
LEMMA IInvTargets ==
    ASSUME IInv, TypeOK', NEW a \in Inspections, List(a) \/ Read(a) \/ AllRead(a)
    PROVE  IInv'
<1>1. Sound(a)
  BY DEF IInv
<1>2. CASE Ends(a, "refused")
  BY <1>2, IInvEnds DEF Ended
<1>3. ASSUME ~Ends(a, "refused"), List(a)
      PROVE  IInv'
  <2>1. /\ phase[a] = "listing" /\ phase'[a] = "reading" /\ todo'[a] # {}
        /\ \A b \in Inspections \ {a} : Same(b)
    BY <1>3 DEF List, Becomes, Same, IInv, TypeOK
  <2>2. HasTargets(a)' /\ TodoFits(a)' /\ (Undisturbed(a)' <=> Undisturbed(a))
    BY <1>3, <2>1 DEF List, HasTargets, TodoFits, Undisturbed, Started, Active
  <2>3. Sound(a)'
    BY <1>3, <2>1, <2>2, SoundMoves DEF List, SameDictionary, Active
  <2>4. QED
    BY <1>3, <2>1, <2>3, StepOfOne DEF List, SameDictionary
<1>4. ASSUME ~Ends(a, "refused"), Read(a)
      PROVE  IInv'
  <2>1. PICK f \in NextOf(a) :
            /\ text[f] # Absent /\ Done(a, f)
            /\ snapshot' = [snapshot EXCEPT ![a][f] = text[f]]
    BY <1>4 DEF Read
  <2>2. f \in Files
    BY <2>1 DEF NextOf, IInv, TypeOK
  <2>3. \A b \in Inspections \ {a} : Same(b)
    BY <1>4, <2>1 DEF Read, Done, Same, IInv, TypeOK
  <2>4. phase' = phase /\ phase[a] = "reading" /\ disturbed' = disturbed
    BY <1>4 DEF Read
  <2>5. snapshot'[a][f] # Absent
    BY <2>1, <2>2 DEF IInv, TypeOK
  <2>6. HasTargets(a)' /\ TodoFits(a)' /\ (Undisturbed(a)' <=> Undisturbed(a))
    BY <2>2, <2>4, <2>5 DEF HasTargets, TodoFits, Undisturbed, Started, Active, TargetsOf
  <2>7. Sound(a)'
    BY <1>4, <2>4, <2>6, SoundMoves DEF Read, SameDictionary, Active
  <2>8. QED
    BY <1>4, <2>3, <2>7, StepOfOne DEF Read, SameDictionary
<1>5. ASSUME AllRead(a)
      PROVE  IInv'
  <2>1. /\ phase[a] = "reading" /\ phase'[a] = "looking" /\ todo[a] = {}
        /\ \A b \in Inspections \ {a} : Same(b)
    BY <1>5 DEF AllRead, Moves, Becomes, Same, IInv, TypeOK
  <2>2. HasTargets(a)' /\ TodoFits(a)' /\ (Undisturbed(a)' <=> Undisturbed(a))
    BY <1>1, <1>5, <2>1 DEF AllRead, Sound, HasTargets, TodoFits, Undisturbed, Started, Active,
                            TargetsOf
  <2>3. Sound(a)'
    BY <1>5, <2>1, <2>2, SoundMoves DEF AllRead, SameDictionary, Active
  <2>4. QED
    BY <1>5, <2>1, <2>3, StepOfOne DEF AllRead, SameDictionary
<1>6. QED
  BY <1>2, <1>3, <1>4, <1>5

\* What is found under conditions in force was reached under the rules in force.
LEMMA FoundInForce ==
    ASSUME IInv, NEW a \in Inspections, phase[a] = "looking", calm,
           NEW f, NEW v \in Found(a, conditions[a], f, snapshot[a][f])
    PROVE  v = RulesInForce
<1>1. Undisturbed(a) /\ Sound(a)
  BY DEF IInv, CalmUndisturbed, Undisturbed, Active
<1>2. PICK k \in DOMAIN store : k = Key(f, snapshot[a][f], conditions[a]) /\ v = store[k]
  BY DEF Found, Stored
<1>3. conditions[a] = [composed |-> composed[a], dictionary |-> dictionary]
  BY <1>1 DEF Sound, ConditionsInForce, Found, Reuses
<1>4. composed[a] = (dictionary # Absent)
  BY <1>1 DEF Sound, ComposedInForce
<1>5. k.conditions = conditions[a]
  BY <1>2 DEF Key
<1>6. store[k] = IF composed[a] THEN dictionary ELSE Standard
  BY <1>3, <1>5 DEF IInv, StoredUnderItsRules
<1>7. QED
  BY <1>2, <1>4, <1>6 DEF RulesInForce

\* Looking a target up in the store.
LEMMA IInvLookUp ==
    ASSUME IInv, TypeOK', NEW a \in Inspections, LookUp(a)
    PROVE  IInv'
<1>1. PICK f \in NextOf(a) :
          /\ Done(a, f)
          /\ \/ UNCHANGED <<reused, verdict>>
             \/ \E v \in Found(a, conditions[a], f, snapshot[a][f]) :
                   /\ reused' = [reused EXCEPT ![a] = @ \cup {f}]
                   /\ verdict' = [verdict EXCEPT ![a][f] = v]
  BY DEF LookUp
<1>2. /\ phase[a] = "looking" /\ phase' = phase /\ composed' = composed /\ seen' = seen
      /\ conditions' = conditions /\ snapshot' = snapshot /\ dictionary' = dictionary
      /\ disturbed' = disturbed /\ calm' = calm /\ store' = store
  BY DEF LookUp
<1>3. f \in Files /\ Sound(a)
  BY <1>1 DEF NextOf, IInv, TypeOK
<1>4. \A b \in Inspections \ {a} : Same(b)
  BY <1>1, <1>2 DEF Done, Same, IInv, TypeOK
<1>5. /\ Undisturbed(a)' <=> Undisturbed(a)
      /\ RulesInForce' = RulesInForce
  BY <1>2 DEF Undisturbed, RulesInForce
<1>6. IdleKnowsNothing(a)' /\ HasTargets(a)' /\ TodoFits(a)'
  BY <1>2, <1>3 DEF Sound, IdleKnowsNothing, HasTargets, TodoFits, Started, Active, TargetsOf
<1>7. ComposedInForce(a)' /\ ConditionsInForce(a)'
  BY <1>2, <1>3, <1>5 DEF Sound, ComposedInForce, ConditionsInForce
<1>8. InspectedInForce(a)' /\ ReusedInForce(a)'
  <2>1. CASE UNCHANGED <<reused, verdict>>
    BY <1>2, <1>3, <1>5, <2>1 DEF Sound, InspectedInForce, ReusedInForce
  <2>2. ASSUME NEW v \in Found(a, conditions[a], f, snapshot[a][f]),
               reused' = [reused EXCEPT ![a] = @ \cup {f}],
               verdict' = [verdict EXCEPT ![a][f] = v]
        PROVE  InspectedInForce(a)' /\ ReusedInForce(a)'
    <3>1. /\ reused'[a] = reused[a] \cup {f} /\ verdict'[a][f] = v
          /\ \A g \in Files \ {f} : verdict'[a][g] = verdict[a][g]
      BY <1>3, <2>2 DEF IInv, TypeOK
    <3>2. InspectedInForce(a)'
      BY <1>3, <1>5, <3>1 DEF Sound, InspectedInForce
    <3>3. calm => v = RulesInForce
      BY <1>2, FoundInForce
    <3>4. reused[a] \subseteq Files
      BY DEF IInv, TypeOK
    <3>5. ReusedInForce(a)'
      BY <1>2, <1>3, <1>5, <3>1, <3>3, <3>4 DEF Sound, ReusedInForce
    <3>6. QED
      BY <3>2, <3>5
  <2>3. QED
    BY <1>1, <2>1, <2>2
<1>9. Sound(a)'
  BY <1>6, <1>7, <1>8 DEF Sound
<1>10. QED
  BY <1>2, <1>4, <1>9, StepOfOne DEF SameDictionary

\* The inspection begins, and with it that of the workers.
LEMMA IInvLookedUp ==
    ASSUME IInv, TypeOK', NEW a \in Inspections, LookedUp(a)
    PROVE  IInv'
<1>1. /\ phase[a] = "looking" /\ phase'[a] = "inspecting"
      /\ todo'[a] = TargetsOf(a) \ reused[a]
      /\ seen'[a] = {composed[a], dictionary # Absent}
      /\ \A b \in Inspections \ {a} : Same(b)
  BY DEF LookedUp, Moves, Becomes, Same, IInv, TypeOK
<1>2. /\ composed' = composed /\ conditions' = conditions /\ snapshot' = snapshot
      /\ reused' = reused /\ verdict' = verdict /\ dictionary' = dictionary
      /\ disturbed' = disturbed /\ calm' = calm /\ store' = store
  BY DEF LookedUp
<1>3. Sound(a) /\ (Undisturbed(a)' <=> Undisturbed(a)) /\ RulesInForce' = RulesInForce
  BY <1>1, <1>2 DEF IInv, Undisturbed, Active, RulesInForce
<1>4. IdleKnowsNothing(a)' /\ HasTargets(a)' /\ TodoFits(a)'
  BY <1>1, <1>2, <1>3 DEF Sound, IdleKnowsNothing, HasTargets, TodoFits, Started, Active,
                          TargetsOf
<1>5. ComposedInForce(a)'
  BY <1>1, <1>2, <1>3 DEF Sound, ComposedInForce
<1>6. ConditionsInForce(a)' /\ InspectedInForce(a)'
  BY <1>1, <1>2, <1>3 DEF Sound, ConditionsInForce, InspectedInForce
<1>7. ReusedInForce(a)'
  BY <1>1, <1>2, <1>3 DEF Sound, ReusedInForce, Active
<1>8. Sound(a)'
  BY <1>4, <1>5, <1>6, <1>7 DEF Sound
<1>9. QED
  BY <1>1, <1>2, <1>8, StepOfOne DEF SameDictionary

\* A text is inspected under the rules composed and the dictionary as it is.
LEMMA IInvInspect ==
    ASSUME IInv, TypeOK', NEW a \in Inspections, Inspect(a)
    PROVE  IInv'
<1>1. PICK f, refers, v :
          /\ f \in todo[a] /\ refers \in Composes(a)
          /\ v \in {Outcome(refers), Uninspectable}
          /\ Done(a, f)
          /\ verdict' = [verdict EXCEPT ![a][f] = v]
  BY DEF Inspect
<1>2. /\ phase[a] = "inspecting" /\ phase' = phase /\ reused' = reused
      /\ dictionary' = dictionary /\ calm' = calm /\ disturbed' = disturbed
      /\ store' = store /\ composed' = composed /\ seen' = seen
      /\ conditions' = conditions /\ snapshot' = snapshot
  BY DEF Inspect
<1>3. /\ verdict'[a][f] = v /\ todo'[a] \subseteq todo[a]
      /\ \A g \in Files \ {f} : verdict'[a][g] = verdict[a][g]
      /\ \A b \in Inspections \ {a} : Same(b)
  BY <1>1, <1>2 DEF Done, Same, IInv, TypeOK
<1>4. Sound(a) /\ (Undisturbed(a)' <=> Undisturbed(a)) /\ RulesInForce' = RulesInForce
  BY <1>2 DEF IInv, Undisturbed, RulesInForce
<1>5. Undisturbed(a) => v \in {Uninspectable, RulesInForce}
  <2>1. Undisturbed(a) => refers = (dictionary # Absent)
    BY <1>1, <1>2, <1>4 DEF Sound, ComposedInForce, Composes
  <2>2. QED
    BY <2>1, <1>1 DEF Outcome, RulesInForce
<1>6. InspectedInForce(a)'
  BY <1>2, <1>3, <1>4, <1>5 DEF Sound, InspectedInForce
<1>7. ReusedInForce(a)'
  <2>1. f \notin reused[a] /\ reused[a] \subseteq Files
    BY <1>1, <1>2, <1>4 DEF Sound, TodoFits, IInv, TypeOK
  <2>2. QED
    BY <2>1, <1>2, <1>3, <1>4 DEF Sound, ReusedInForce
<1>8. IdleKnowsNothing(a)' /\ HasTargets(a)' /\ TodoFits(a)'
  BY <1>2, <1>3, <1>4 DEF Sound, IdleKnowsNothing, HasTargets, TodoFits, Started, TargetsOf
<1>9. ComposedInForce(a)' /\ ConditionsInForce(a)'
  BY <1>2, <1>4 DEF Sound, ComposedInForce, ConditionsInForce
<1>10. Sound(a)'
  BY <1>6, <1>7, <1>8, <1>9 DEF Sound
<1>11. QED
  BY <1>2, <1>3, <1>10, StepOfOne DEF SameDictionary

\* Only successful inspections of one's own are to be stored.
LEMMA IInvInspected ==
    ASSUME IInv, TypeOK', NEW a \in Inspections, Inspected(a)
    PROVE  IInv'
<1>1. /\ phase[a] = "inspecting" /\ phase'[a] = "storing" /\ todo'[a] = Storable(a)
      /\ \A b \in Inspections \ {a} : Same(b)
  BY DEF Inspected, Moves, Becomes, Same, IInv, TypeOK
<1>2. /\ snapshot' = snapshot /\ verdict' = verdict /\ reused' = reused
      /\ conditions' = conditions /\ disturbed' = disturbed
  BY DEF Inspected
<1>3. TargetsOf(a)' = TargetsOf(a) /\ Storable(a)' = Storable(a)
  BY <1>2 DEF TargetsOf, Storable, Reuses
<1>4. HasTargets(a)' /\ TodoFits(a)' /\ (Undisturbed(a)' <=> Undisturbed(a))
  BY <1>1, <1>2, <1>3 DEF IInv, Sound, HasTargets, TodoFits, Undisturbed, Started, Active
<1>5. Sound(a)'
  BY <1>1, <1>4, SoundMoves DEF Inspected, SameDictionary, Active
<1>6. QED
  BY <1>1, <1>5, StepOfOne DEF Inspected, SameDictionary

\* Making room takes results from the store.
LEMMA IInvRoom ==
    ASSUME IInv, TypeOK', NEW a \in Inspections, Store(a) \/ Prune(a)
    PROVE  IInv'
<1>1. CASE Store(a)
  <2>1. /\ phase[a] = "storing" /\ phase'[a] = "pruning" /\ todo' = todo
        /\ \A b \in Inspections \ {a} : Same(b)
    BY <1>1 DEF Store, Moves, Becomes, Same, IInv, TypeOK
  <2>2. TargetsOf(a)' = TargetsOf(a) /\ Storable(a)' = Storable(a)
    BY <1>1 DEF Store, TargetsOf, Storable, Reuses
  <2>3. HasTargets(a)' /\ TodoFits(a)' /\ (Undisturbed(a)' <=> Undisturbed(a))
    BY <1>1, <2>1, <2>2
    DEF Store, IInv, Sound, HasTargets, TodoFits, Undisturbed, Started, Active
  <2>4. Sound(a)'
    BY <1>1, <2>1, <2>3, SoundMoves DEF Store, SameDictionary, Active
  <2>5. QED
    BY <1>1, <2>1, <2>4, StepOfOne DEF Store, SameDictionary
<1>2. CASE Prune(a)
  <2>1. PICK key \in doomed[a] : store' = [k \in DOMAIN store \ {key} |-> store[k]]
    BY <1>2 DEF Prune
  <2>2. StoredUnderItsRules'
    BY <1>2, <2>1 DEF Prune, IInv, StoredUnderItsRules
  <2>3. \A b \in Inspections : Same(b)
    BY <1>2 DEF Prune, Same
  <2>4. \A b \in Inspections : Sound(b)'
    BY <1>2, <2>3, SoundKept DEF Prune, IInv, SameDictionary
  <2>5. QED
    BY <1>2, <2>2, <2>4 DEF Prune, IInv, CalmUndisturbed
<1>3. QED
  BY <1>1, <1>2

\* What is stored was reached under the rules its key names.
LEMMA IInvPut ==
    ASSUME IInv, TypeOK', NEW a \in Inspections, Put(a)
    PROVE  IInv'
<1>1. Sound(a) /\ TodoFits(a)
  BY DEF IInv, Sound
<1>2. PICK f \in NextOf(a), key \in Keys :
              /\ key = Key(f, snapshot[a][f], conditions[a])
              /\ Done(a, f) /\ f \in Storable(a) /\ verdict[a][f] \in Rules
              /\ \/ store' = store
                 \/ store' = [k \in DOMAIN store \cup {key} |->
                                 IF k = key THEN verdict[a][f] ELSE store[k]]
  BY <1>1, StoredTypes DEF IInv
<1>3. /\ phase[a] = "pruning" /\ phase'[a] = "storing" /\ todo'[a] \subseteq todo[a]
      /\ \A b \in Inspections \ {a} : Same(b)
  BY <1>2 DEF Put, Moves, Becomes, Done, Same, IInv, TypeOK
<1>4. /\ dictionary' = dictionary /\ calm' = calm /\ disturbed' = disturbed
      /\ composed' = composed /\ seen' = seen /\ reused' = reused
      /\ conditions' = conditions /\ snapshot' = snapshot /\ verdict' = verdict
  BY DEF Put
<1>5. Sound(a)'
  <2>1. TargetsOf(a)' = TargetsOf(a) /\ Storable(a)' = Storable(a)
    BY <1>4 DEF TargetsOf, Storable, Reuses
  <2>2. HasTargets(a)' /\ TodoFits(a)' /\ (Undisturbed(a)' <=> Undisturbed(a))
    BY <1>1, <1>3, <1>4, <2>1 DEF Sound, HasTargets, TodoFits, Undisturbed, Started, Active
  <2>3. QED
    BY <1>3, <1>4, <2>2, SoundMoves DEF SameDictionary, Active
<1>6. \A b \in Inspections : Sound(b)'
  <2>1. ASSUME NEW b \in Inspections \ {a}
        PROVE  Sound(b)'
    BY <2>1, <1>3, <1>4, SoundKept DEF IInv, SameDictionary
  <2>2. QED
    BY <1>5, <2>1
<1>7. StoredUnderItsRules'
  <2>1. ASSUME calm
        PROVE  verdict[a][f] = IF key.conditions.composed
                               THEN key.conditions.dictionary ELSE Standard
    <3>1. Undisturbed(a)
      BY <2>1, <1>3 DEF IInv, CalmUndisturbed, Undisturbed, Active
    <3>2. f \in Files \ reused[a] /\ verdict[a][f] \notin {Absent, Uninspectable}
      BY <1>2, InspectionAssumption DEF Storable, TargetsOf, InspectionAssumption, Rules
    <3>3. verdict[a][f] = RulesInForce
      BY <1>1, <3>1, <3>2 DEF Sound, InspectedInForce
    <3>4. conditions[a] # Untracked
      BY <1>2 DEF Storable, Reuses
    <3>5. /\ conditions[a] = [composed |-> composed[a], dictionary |-> dictionary]
          /\ composed[a] = (dictionary # Absent)
      BY <1>1, <1>3, <3>1, <3>4 DEF Sound, ConditionsInForce, ComposedInForce
    <3>6. /\ key.conditions.composed = (dictionary # Absent)
          /\ key.conditions.dictionary = dictionary
      <4>1. key.conditions = conditions[a]
        BY <1>2 DEF Key
      <4>2. /\ conditions[a].composed = composed[a]
            /\ conditions[a].dictionary = dictionary
        BY <3>5
      <4>3. QED
        BY <4>1, <4>2, <3>5
    <3>7. QED
      BY <3>3, <3>6 DEF RulesInForce
  <2>2. CASE store' = store
    BY <2>2, <1>4 DEF IInv, StoredUnderItsRules
  <2>3. CASE store' = [k \in DOMAIN store \cup {key} |->
                          IF k = key THEN verdict[a][f] ELSE store[k]]
    BY <2>1, <2>3, <1>4 DEF IInv, StoredUnderItsRules
  <2>4. QED
    BY <1>2, <2>2, <2>3
<1>8. QED
  BY <1>4, <1>6, <1>7 DEF IInv, CalmUndisturbed

\* Reading everything again.
LEMMA IInvRereads ==
    ASSUME IInv, TypeOK', NEW a \in Inspections, Recheck(a) \/ Relist(a) \/ Reread(a)
    PROVE  IInv'
<1>1. CASE Ends(a, "refused")
  BY <1>1, IInvEnds DEF Ended
<1>2. ASSUME ~Ends(a, "refused")
      PROVE  IInv'
  <2>1. /\ phase[a] \in {"storing", "relisting", "rereading"}
        /\ phase'[a] \in {"relisting", "rereading"}
        /\ \A b \in Inspections \ {a} : Same(b)
    <3>1. CASE Recheck(a)
      BY <1>2, <3>1 DEF Recheck, Becomes, Same, IInv, TypeOK
    <3>2. CASE Relist(a)
      BY <1>2, <3>2 DEF Relist, Becomes, Same, IInv, TypeOK
    <3>3. CASE Reread(a)
      BY <1>2, <3>3 DEF Reread, Done, Same, IInv, TypeOK
    <3>4. QED
      BY <3>1, <3>2, <3>3
  <2>2. /\ snapshot' = snapshot /\ reused' = reused /\ verdict' = verdict
        /\ conditions' = conditions /\ composed' = composed /\ seen' = seen
        /\ dictionary' = dictionary /\ calm' = calm /\ disturbed' = disturbed
        /\ store' = store
    <3>1. CASE Recheck(a)
      BY <1>2, <3>1 DEF Recheck
    <3>2. CASE Relist(a)
      BY <1>2, <3>2 DEF Relist
    <3>3. CASE Reread(a)
      BY <1>2, <3>3 DEF Reread
    <3>4. QED
      BY <3>1, <3>2, <3>3
  <2>3. HasTargets(a)' /\ TodoFits(a)' /\ (Undisturbed(a)' <=> Undisturbed(a))
    BY <2>1, <2>2
    DEF IInv, Sound, HasTargets, TodoFits, Undisturbed, Started, Active, Ending, TargetsOf
  <2>4. Sound(a)'
    BY <2>1, <2>2, <2>3, SoundMoves DEF SameDictionary, Active, Ending
  <2>5. QED
    BY <2>1, <2>2, <2>4, StepOfOne DEF SameDictionary
<1>3. QED
  BY <1>1, <1>2

\* Neither a tool that writes nor an editor of a file is noticed by an inspection.
LEMMA IInvTexts ==
    ASSUME IInv, TypeOK',
           EditText \/ \E h \in Inspections : Write(h)
    PROVE  IInv'
<1>1. /\ dictionary' = dictionary /\ calm' = calm /\ disturbed' = disturbed
      /\ store' = store /\ composed' = composed /\ seen' = seen /\ todo' = todo
      /\ conditions' = conditions /\ snapshot' = snapshot /\ reused' = reused
      /\ verdict' = verdict
  BY DEF EditText, Write
<1>2. \A b \in Inspections : phase'[b] = phase[b] \/ phase'[b] = "written"
  BY DEF EditText, Write, Moves, Becomes, IInv, TypeOK
<1>3. ASSUME NEW b \in Inspections
      PROVE  Sound(b)'
  <2>1. CASE phase'[b] = phase[b]
    BY <1>1, <2>1, SoundKept DEF IInv, Same, SameDictionary
  <2>2. CASE phase'[b] = "written"
    BY <2>2, SoundEnded DEF Ended
  <2>3. QED
    BY <1>2, <2>1, <2>2
<1>4. QED
  BY <1>1, <1>3 DEF IInv, CalmUndisturbed, StoredUnderItsRules

\* An edit of the dictionary disturbs all that are under way.
LEMMA IInvEditDictionary ==
    ASSUME IInv, TypeOK', EditDictionary
    PROVE  IInv'
<1>1. /\ phase' = phase /\ store' = store /\ todo' = todo /\ conditions' = conditions
      /\ snapshot' = snapshot /\ reused' = reused /\ verdict' = verdict
      /\ disturbed' = {b \in Inspections : phase[b] \in Active}
      /\ calm' => calm /\ disturbed' = {}
  BY DEF EditDictionary
<1>2. ASSUME NEW b \in Inspections
      PROVE  Sound(b)'
  <2>1. ~Undisturbed(b)' /\ (calm' => phase'[b] \notin Active)
    BY <1>1 DEF Undisturbed
  <2>2. IdleKnowsNothing(b)' /\ HasTargets(b)' /\ TodoFits(b)'
    BY <1>1 DEF IInv, Sound, IdleKnowsNothing, HasTargets, TodoFits, Started, TargetsOf,
                Storable, Reuses, NoText
  <2>3. ComposedInForce(b)' /\ ConditionsInForce(b)' /\ InspectedInForce(b)'
    BY <2>1 DEF ComposedInForce, ConditionsInForce, InspectedInForce
  <2>4. ReusedInForce(b)'
    BY <2>1 DEF ReusedInForce
  <2>5. QED
    BY <2>2, <2>3, <2>4 DEF Sound
<1>3. CalmUndisturbed' /\ StoredUnderItsRules'
  BY <1>1 DEF IInv, CalmUndisturbed, StoredUnderItsRules
<1>4. QED
  BY <1>2, <1>3 DEF IInv

\* The invariant is inductive.
LEMMA IInvStep == IInv /\ [Next]_vars => IInv'
<1> SUFFICES ASSUME IInv, [Next]_vars
             PROVE  IInv'
  OBVIOUS
<1>0. TypeOK'
  BY TypeStep DEF IInv, Sound
<1>1. CASE UNCHANGED vars \/ AllEnded
  <2>1. \A b \in Inspections : Sound(b)'
    BY <1>1, SoundKept DEF vars, AllEnded, IInv, Same, SameDictionary
  <2>2. QED
    BY <1>0, <1>1, <2>1 DEF vars, AllEnded, IInv, CalmUndisturbed, StoredUnderItsRules
<1>2. CASE EditText \/ EditDictionary
  BY <1>0, <1>2, IInvTexts, IInvEditDictionary
<1>3. ASSUME NEW a \in Inspections,
          \/ Prepare(a) \/ CannotPrepare(a) \/ Start(a) \/ List(a) \/ Read(a) \/ AllRead(a)
          \/ LookUp(a) \/ LookedUp(a) \/ Inspect(a) \/ Inspected(a)
          \/ Store(a) \/ Prune(a) \/ Put(a)
          \/ Recheck(a) \/ Relist(a) \/ Reread(a) \/ Finish(a) \/ Decide(a) \/ Write(a)
      PROVE  IInv'
  <2>1. CASE CannotPrepare(a) \/ Finish(a) \/ Decide(a)
    <3>1. \E outcome \in Ended : Ends(a, outcome)
      BY <2>1 DEF CannotPrepare, Finish, Decide, Ended
    <3>2. QED
      BY <3>1, <1>0, IInvEnds
  <2>2. CASE Write(a)
    BY <2>2, <1>0, IInvTexts
  <2>3. QED
    BY <1>3, <2>1, <2>2, <1>0, IInvBegins, IInvTargets, IInvLookUp, IInvLookedUp,
       IInvInspect, IInvInspected, IInvRoom, IInvPut, IInvRereads
<1>4. QED
  BY <1>1, <1>2, <1>3 DEF Next

\* The strengthening holds in every reachable state.
LEMMA Invariance == Spec => []IInv
<1>1. Init => IInv
  BY InitIInv
<1>2. IInv /\ [Next]_vars => IInv'
  BY IInvStep
<1>3. QED
  BY <1>1, <1>2, PTL DEF Spec

-----------------------------------------------------------------------------
(* Theorems.                                                                   *)

\* Every reachable state is well typed: in particular only successful
\* inspections are ever stored.
THEOREM TypeCorrect == Spec => []TypeOK
<1>1. IInv => TypeOK
  BY DEF IInv
<1>2. QED
  BY <1>1, Invariance, PTL

\* As long as the dictionary is edited only between inspections, whatever is in
\* the store was reached under the rules its key names.
THEOREM StoredUnderItsRulesAlways == Spec => []StoredUnderItsRules
<1>1. IInv => StoredUnderItsRules
  BY DEF IInv
<1>2. QED
  BY <1>1, Invariance, PTL

\* An inspection is accepted only when it ends.
LEMMA AcceptsExits ==
    ASSUME IInv, [Next]_vars, NEW a \in Inspections, Accepts(a)
    PROVE  /\ Started(a) /\ Clean(a)
           /\ a \in Gates => /\ phase[a] = "rereading" /\ todo[a] = {}
                             /\ Purpose[a] = "independent" => reused[a] = {}
<1> USE DEF IInv
<1>1. ~UNCHANGED vars
  BY DEF Accepts, vars
<1>2. ~AllEnded /\ ~EditText /\ ~EditDictionary
  BY <1>1 DEF AllEnded, EditText, EditDictionary, Accepts
<1>3. PICK b \in Inspections :
          \/ Prepare(b) \/ CannotPrepare(b) \/ Start(b) \/ List(b) \/ Read(b) \/ AllRead(b)
          \/ LookUp(b) \/ LookedUp(b) \/ Inspect(b) \/ Inspected(b)
          \/ Store(b) \/ Prune(b) \/ Put(b)
          \/ Recheck(b) \/ Relist(b) \/ Reread(b) \/ Finish(b) \/ Decide(b) \/ Write(b)
  BY <1>1, <1>2 DEF Next
<1>4. ~Ends(b, "refused")
  BY DEF Ends, Becomes, Accepts, TypeOK
<1>5. /\ ~Prepare(b) /\ ~CannotPrepare(b) /\ ~AllRead(b) /\ ~LookedUp(b) /\ ~Inspected(b)
      /\ ~Store(b) /\ ~Put(b) /\ ~Write(b)
  BY <1>4 DEF Prepare, CannotPrepare, AllRead, LookedUp, Inspected, Store, Put, Write, Moves,
              Becomes, Accepts, TypeOK
<1>6. ~Start(b)
  BY DEF Start, Moves, Becomes, Accepts, TypeOK
<1>7. ~List(b) /\ ~Read(b) /\ ~Recheck(b) /\ ~Relist(b) /\ ~Reread(b)
  BY <1>4 DEF List, Read, Recheck, Relist, Reread, Becomes, Accepts, TypeOK
<1>8. ~LookUp(b) /\ ~Inspect(b) /\ ~Prune(b)
  BY DEF LookUp, Inspect, Prune, Accepts, TypeOK
<1>9. CASE Finish(b)
  <2>1. Clean(b) /\ (Purpose[b] = "independent" => reused[b] = {})
    BY <1>4, <1>9 DEF Finish
  <2>2. b = a
    BY <1>9 DEF Finish, Ends, Becomes, Accepts, TypeOK
  <2>3. phase[a] = "rereading" /\ todo[a] = {}
    BY <1>9, <2>2 DEF Finish
  <2>4. QED
    BY <2>1, <2>2, <2>3 DEF Started, Active, Ending
<1>10. CASE Decide(b)
  <2>1. Clean(b) /\ b \in Hooks /\ phase[b] = "storing"
    BY <1>4, <1>10 DEF Decide
  <2>2. b = a
    BY <1>10 DEF Decide, Ends, Becomes, Accepts, TypeOK
  <2>3. a \notin Gates
    BY <2>1, <2>2, InspectionAssumption DEF InspectionAssumption
  <2>4. QED
    BY <2>1, <2>2, <2>3 DEF Started, Active
<1>11. QED
  BY <1>3, <1>5, <1>6, <1>7, <1>8, <1>9, <1>10

\* Undisturbed, with nothing reused but verdicts in force: clean in force.
LEMMA CleanMeansCleanInForce ==
    ASSUME IInv, NEW a \in Inspections, Undisturbed(a), Clean(a),
           \A f \in reused[a] : verdict[a][f] = RulesInForce
    PROVE  CleanInForce(a)
<1>1. ASSUME NEW f \in TargetsOf(a)
      PROVE  verdict[a][f] = RulesInForce
  <2>1. f \in Files /\ verdict[a][f] \in Rules
    BY DEF TargetsOf, Clean
  <2>2. verdict[a][f] \notin {Absent, Uninspectable}
    BY <2>1, InspectionAssumption DEF InspectionAssumption
  <2>3. QED
    BY <2>1, <2>2 DEF IInv, Sound, InspectedInForce
<1>2. QED
  BY <1>1 DEF Clean, CleanInForce

\* As long as the dictionary is edited only between inspections, what is accepted
\* violates nothing in force, however results are shared.
THEOREM AcceptedIsCleanAlways == Spec => AcceptedIsClean
<1>1. ASSUME IInv, [Next]_vars, NEW a \in Inspections, Accepts(a), calm
      PROVE  CleanInForce(a)
  <2>1. Started(a) /\ Clean(a)
    BY <1>1, AcceptsExits
  <2>2. Undisturbed(a)
    BY <1>1, <2>1 DEF IInv, CalmUndisturbed, Undisturbed, Started
  <2>3. \A f \in reused[a] : verdict[a][f] = RulesInForce
    BY <1>1, <2>1 DEF IInv, Sound, ReusedInForce, Started
  <2>4. QED
    BY <1>1, <2>1, <2>2, <2>3, CleanMeansCleanInForce
<1>2. IInv /\ [Next]_vars =>
        [\A a \in Inspections : Accepts(a) /\ calm => CleanInForce(a)]_vars
  BY <1>1
<1>3. QED
  BY <1>2, Invariance, PTL DEF Spec, AcceptedIsClean

\* An accepted independent gate violates nothing in force unless the dictionary
\* was edited during this very gate: the store has no part in it.
THEOREM IndependentIsCleanAlways == Spec => IndependentIsClean
<1>1. ASSUME IInv, [Next]_vars, NEW a \in Gates,
             Accepts(a), Purpose[a] = "independent", a \notin disturbed
      PROVE  CleanInForce(a)
  <2>1. a \in Inspections
    BY DEF Inspections
  <2>2. Started(a) /\ Clean(a) /\ reused[a] = {}
    BY <1>1, <2>1, AcceptsExits
  <2>3. Undisturbed(a)
    BY <1>1, <2>2 DEF Undisturbed, Started
  <2>4. QED
    BY <1>1, <2>1, <2>2, <2>3, CleanMeansCleanInForce
<1>2. IInv /\ [Next]_vars =>
        [\A a \in Gates :
            Accepts(a) /\ Purpose[a] = "independent" /\ a \notin disturbed
                => CleanInForce(a)]_vars
  BY <1>1
<1>3. QED
  BY <1>2, Invariance, PTL DEF Spec, IndependentIsClean

-----------------------------------------------------------------------------
(* The end check.                                                              *)

\* Since a gate began to end, every file has had the text it has now; and the
\* texts that are read again, and those of no target, are among what it has had.
EndSeen(b) ==
    /\ phase[b] \in Ending => \A f \in Files : text[f] \in during[b][f]
    /\ phase[b] = "rereading" =>
          \A f \in Files \ todo[b] : snapshot[b][f] \in during[b][f]
EndInv == \A b \in Inspections : EndSeen(b)

\* A change of a text adds to what each file has had.
LEMMA EndChangeText ==
    ASSUME TypeOK, EndInv, NEW f \in Files, NEW t \in Texts \cup {Absent}, ChangeText(f, t),
           snapshot' = snapshot, todo' = todo,
           \A b \in Inspections : phase'[b] = phase[b] \/ phase'[b] \notin Ending
    PROVE  EndInv'
<1> SUFFICES ASSUME NEW b \in Inspections, phase'[b] \in Ending
             PROVE  EndSeen(b)'
  BY DEF EndInv, EndSeen, Ending
<1>1. phase'[b] = phase[b]
  OBVIOUS
<1>2. \A g \in Files : during'[b][g] = IF g = f THEN during[b][g] \cup {t} ELSE during[b][g]
  BY <1>1 DEF ChangeText, TypeOK
<1>3. \A g \in Files : text'[g] = IF g = f THEN t ELSE text[g]
  BY DEF ChangeText, TypeOK
<1>4. EndSeen(b)
  BY DEF EndInv
<1>5. QED
  BY <1>1, <1>2, <1>3, <1>4 DEF EndSeen

\* Every step keeps the account of the end check.
LEMMA EndStep ==
    ASSUME IInv, EndInv, [Next]_vars
    PROVE  EndInv'
<1> USE DEF IInv
<1>1. CASE UNCHANGED vars \/ AllEnded \/ EditDictionary
  BY <1>1 DEF vars, AllEnded, EditDictionary, EndInv, EndSeen
<1>2. CASE EditText
  BY <1>2, EndChangeText DEF EditText
<1>3. ASSUME NEW a \in Inspections, Write(a)
      PROVE  EndInv'
  <2>1. Planned[a].text \in Texts /\ Planned[a].file \in Files
    BY <1>3, InspectionAssumption DEF InspectionAssumption, Write
  <2>2. \A b \in Inspections : phase'[b] = phase[b] \/ phase'[b] \notin Ending
    BY <1>3 DEF Write, Moves, Becomes, TypeOK, Ending
  <2>3. QED
    BY <1>3, <2>1, <2>2, EndChangeText DEF Write
<1>4. ASSUME NEW a \in Inspections, NEW outcome \in Ended, Ends(a, outcome)
      PROVE  EndInv'
  <2>1. /\ phase'[a] = outcome
        /\ \A b \in Inspections \ {a} :
              /\ phase'[b] = phase[b] /\ snapshot'[b] = snapshot[b]
              /\ todo'[b] = todo[b] /\ during'[b] = during[b]
        /\ text' = text
    BY <1>4 DEF Ends, Becomes, TypeOK
  <2>2. QED
    BY <2>1 DEF EndInv, EndSeen, Ending, Ended
<1>5. ASSUME NEW a \in Inspections, ~Ends(a, "refused"),
          \/ Prepare(a) \/ Start(a) \/ List(a) \/ Read(a) \/ AllRead(a)
          \/ LookUp(a) \/ LookedUp(a) \/ Inspect(a) \/ Inspected(a)
          \/ Store(a) \/ Prune(a) \/ Put(a)
      PROVE  EndInv'
  <2>1. /\ text' = text /\ during' = during
        /\ phase'[a] \notin Ending
        /\ \A b \in Inspections \ {a} :
              /\ phase'[b] = phase[b] /\ snapshot'[b] = snapshot[b] /\ todo'[b] = todo[b]
    <3>1. CASE Prepare(a) \/ Start(a)
      BY <3>1 DEF Prepare, Start, Moves, Becomes, TypeOK, Ending
    <3>2. CASE List(a) \/ Read(a)
      BY <1>5, <3>2 DEF List, Read, Done, Becomes, TypeOK, Ending
    <3>3. CASE AllRead(a) \/ LookUp(a) \/ LookedUp(a)
      BY <3>3 DEF AllRead, LookUp, LookedUp, Done, Moves, Becomes, TypeOK, Ending
    <3>4. CASE Inspect(a) \/ Inspected(a)
      BY <3>4 DEF Inspect, Inspected, Done, Moves, Becomes, TypeOK, Ending
    <3>5. CASE Store(a) \/ Prune(a) \/ Put(a)
      BY <3>5 DEF Store, Prune, Put, Done, Moves, Becomes, TypeOK, Ending
    <3>6. QED
      BY <1>5, <3>1, <3>2, <3>3, <3>4, <3>5
  <2>2. QED
    BY <2>1 DEF EndInv, EndSeen, Ending
<1>6. ASSUME NEW a \in Inspections, ~Ends(a, "refused"), Recheck(a)
      PROVE  EndInv'
  <2>1. /\ text' = text /\ snapshot' = snapshot /\ todo' = todo
        /\ phase'[a] = "relisting" /\ during'[a] = [f \in Files |-> {text[f]}]
        /\ \A b \in Inspections \ {a} : phase'[b] = phase[b] /\ during'[b] = during[b]
    BY <1>6 DEF Recheck, Becomes, TypeOK
  <2>2. QED
    BY <2>1 DEF EndInv, EndSeen
<1>7. ASSUME NEW a \in Inspections, ~Ends(a, "refused"), Relist(a)
      PROVE  EndInv'
  <2>1. /\ text' = text /\ snapshot' = snapshot /\ during' = during
        /\ phase[a] = "relisting" /\ phase'[a] = "rereading" /\ todo'[a] = TargetsOf(a)
        /\ Enumerated = TargetsOf(a)
        /\ \A b \in Inspections \ {a} : phase'[b] = phase[b] /\ todo'[b] = todo[b]
    BY <1>7 DEF Relist, Becomes, TypeOK
  <2>2. \A f \in Files \ TargetsOf(a) : snapshot[a][f] = Absent /\ text[f] = Absent
    BY <2>1 DEF TargetsOf, Enumerated
  <2>3. EndSeen(a)'
    BY <2>1, <2>2 DEF EndInv, EndSeen, Ending
  <2>4. \A b \in Inspections \ {a} : EndSeen(b)'
    BY <2>1 DEF EndInv, EndSeen
  <2>5. QED
    BY <2>3, <2>4 DEF EndInv
<1>8. ASSUME NEW a \in Inspections, ~Ends(a, "refused"), Reread(a)
      PROVE  EndInv'
  <2>1. PICK f \in NextOf(a) : Unchanged(a, f) /\ Done(a, f)
    BY <1>8 DEF Reread
  <2>2. /\ text' = text /\ snapshot' = snapshot /\ during' = during /\ phase' = phase
        /\ phase[a] = "rereading"
    BY <1>8 DEF Reread
  <2>3. /\ f \in Files /\ todo'[a] = todo[a] \ {f} /\ snapshot[a][f] = text[f]
        /\ \A b \in Inspections \ {a} : todo'[b] = todo[b]
    BY <2>1 DEF NextOf, Done, Unchanged, TypeOK
  <2>4. EndSeen(a)'
    BY <2>2, <2>3 DEF EndInv, EndSeen, Ending
  <2>5. \A b \in Inspections \ {a} : EndSeen(b)'
    BY <2>2, <2>3 DEF EndInv, EndSeen
  <2>6. QED
    BY <2>4, <2>5 DEF EndInv
<1>9. ASSUME NEW a \in Inspections, CannotPrepare(a) \/ Finish(a) \/ Decide(a)
      PROVE  EndInv'
  <2>1. \E outcome \in Ended : Ends(a, outcome)
    BY <1>9 DEF CannotPrepare, Finish, Decide, Ended
  <2>2. QED
    BY <2>1, <1>4
<1>10. ASSUME NEW a \in Inspections, Ends(a, "refused")
       PROVE  EndInv'
  BY <1>10, <1>4 DEF Ended
<1>11. QED
  BY <1>1, <1>2, <1>3, <1>5, <1>6, <1>7, <1>8, <1>9, <1>10 DEF Next

\* A gate is accepted only for files that were all there during its end check, each
\* at some moment of it, and for at least one: whatever editors and tools change
\* between any two of its reads.
THEOREM AcceptedForCurrentFilesAlways == Spec => AcceptedForCurrentFiles
<1>1. Init => EndInv
  BY DEF Init, EndInv, EndSeen, Ending
<1>2. IInv /\ EndInv /\ [Next]_vars => EndInv'
  BY EndStep
<1>3. ASSUME IInv, EndInv, [Next]_vars, NEW g \in Gates, Accepts(g)
      PROVE  TargetsOf(g) # {} /\ \A f \in Files : snapshot[g][f] \in during[g][f]
  <2>1. g \in Inspections
    BY DEF Inspections
  <2>2. Started(g) /\ phase[g] = "rereading" /\ todo[g] = {}
    BY <1>3, <2>1, AcceptsExits
  <2>3. QED
    BY <1>3, <2>1, <2>2 DEF IInv, Sound, HasTargets, EndInv, EndSeen
<1>4. IInv /\ EndInv /\ [Next]_vars =>
        [\A g \in Gates : Accepts(g) =>
            TargetsOf(g) # {} /\ \A f \in Files : snapshot[g][f] \in during[g][f]]_vars
  BY <1>3
<1>5. QED
  BY <1>1, <1>2, <1>4, Invariance, PTL DEF Spec, AcceptedForCurrentFiles

-----------------------------------------------------------------------------
(* The store is bounded.                                                       *)

Pruning == {b \in Inspections : phase[b] = "pruning"}

\* What any of those that are storing will leave, and what they will add.
Left(A) == DOMAIN store \ UNION {doomed[b] : b \in A}

StoreInv ==
    /\ IsFiniteSet(DOMAIN store) /\ Cardinality(Pruning) <= most
    /\ \A A \in SUBSET Pruning : Cardinality(Left(A)) + Cardinality(A) <= MaxEntries - 1 + most

\* Some of the inspections, and what some results will leave, are finitely many.
LEMMA CountsTypes ==
    ASSUME IsFiniteSet(DOMAIN store), NEW A \in SUBSET Inspections
    PROVE  /\ IsFiniteSet(A) /\ Cardinality(A) \in Nat
           /\ IsFiniteSet(Left(A)) /\ Cardinality(Left(A)) \in Nat
<1>1. IsFiniteSet(A)
  BY InspectionsFinite, FS_Subset
<1>2. IsFiniteSet(Left(A))
  BY FS_Subset DEF Left
<1>3. QED
  BY <1>1, <1>2, FS_CardinalityType

\* When the store is listed there is room for one more, or what is too old is to go.
LEMMA ExcessLeaves ==
    ASSUME IsFiniteSet(DOMAIN store), NEW old \in Excess
    PROVE  Cardinality(DOMAIN store \ old) <= MaxEntries - 1
<1>1. Cardinality(DOMAIN store) \in Nat /\ MaxEntries \in Nat \ {0}
  BY FS_CardinalityType, InspectionAssumption DEF InspectionAssumption
<1>2. CASE Cardinality(DOMAIN store) < MaxEntries
  <2>1. DOMAIN store \ old = DOMAIN store
    BY <1>2 DEF Excess
  <2>2. QED
    BY <1>1, <1>2, <2>1
<1>3. CASE ~(Cardinality(DOMAIN store) < MaxEntries)
  <2>1. Cardinality(DOMAIN store \ old) = MaxEntries - 1
    BY <1>3 DEF Excess
  <2>2. QED
    BY <1>1, <2>1
<1>4. QED
  BY <1>2, <1>3

\* Listing the store.
LEMMA BoundStore ==
    ASSUME TypeOK, StoreInv, NEW a \in Inspections, Store(a)
    PROVE  StoreInv'
<1>1. PICK old \in Excess : doomed' = [doomed EXCEPT ![a] = old]
  BY DEF Store
<1>2. /\ store' = store /\ a \notin Pruning /\ Pruning' = Pruning \cup {a}
      /\ doomed'[a] = old /\ \A b \in Inspections \ {a} : doomed'[b] = doomed[b]
  BY <1>1 DEF Store, Moves, Becomes, Pruning, TypeOK
<1>3. IsFiniteSet(DOMAIN store) /\ most \in Nat /\ MaxEntries \in Nat \ {0}
  BY InspectionAssumption DEF StoreInv, TypeOK, InspectionAssumption
<1>4. Cardinality(Pruning) \in Nat /\ Cardinality(Pruning') = Cardinality(Pruning) + 1
  BY <1>2, <1>3, CountsTypes, FS_AddElement DEF Pruning
<1>5. most' \in Nat /\ most <= most' /\ Cardinality(Pruning') <= most'
  BY <1>3, <1>4 DEF Store, Pruning
<1>6. ASSUME NEW A \in SUBSET Pruning'
      PROVE  Cardinality(Left(A)') + Cardinality(A) <= MaxEntries - 1 + most'
  <2> DEFINE rest == DOMAIN store' \ UNION {doomed'[b] : b \in A}
  <2>1. CASE a \notin A
    <3>1. A \in SUBSET Pruning /\ rest = Left(A)
      BY <1>2, <2>1 DEF Left, Pruning
    <3>2. A \in SUBSET Inspections
      BY <3>1 DEF Pruning
    <3>3. Cardinality(rest) \in Nat /\ Cardinality(A) \in Nat
      BY <1>3, <3>1, <3>2, CountsTypes
    <3>4. Cardinality(rest) + Cardinality(A) <= MaxEntries - 1 + most
      BY <3>1 DEF StoreInv
    <3>5. QED
      BY <1>3, <1>5, <3>3, <3>4 DEF Left
  <2>2. CASE a \in A
    <3>1. rest \subseteq DOMAIN store \ old
      BY <1>2, <2>2
    <3>2. IsFiniteSet(DOMAIN store \ old)
      BY <1>3, FS_Subset
    <3> HIDE DEF rest
    <3>3. /\ Cardinality(rest) \in Nat /\ Cardinality(DOMAIN store \ old) \in Nat
          /\ Cardinality(rest) <= Cardinality(DOMAIN store \ old)
      BY <3>1, <3>2, FS_Subset, FS_CardinalityType
    <3>4. Cardinality(DOMAIN store \ old) <= MaxEntries - 1
      BY <1>3, ExcessLeaves
    <3>5. /\ Cardinality(A) \in Nat /\ Cardinality(Pruning') \in Nat
          /\ Cardinality(A) <= Cardinality(Pruning')
      <4>1. Pruning' \in SUBSET Inspections /\ A \subseteq Pruning'
        BY <1>2 DEF Pruning
      <4>2. IsFiniteSet(Pruning')
        BY <4>1, InspectionsFinite, FS_Subset
      <4>3. QED
        BY <4>1, <4>2, FS_Subset, FS_CardinalityType
    <3>6. Left(A)' = rest
      BY DEF Left, rest
    <3>7. QED
      BY <1>3, <1>5, <3>3, <3>4, <3>5, <3>6
  <2>3. QED
    BY <2>1, <2>2
<1>7. QED
  BY <1>2, <1>3, <1>5, <1>6 DEF StoreInv

\* Removing one result leaves no more than was to be left.
LEMMA BoundPrune ==
    ASSUME TypeOK, StoreInv, NEW a \in Inspections, Prune(a)
    PROVE  StoreInv'
<1>1. PICK key \in doomed[a] :
          /\ doomed' = [doomed EXCEPT ![a] = @ \ {key}]
          /\ store' = [k \in DOMAIN store \ {key} |-> store[k]]
  BY DEF Prune
<1>2. /\ DOMAIN store' = DOMAIN store \ {key} /\ Pruning' = Pruning /\ most' = most
      /\ \A b \in Inspections : doomed[b] \ {key} \subseteq doomed'[b]
  BY <1>1 DEF Prune, Pruning, TypeOK
<1>3. IsFiniteSet(DOMAIN store) /\ most \in Nat /\ MaxEntries \in Nat \ {0}
  BY InspectionAssumption DEF StoreInv, TypeOK, InspectionAssumption
<1>4. IsFiniteSet(DOMAIN store')
  BY <1>2, <1>3, FS_Subset
<1>5. ASSUME NEW A \in SUBSET Pruning
      PROVE  Cardinality(Left(A)') + Cardinality(A) <= MaxEntries - 1 + most
  <2> DEFINE rest == DOMAIN store' \ UNION {doomed'[b] : b \in A}
  <2>1. A \in SUBSET Inspections
    BY DEF Pruning
  <2>2. rest \subseteq Left(A)
    BY <1>2, <2>1 DEF Left
  <2>3. Left(A)' = rest
    BY DEF Left
  <2> HIDE DEF rest
  <2>4. /\ Cardinality(Left(A)) \in Nat /\ IsFiniteSet(Left(A)) /\ Cardinality(A) \in Nat
    BY <1>3, <2>1, CountsTypes
  <2>5. Cardinality(rest) \in Nat /\ Cardinality(rest) <= Cardinality(Left(A))
    BY <2>2, <2>4, FS_Subset, FS_CardinalityType
  <2>6. Cardinality(Left(A)) + Cardinality(A) <= MaxEntries - 1 + most
    BY DEF StoreInv
  <2>7. QED
    BY <1>3, <2>3, <2>4, <2>5, <2>6
<1>6. QED
  BY <1>2, <1>4, <1>5 DEF StoreInv

\* Adding one: it had been counted with the process that adds it.
LEMMA BoundPut ==
    ASSUME TypeOK, StoreInv, NEW a \in Inspections, Put(a)
    PROVE  StoreInv'
<1>1. PICK key : DOMAIN store' \subseteq DOMAIN store \cup {key}
  BY DEF Put
<1>2. /\ a \in Pruning /\ Pruning' = Pruning \ {a} /\ most' = most /\ doomed' = doomed
      /\ doomed[a] = {}
  BY DEF Put, Moves, Becomes, Pruning, TypeOK
<1>3. IsFiniteSet(DOMAIN store) /\ most \in Nat /\ MaxEntries \in Nat \ {0}
  BY InspectionAssumption DEF StoreInv, TypeOK, InspectionAssumption
<1>4. IsFiniteSet(DOMAIN store')
  <2>1. IsFiniteSet(DOMAIN store \cup {key})
    BY <1>3, FS_AddElement
  <2>2. QED
    BY <1>1, <2>1, FS_Subset
<1>5. Cardinality(Pruning') <= most
  <2>1. Pruning' \subseteq Pruning /\ Pruning \in SUBSET Inspections
    BY <1>2 DEF Pruning
  <2>2. IsFiniteSet(Pruning) /\ Cardinality(Pruning) \in Nat /\ Cardinality(Pruning) <= most
    BY <1>3, <2>1, CountsTypes DEF StoreInv
  <2>3. Cardinality(Pruning') \in Nat /\ Cardinality(Pruning') <= Cardinality(Pruning)
    BY <2>1, <2>2, FS_Subset, FS_CardinalityType
  <2>4. QED
    BY <1>3, <2>2, <2>3
<1>6. ASSUME NEW A \in SUBSET (Pruning \ {a})
      PROVE  Cardinality(Left(A)') + Cardinality(A) <= MaxEntries - 1 + most
  <2> DEFINE rest == DOMAIN store' \ UNION {doomed'[b] : b \in A}
             with == A \cup {a}
  <2>1. with \in SUBSET Pruning /\ with \in SUBSET Inspections /\ A \in SUBSET Inspections
    BY <1>2 DEF Pruning
  <2>2. Left(with) = Left(A)
    BY <1>2 DEF Left
  <2>3. rest \subseteq Left(A) \cup {key}
    BY <1>1, <1>2 DEF Left
  <2>4. Left(A)' = rest
    BY DEF Left
  <2>5. a \notin A
    OBVIOUS
  <2>6. IsFiniteSet(Left(A)) /\ Cardinality(Left(A)) \in Nat
        /\ IsFiniteSet(A) /\ Cardinality(A) \in Nat
    BY <1>3, <2>1, CountsTypes
  <2>7. Cardinality(with) = Cardinality(A) + 1
    BY <2>5, <2>6, FS_AddElement
  <2>8. Cardinality(Left(with)) + Cardinality(with) <= MaxEntries - 1 + most
    BY <2>1 DEF StoreInv
  <2> HIDE DEF rest, with
  <2>9. /\ IsFiniteSet(Left(A) \cup {key})
        /\ Cardinality(Left(A) \cup {key}) \in Nat
        /\ Cardinality(Left(A) \cup {key}) <= Cardinality(Left(A)) + 1
    <3>1. /\ IsFiniteSet(Left(A) \cup {key})
          /\ Cardinality(Left(A) \cup {key}) =
                IF key \in Left(A) THEN Cardinality(Left(A)) ELSE Cardinality(Left(A)) + 1
      BY <2>6, FS_AddElement
    <3>2. QED
      BY <2>6, <3>1
  <2>10. Cardinality(rest) \in Nat /\ Cardinality(rest) <= Cardinality(Left(A) \cup {key})
    BY <2>3, <2>9, FS_Subset, FS_CardinalityType
  <2>11. QED
    BY <1>3, <2>2, <2>4, <2>6, <2>7, <2>8, <2>9, <2>10
<1>7. QED
  BY <1>2, <1>4, <1>5, <1>6 DEF StoreInv

\* No other step has to do with the store.
LEMMA BoundOthers ==
    ASSUME TypeOK, StoreInv, [Next]_vars,
           ~\E a \in Inspections : Store(a) \/ Prune(a) \/ Put(a)
    PROVE  StoreInv'
<1>1. /\ store' = store /\ doomed' = doomed /\ most' = most
      /\ \A b \in Inspections : phase'[b] = "pruning" <=> phase[b] = "pruning"
  <2>1. CASE UNCHANGED vars \/ AllEnded \/ EditText \/ EditDictionary
    BY <2>1 DEF vars, AllEnded, EditText, EditDictionary
  <2>2. ASSUME NEW a \in Inspections, NEW outcome \in Ended, Ends(a, outcome),
               phase[a] # "pruning"
        PROVE  /\ store' = store /\ doomed' = doomed /\ most' = most
               /\ \A b \in Inspections : phase'[b] = "pruning" <=> phase[b] = "pruning"
    BY <2>2 DEF Ends, Becomes, Ended, TypeOK
  <2>3. ASSUME NEW a \in Inspections,
               \/ Prepare(a) \/ Start(a) \/ AllRead(a) \/ LookUp(a) \/ LookedUp(a)
               \/ Inspect(a) \/ Inspected(a) \/ Write(a)
        PROVE  /\ store' = store /\ doomed' = doomed /\ most' = most
               /\ \A b \in Inspections : phase'[b] = "pruning" <=> phase[b] = "pruning"
    BY <2>3 DEF Prepare, Start, AllRead, LookUp, LookedUp, Inspect, Inspected, Write, Moves,
                Becomes, TypeOK
  <2>4. ASSUME NEW a \in Inspections, ~Ends(a, "refused"),
               List(a) \/ Read(a) \/ Recheck(a) \/ Relist(a) \/ Reread(a)
        PROVE  /\ store' = store /\ doomed' = doomed /\ most' = most
               /\ \A b \in Inspections : phase'[b] = "pruning" <=> phase[b] = "pruning"
    BY <2>4 DEF List, Read, Recheck, Relist, Reread, Becomes, TypeOK
  <2>5. ASSUME NEW a \in Inspections, Ends(a, "refused"),
               List(a) \/ Read(a) \/ Recheck(a) \/ Relist(a) \/ Reread(a)
        PROVE  phase[a] # "pruning"
    BY <2>5 DEF List, Read, Recheck, Relist, Reread
  <2>6. ASSUME NEW a \in Inspections, CannotPrepare(a) \/ Finish(a) \/ Decide(a)
        PROVE  phase[a] # "pruning" /\ \E outcome \in Ended : Ends(a, outcome)
    BY <2>6 DEF CannotPrepare, Finish, Decide, Ended
  <2>7. QED
    BY <2>1, <2>2, <2>3, <2>4, <2>5, <2>6 DEF Next, Ended
<1>2. Pruning' = Pruning
  BY <1>1 DEF Pruning
<1>3. \A A : Left(A)' = DOMAIN store \ UNION {doomed[b] : b \in A}
  BY <1>1 DEF Left
<1>4. QED
  BY <1>1, <1>2, <1>3 DEF StoreInv, Left

\* Whoever stores at the same time, the store outgrows its limit by no more than
\* they are, less one.
THEOREM StoreBoundedAlways == Spec => []StoreBounded
<1>1. Init => StoreInv
  <2> SUFFICES ASSUME Init PROVE StoreInv
    OBVIOUS
  <2>1. DOMAIN store = {} /\ Pruning = {} /\ most = 0
    BY DEF Init, Pruning
  <2>2. IsFiniteSet({}) /\ Cardinality({}) = 0
    BY FS_EmptySet
  <2>3. \A A \in SUBSET Pruning : A = {} /\ Left(A) = {}
    BY <2>1 DEF Left
  <2>4. MaxEntries \in Nat \ {0}
    BY InspectionAssumption DEF InspectionAssumption
  <2>5. QED
    BY <2>1, <2>2, <2>3, <2>4 DEF StoreInv
<1>2. IInv /\ StoreInv /\ [Next]_vars => StoreInv'
  BY BoundStore, BoundPrune, BoundPut, BoundOthers DEF IInv
<1>3. StoreInv => StoreBounded
  <2>1. Left({}) = DOMAIN store /\ Cardinality({}) = 0
    BY FS_EmptySet DEF Left
  <2>2. ASSUME StoreInv
        PROVE  Cardinality(Left({})) + 0 <= MaxEntries - 1 + most
    BY <2>1, <2>2 DEF StoreInv
  <2>3. ASSUME StoreInv
        PROVE  Cardinality(DOMAIN store) \in Nat
    BY <2>3, FS_CardinalityType DEF StoreInv
  <2>4. QED
    BY <2>1, <2>2, <2>3 DEF StoreBounded
<1>4. QED
  BY <1>1, <1>2, <1>3, Invariance, PTL DEF Spec
=============================================================================
