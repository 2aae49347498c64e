------------------------- MODULE CaseResourcesProofs -------------------------
(* Proofs about CaseResources and the decision of ResourceReconciliation, for  *)
(* any pids, which are given again when they are free, any attributes recorded *)
(* of a server, and any number of starts and restarts.                         *)
EXTENDS CaseResources, FiniteSetTheorems, TLAPS

-----------------------------------------------------------------------------
(* The type invariant, and what an entry of each kind looks like.              *)

ServerKeys == {"pid", "commandLine", "cwd", "startedAt", "listenPort"}

EntryFields == {"id", "place", "ids", "owner", "collected", "basis", "allowedPlace"}

\* What the entry of a kind says of its resource.
ServerEntry(e) ==
    /\ e.place = Dir /\ e.owner = "child"
    /\ DOMAIN e.ids \subseteq ServerKeys
    /\ "pid" \in DOMAIN e.ids => e.ids["pid"] \in Pids
    /\ "commandLine" \in DOMAIN e.ids => e.ids["commandLine"] = Commands["child"]
    /\ "listenPort" \in DOMAIN e.ids => e.ids["listenPort"] = Port
RemoteEntry(e) ==
    /\ e.place = Url /\ e.owner = "child" /\ DOMAIN e.ids = {"url"}
UnitsEntry(e) ==
    /\ e.place \in {UnitDir, Old} /\ e.owner = "unit" /\ DOMAIN e.ids = {"pid", "commandLine"}
    /\ e.ids["commandLine"] = Commands["unit"]

EntriesInv ==
    /\ \A e \in entries : /\ e.id = "server" => ServerEntry(e)
                          /\ e.id = "remote" => RemoteEntry(e)
                          /\ e.id = "unit" => UnitsEntry(e)
                          /\ e.id \in {"server", "remote", "unit"}
                          /\ DOMAIN e = EntryFields /\ DOMAIN e.ids # {} /\ e.collected \in BOOLEAN
    /\ \A e, f \in entries : e.id = f.id => e = f

\* The time at which a process started is its own; a process that stands for an entry is
\* one of its owner's; one that names the machine as its parent was there before it.
ProcessInv ==
    /\ DOMAIN running \subseteq Pids /\ clock \in Nat
    /\ \A p \in DOMAIN running :
          /\ running[p] \in [who : Owners, since : Nat, parent : {None, Self}]
          /\ running[p].parent = Self => running[p].since < SelfStart
          /\ running[p].since < clock
    /\ \A p, q \in DOMAIN running : running[p].since = running[q].since => p = q
    /\ DOMAIN incarnations = {e.id : e \in entries}
    /\ \A id \in DOMAIN incarnations : \A t \in incarnations[id] : t \in Nat /\ t < clock
    /\ "remote" \in DOMAIN incarnations => incarnations["remote"] = {}
    /\ "server" \in DOMAIN incarnations =>
          \A p \in DOMAIN running : running[p].since \in incarnations["server"] => running[p].who = "child"

IInv ==
    /\ places \subseteq Places /\ declared \in BOOLEAN
    /\ DOMAIN confirmations \subseteq {e.id : e \in entries}
    /\ EntriesInv /\ ProcessInv

\* Steps that leave the ledger alone.
LEMMA LedgerStays ==
    ASSUME IInv, UNCHANGED <<entries, confirmations, declared>>, ProcessInv',
           places' \subseteq Places
    PROVE  IInv'
<1>1. EntriesInv'
    BY DEF IInv, EntriesInv, ServerEntry, RemoteEntry, UnitsEntry
<1>2. QED
    BY <1>1 DEF IInv

LEMMA PlacesMove ==
    ASSUME IInv, NEW place \in Places, Make(place) \/ Remove(place)
    PROVE  IInv'
<1>1. ProcessInv'
    <2>1. UNCHANGED <<running, clock, entries, incarnations>>
        BY DEF Make, Remove
    <2>2. QED
        BY <2>1 DEF IInv, ProcessInv
<1>2. places' \subseteq Places /\ UNCHANGED <<entries, confirmations, declared, incarnations>>
    BY DEF Make, Remove, IInv, Places
<1>3. QED
    BY <1>1, <1>2, LedgerStays

\* A process that starts, in the place of another one or not, and what it stands for.
LEMMA Moved ==
    ASSUME ProcessInv, NEW p \in Pids, NEW process, NEW rest, rest \subseteq DOMAIN running \ {p},
           process \in [who : Owners, since : Nat, parent : {None, Self}], process.since = clock,
           process.parent = Self => process.since < SelfStart,
           DOMAIN running' = {p} \cup rest,
           \A q \in DOMAIN running' : running'[q] = IF q = p THEN process ELSE running[q],
           clock' = clock + 1, UNCHANGED entries,
           DOMAIN incarnations' = DOMAIN incarnations,
           \A id \in DOMAIN incarnations :
               \/ incarnations'[id] = incarnations[id]
               \/ /\ incarnations'[id] = incarnations[id] \cup {clock}
                  /\ id = "server" => process.who = "child"
                  /\ id # "remote"
    PROVE  ProcessInv'
<1>1. clock \in Nat /\ clock' \in Nat /\ clock < clock' /\ clock' = clock + 1
    BY DEF ProcessInv
<1>2. /\ running'[p] = process
      /\ \A q \in rest : q # p /\ q \in DOMAIN running /\ running'[q] = running[q]
    OBVIOUS
<1>3. \A q \in rest : running[q].since \in Nat /\ running[q].since < clock
    BY <1>2 DEF ProcessInv
<1>4. DOMAIN running' \subseteq Pids
    BY DEF ProcessInv
<1>5. ASSUME NEW q \in DOMAIN running'
      PROVE  /\ running'[q] \in [who : Owners, since : Nat, parent : {None, Self}]
             /\ running'[q].parent = Self => running'[q].since < SelfStart
             /\ running'[q].since < clock'
    <2>1. CASE q = p
        BY <1>1, <1>2, <2>1
    <2>2. CASE q \in rest
        BY <1>1, <1>2, <1>3, <2>2 DEF ProcessInv
    <2>3. QED
        BY <2>1, <2>2
<1>6. ASSUME NEW q \in DOMAIN running', NEW r \in DOMAIN running', running'[q].since = running'[r].since
      PROVE  q = r
    <2>1. \A x \in rest : running'[x].since # clock
        BY <1>1, <1>2, <1>3
    <2>2. q = p <=> r = p
        BY <1>2, <1>6, <2>1
    <2>3. CASE q \in rest /\ r \in rest
        BY <1>2, <1>6, <2>3 DEF ProcessInv
    <2>4. QED
        BY <2>2, <2>3
<1>7. \A id \in DOMAIN incarnations' : \A t \in incarnations'[id] : t \in Nat /\ t < clock'
    <2> SUFFICES ASSUME NEW id \in DOMAIN incarnations, NEW t \in incarnations'[id]
                 PROVE  t \in Nat /\ t < clock'
        OBVIOUS
    <2>1. t = clock \/ t \in incarnations[id]
        OBVIOUS
    <2>2. t \in incarnations[id] => t \in Nat /\ t < clock
        BY DEF ProcessInv
    <2>3. QED
        BY <1>1, <2>1, <2>2
<1>8. "remote" \in DOMAIN incarnations' => incarnations'["remote"] = {}
    BY DEF ProcessInv
<1>9. ASSUME "server" \in DOMAIN incarnations', NEW q \in DOMAIN running',
             running'[q].since \in incarnations'["server"]
      PROVE  running'[q].who = "child"
    <2>1. CASE q = p
        <3>1. clock \notin incarnations["server"]
            BY <1>1, <1>9 DEF ProcessInv
        <3>2. QED
            BY <1>2, <1>9, <2>1, <3>1
    <2>2. CASE q \in rest
        <3>1. running[q].since # clock
            BY <1>1, <1>3, <2>2
        <3>2. running[q].since \in incarnations["server"]
            BY <1>2, <1>9, <2>2, <3>1
        <3>3. QED
            BY <1>2, <1>9, <2>2, <3>2 DEF ProcessInv
    <2>3. QED
        BY <2>1, <2>2
<1>10. DOMAIN incarnations' = {e.id : e \in entries'}
    BY DEF ProcessInv
<1>11. QED
    BY <1>1, <1>4, <1>5, <1>6, <1>7, <1>8, <1>9, <1>10 DEF ProcessInv

LEMMA StartKeeps ==
    ASSUME IInv, NEW who \in Owners, NEW p \in Pids, Start(who, p)
    PROVE  IInv'
<1>1. PICK parent \in {None} \cup {x \in {Self} : clock < SelfStart} :
          running' = With(p, [who |-> who, since |-> clock, parent |-> parent], DOMAIN running)
    BY DEF Start
<1> DEFINE new == [who |-> who, since |-> clock, parent |-> parent]
<1>2. p \notin DOMAIN running /\ clock' = clock + 1 /\ clock \in Nat
      /\ UNCHANGED <<places, entries, confirmations, declared, incarnations>>
    BY DEF Start, MayTake, IInv, ProcessInv
<1>3. DOMAIN running' = DOMAIN running \cup {p}
      /\ \A q \in DOMAIN running' : running'[q] = IF q = p THEN new ELSE running[q]
    BY <1>1 DEF With
<1>4. new \in [who : Owners, since : Nat, parent : {None, Self}] /\ new.since = clock
      /\ (new.parent = Self => new.since < SelfStart)
    BY <1>1, <1>2, ResourcesAssumption
<1> HIDE DEF new
<1>5. ProcessInv'
    BY <1>2, <1>3, <1>4, Moved DEF IInv
<1>6. QED
    BY <1>2, <1>5, LedgerStays DEF IInv

LEMMA StopKeeps ==
    ASSUME IInv, NEW p \in Pids, Stop(p)
    PROVE  IInv'
<1>1. ProcessInv'
    BY DEF IInv, ProcessInv, Stop
<1>2. UNCHANGED <<places, entries, confirmations, declared, incarnations>>
    BY DEF Stop
<1>3. QED
    BY <1>1, <1>2, LedgerStays DEF IInv

\* A restarted process stands for the entries that the old one stood for.
LEMMA RestartKeeps ==
    ASSUME IInv, NEW p \in Pids, NEW new \in Pids, Restart(p, new)
    PROVE  IInv'
<1> DEFINE process == [running[p] EXCEPT !.since = clock, !.parent = IF clock < SelfStart THEN @ ELSE None]
           rest    == DOMAIN running \ {p}
<1>1. p \in DOMAIN running /\ new \notin rest /\ clock' = clock + 1 /\ clock \in Nat
      /\ UNCHANGED <<places, entries, confirmations, declared>>
    BY DEF Restart, MayTake, IInv, ProcessInv
<1>2. SelfStart \in Nat /\ None # Self
    BY ResourcesAssumption
<1>3. DOMAIN running' = {new} \cup rest
      /\ \A q \in DOMAIN running' : running'[q] = IF q = new THEN process ELSE running[q]
    BY DEF Restart, With
<1>4. running[p] \in [who : Owners, since : Nat, parent : {None, Self}]
    BY <1>1 DEF IInv, ProcessInv
<1>5. process \in [who : Owners, since : Nat, parent : {None, Self}] /\ process.who = running[p].who
      /\ process.since = clock
    BY <1>1, <1>2, <1>4
<1>6. process.parent = Self => process.since < SelfStart
    <2>1. process.parent = IF clock < SelfStart THEN running[p].parent ELSE None
        BY <1>4
    <2>2. QED
        BY <1>2, <1>5, <2>1
<1>7. incarnations' = [id \in DOMAIN incarnations |->
                           incarnations[id] \cup {x \in {clock} : running[p].since \in incarnations[id]}]
    BY DEF Restart
<1> HIDE DEF process
<1>8. ASSUME NEW id \in DOMAIN incarnations
      PROVE  \/ incarnations'[id] = incarnations[id]
             \/ /\ incarnations'[id] = incarnations[id] \cup {clock}
                /\ id = "server" => process.who = "child"
                /\ id # "remote"
    <2>1. CASE running[p].since \notin incarnations[id]
        BY <1>7, <2>1
    <2>2. CASE running[p].since \in incarnations[id]
        <3>1. incarnations'[id] = incarnations[id] \cup {clock}
            BY <1>7, <2>2
        <3>2. id = "server" => running[p].who = "child"
            BY <1>1, <2>2 DEF IInv, ProcessInv
        <3>3. id # "remote"
            BY <2>2 DEF IInv, ProcessInv
        <3>4. QED
            BY <1>5, <3>1, <3>2, <3>3
    <2>3. QED
        BY <2>1, <2>2
<1>9. ProcessInv'
    <2>1. rest \subseteq DOMAIN running \ {new} /\ ProcessInv
        BY <1>1 DEF IInv
    <2>2. DOMAIN incarnations' = DOMAIN incarnations
        BY <1>7
    <2> HIDE DEF rest
    <2>3. QED
        BY <1>1, <1>3, <1>5, <1>6, <1>8, <2>1, <2>2, Moved
<1>10. QED
    BY <1>1, <1>9, LedgerStays DEF IInv

LEMMA RegisterKeeps ==
    ASSUME IInv, NEW kind \in Kinds, NEW keys \in KeysOf(kind), Register(kind, keys)
    PROVE  IInv'
<1>1. PICK p \in IF kind = "server" THEN {q \in DOMAIN running : running[q].who = "child"} ELSE {None} :
          LET value == [url |-> Url, pid |-> p, commandLine |-> Commands["child"], cwd |-> Dir,
                        listenPort |-> Port, startedAt |-> IF p = None THEN 0 ELSE running[p].since]
              place == IF kind = "remote" THEN Url ELSE Dir
          IN  /\ entries' = entries \cup
                    {[id |-> kind, place |-> place,
                      ids |-> [k \in keys |-> value[k]], owner |-> "child", collected |-> FALSE,
                      basis |-> IF place \in places \ Urls THEN "occurrence" ELSE "creation",
                      allowedPlace |-> place \notin places \ Urls]}
              /\ incarnations' = [id \in DOMAIN incarnations \cup {kind} |->
                                     IF id # kind THEN incarnations[id]
                                     ELSE {running[q].since : q \in {p} \ {None}}]
    BY DEF Register
<1>2. PICK entry :
          /\ entries' = entries \cup {entry} /\ DOMAIN entry = EntryFields
          /\ entry.id = kind /\ entry.owner = "child" /\ entry.collected = FALSE
          /\ entry.place = (IF kind = "remote" THEN Url ELSE Dir)
          /\ DOMAIN entry.ids = keys
          /\ "pid" \in keys => entry.ids["pid"] = p
          /\ "commandLine" \in keys => entry.ids["commandLine"] = Commands["child"]
          /\ "listenPort" \in keys => entry.ids["listenPort"] = Port
    <2> DEFINE value == [url |-> Url, pid |-> p, commandLine |-> Commands["child"], cwd |-> Dir,
                         listenPort |-> Port, startedAt |-> IF p = None THEN 0 ELSE running[p].since]
               place == IF kind = "remote" THEN Url ELSE Dir
               entry == [id |-> kind, place |-> place,
                         ids |-> [k \in keys |-> value[k]], owner |-> "child", collected |-> FALSE,
                         basis |-> IF place \in places \ Urls THEN "occurrence" ELSE "creation",
                         allowedPlace |-> place \notin places \ Urls]
    <2>1. /\ entry.id = kind /\ entry.place = place /\ entry.owner = "child" /\ entry.collected = FALSE
          /\ DOMAIN entry.ids = keys /\ \A k \in keys : entry.ids[k] = value[k]
        OBVIOUS
    <2>2. DOMAIN entry = EntryFields
        BY DEF EntryFields
    <2>3. /\ value["pid"] = p /\ value["commandLine"] = Commands["child"] /\ value["listenPort"] = Port
        OBVIOUS
    <2>4. entries' = entries \cup {entry}
        BY <1>1
    <2> HIDE DEF entry, value
    <2>5. QED
        BY <2>1, <2>2, <2>3, <2>4
<1>3. /\ \A e \in entries : e.id # kind
      /\ keys # {} /\ kind \in {"server", "remote"}
      /\ UNCHANGED <<places, running, clock, confirmations, declared>>
    BY DEF Register, IdsAllowed, Kinds
<1>4. kind \notin DOMAIN incarnations
    BY <1>3 DEF IInv, ProcessInv
<1>5. incarnations' = [id \in DOMAIN incarnations \cup {kind} |->
                           IF id # kind THEN incarnations[id]
                                     ELSE {running[q].since : q \in {p} \ {None}}]
    BY <1>1
<1>6. incarnations'[kind] = {running[q].since : q \in {p} \ {None}}
    BY <1>5
<1>7. kind = "server" => p \in DOMAIN running /\ p \in Pids /\ p # None /\ running[p].who = "child"
    BY <1>1, ResourcesAssumption DEF IInv, ProcessInv
<1>8. kind = "remote" => p = None /\ keys = {"url"}
    BY <1>1, <1>3 DEF KeysOf
<1>9. kind = "server" => keys \subseteq ServerKeys
    BY ResourcesAssumption DEF KeysOf, ServerKeys
<1>10. kind = "server" => ServerEntry(entry)'
    BY <1>2, <1>7, <1>9 DEF ServerEntry
<1>11. kind = "remote" => RemoteEntry(entry)'
    BY <1>2, <1>8 DEF RemoteEntry
<1>12. EntriesInv'
    <2>1. ASSUME NEW e \in entries
          PROVE  /\ e.id = "server" => ServerEntry(e)'
                 /\ e.id = "remote" => RemoteEntry(e)'
                 /\ e.id = "unit" => UnitsEntry(e)'
        BY DEF IInv, EntriesInv, ServerEntry, RemoteEntry, UnitsEntry
    <2>3. entry.id = "server" => ServerEntry(entry)'
        BY <1>2, <1>10
    <2>4. entry.id = "remote" => RemoteEntry(entry)'
        BY <1>2, <1>11
    <2>5. entry.id \in {"server", "remote"} /\ DOMAIN entry.ids # {} /\ entry.collected \in BOOLEAN
          /\ (\A e \in entries : e.id # entry.id) /\ DOMAIN entry = EntryFields
        BY <1>2, <1>3
    <2>6. QED
        BY <1>2, <2>1, <2>3, <2>4, <2>5 DEF IInv, EntriesInv
<1>13. ProcessInv'
    <2>1. DOMAIN incarnations' = {e.id : e \in entries'}
        BY <1>2, <1>5 DEF IInv, ProcessInv
    <2>2. ASSUME kind = "server"
          PROVE  incarnations'[kind] = {running[p].since}
        BY <1>6, <1>7, <2>2
    <2>3. ASSUME kind = "remote"
          PROVE  incarnations'[kind] = {}
        BY <1>6, <1>8, <2>3
    <2>4. \A id \in DOMAIN incarnations : incarnations'[id] = incarnations[id]
        BY <1>4, <1>5
    <2>5. \A id \in DOMAIN incarnations' : \A t \in incarnations'[id] : t \in Nat /\ t < clock'
        <3>1. \A t \in incarnations'[kind] : t \in Nat /\ t < clock
            BY <1>3, <1>7, <2>2, <2>3 DEF IInv, ProcessInv
        <3>2. \A id \in DOMAIN incarnations : \A t \in incarnations'[id] : t \in Nat /\ t < clock
            BY <2>4 DEF IInv, ProcessInv
        <3>3. DOMAIN incarnations' = DOMAIN incarnations \cup {kind}
            BY <1>5
        <3>4. QED
            BY <1>3, <3>1, <3>2, <3>3
    <2>6. "remote" \in DOMAIN incarnations' => incarnations'["remote"] = {}
        BY <1>5, <2>3, <2>4 DEF IInv, ProcessInv
    <2>7. ASSUME "server" \in DOMAIN incarnations', NEW q \in DOMAIN running,
                 running[q].since \in incarnations'["server"]
          PROVE  running[q].who = "child"
        <3>1. CASE kind = "server"
            BY <1>7, <2>2, <2>7, <3>1 DEF IInv, ProcessInv
        <3>2. CASE kind # "server"
            BY <1>5, <2>4, <2>7, <3>2 DEF IInv, ProcessInv
        <3>3. QED
            BY <3>1, <3>2
    <2>8. QED
        BY <1>3, <2>1, <2>5, <2>6, <2>7 DEF IInv, ProcessInv
<1>14. DOMAIN confirmations' \subseteq {e.id : e \in entries'}
    BY <1>2, <1>3 DEF IInv
<1>15. QED
    BY <1>3, <1>12, <1>13, <1>14 DEF IInv

LEMMA ConfirmKeeps ==
    ASSUME IInv, NEW e \in entries, NEW keys, Confirm(e, keys)
    PROVE  IInv'
<1>1. DOMAIN confirmations' = DOMAIN confirmations \cup {e.id}
      /\ UNCHANGED <<places, running, clock, entries, declared, incarnations>>
    BY DEF Confirm
<1>2. EntriesInv' /\ ProcessInv'
    BY <1>1 DEF IInv, EntriesInv, ProcessInv, ServerEntry, RemoteEntry, UnitsEntry
<1>3. QED
    BY <1>1, <1>2 DEF IInv

\* An entry that is marked as collected says the same otherwise.
LEMMA CollectKeeps ==
    ASSUME IInv, NEW e \in entries, Collect(e)
    PROVE  IInv'
<1>1. DOMAIN e = EntryFields
    BY DEF IInv, EntriesInv
<1>2. PICK marked : /\ entries' = (entries \ {e}) \cup {marked} /\ DOMAIN marked = EntryFields
                    /\ marked.id = e.id /\ marked.place = e.place /\ marked.owner = e.owner
                    /\ marked.ids = e.ids /\ marked.collected = TRUE
    <2> DEFINE marked == [e EXCEPT !.collected = TRUE]
    <2>1. /\ DOMAIN marked = EntryFields
          /\ marked.id = e.id /\ marked.place = e.place /\ marked.owner = e.owner
          /\ marked.ids = e.ids /\ marked.collected = TRUE
        BY <1>1 DEF EntryFields
    <2>2. entries' = (entries \ {e}) \cup {marked}
        BY DEF Collect
    <2> HIDE DEF marked
    <2>3. QED
        BY <2>1, <2>2
<1>3. UNCHANGED <<places, running, clock, confirmations, declared, incarnations>>
    BY DEF Collect
<1>4. ASSUME NEW x \in entries
      PROVE  /\ x.id = "server" => ServerEntry(x)'
             /\ x.id = "remote" => RemoteEntry(x)'
             /\ x.id = "unit" => UnitsEntry(x)'
    BY <1>3 DEF IInv, EntriesInv, ServerEntry, RemoteEntry, UnitsEntry
<1>5. /\ marked.id = "server" => ServerEntry(marked)'
      /\ marked.id = "remote" => RemoteEntry(marked)'
      /\ marked.id = "unit" => UnitsEntry(marked)'
    <2>1. /\ marked.id = "server" => ServerEntry(e)'
          /\ marked.id = "remote" => RemoteEntry(e)'
          /\ marked.id = "unit" => UnitsEntry(e)'
        BY <1>2, <1>4
    <2>2. QED
        BY <1>2, <2>1 DEF ServerEntry, RemoteEntry, UnitsEntry
<1>6. EntriesInv'
    <2>1. \A x \in entries \ {e} : x.id # marked.id
        BY <1>2 DEF IInv, EntriesInv
    <2>2. \A x, y \in entries' : x.id = y.id => x = y
        BY <1>2, <2>1 DEF IInv, EntriesInv
    <2>3. /\ marked.id \in {"server", "remote", "unit"} /\ DOMAIN marked = EntryFields
          /\ DOMAIN marked.ids # {} /\ marked.collected \in BOOLEAN
        BY <1>2 DEF IInv, EntriesInv
    <2>4. QED
        BY <1>2, <1>4, <1>5, <2>2, <2>3 DEF IInv, EntriesInv
<1>7. {x.id : x \in entries'} = {x.id : x \in entries}
    BY <1>2
<1>8. ProcessInv' /\ DOMAIN confirmations' \subseteq {x.id : x \in entries'}
    BY <1>3, <1>7 DEF IInv, ProcessInv
<1>9. QED
    BY <1>3, <1>6, <1>8 DEF IInv

LEMMA IInvInit == Init => IInv
<1> SUFFICES ASSUME Init PROVE IInv
    OBVIOUS
<1>1. places \subseteq Places /\ declared \in BOOLEAN /\ confirmations = <<>> /\ DOMAIN confirmations = {}
    BY DEF Init, Places
<1>2. CASE running = <<>> /\ clock = 0 /\ entries = {} /\ incarnations = <<>>
    <2>1. DOMAIN running = {} /\ DOMAIN incarnations = {}
        BY <1>2
    <2>2. QED
        BY <1>1, <1>2, <2>1 DEF IInv, EntriesInv, ProcessInv
<1>3. ASSUME NEW p \in Pids, NEW place \in {UnitDir, Old},
             running = [q \in {p} |-> [who |-> "unit", since |-> 0, parent |-> None]],
             clock = 1, entries = {UnitEntry(p, place)}, incarnations = [id \in {"unit"} |-> {0}]
      PROVE  IInv
    <2> DEFINE entry == UnitEntry(p, place)
    <2>1. /\ entry.id = "unit" /\ entry.place = place /\ entry.owner = "unit"
          /\ entry.collected = FALSE /\ DOMAIN entry = EntryFields
          /\ DOMAIN entry.ids = {"pid", "commandLine"}
          /\ entry.ids["commandLine"] = Commands["unit"]
        BY DEF UnitEntry, EntryFields
    <2> HIDE DEF entry
    <2>2. UnitsEntry(entry) /\ entries = {entry}
        BY <1>3, <2>1 DEF UnitsEntry, entry
    <2>3. EntriesInv
        BY <2>1, <2>2 DEF EntriesInv
    <2>4. None # Self
        BY ResourcesAssumption
    <2>5. ProcessInv
        <3>1. DOMAIN running = {p} /\ running[p] = [who |-> "unit", since |-> 0, parent |-> None]
            BY <1>3
        <3>2. DOMAIN incarnations = {"unit"} /\ incarnations["unit"] = {0}
            BY <1>3
        <3>3. {e.id : e \in entries} = {"unit"}
            BY <2>1, <2>2
        <3>4. QED
            BY <1>3, <2>4, <3>1, <3>2, <3>3 DEF ProcessInv, Owners
    <2>6. QED
        BY <1>1, <2>3, <2>5 DEF IInv
<1>4. QED
    BY <1>2, <1>3 DEF Init

LEMMA IInvNext == ASSUME IInv, [Next]_vars PROVE IInv'
<1>1. CASE UNCHANGED vars
    BY <1>1 DEF vars, IInv, EntriesInv, ProcessInv, ServerEntry, RemoteEntry, UnitsEntry
<1>2. QED
    BY <1>1, PlacesMove, StartKeeps, StopKeeps, RestartKeeps, RegisterKeeps, ConfirmKeeps, CollectKeeps
    DEF Next

LEMMA IInvAlways == Spec => []IInv
BY IInvInit, IInvNext, PTL DEF Spec

\* Every reachable state of machine and ledger is well typed.
THEOREM TypeCorrect == Spec => []TypeOK
<1>1. IInv => TypeOK
    BY DEF IInv, EntriesInv, ProcessInv, TypeOK
<1>2. QED
    BY <1>1, IInvAlways, PTL

-----------------------------------------------------------------------------
(* What the machine sees of a case that has left something.                    *)

\* The step judges the case by what was observed, with nothing failed.
Seen(readable, looked) == Observed(readable, looked, {})
Judge == Check(Others)

LEMMA SeenProcess ==
    ASSUME IInv, NEW readable, NEW looked, NEW p \in DOMAIN running
    PROVE  /\ p \in LivePids(Seen(readable, looked))
           /\ Seen(readable, looked).processes[p].parent = running[p].parent
           /\ DOMAIN Seen(readable, looked).processes[p].seen = readable
           /\ "commandLine" \in readable =>
                 Seen(readable, looked).processes[p].seen["commandLine"] = Commands[running[p].who]
           /\ "cwd" \in readable => Seen(readable, looked).processes[p].seen["cwd"] = Cwds[running[p].who]
           /\ "startedAt" \in readable =>
                 Seen(readable, looked).processes[p].seen["startedAt"] = running[p].since
<1>1. p # Self /\ p # Probe
    BY ResourcesAssumption DEF IInv, ProcessInv
<1> DEFINE who  == running[p].who
           seen == [k \in readable |->
                       CASE k = "commandLine" -> IF who = "machine" THEN "close" ELSE Commands[who]
                         [] k = "cwd" -> IF who = "machine" THEN Elsewhere ELSE Cwds[who]
                         [] k = "startedAt" -> running[p].since]
<1>2. running[p].who \in Owners /\ running[p].who # "machine"
    BY DEF IInv, ProcessInv, Owners
<1>3. ProcessOf(p, readable) = [alive |-> TRUE, parent |-> running[p].parent, seen |-> seen]
    BY <1>1 DEF ProcessOf
<1>4. p \in DOMAIN Seen(readable, looked).processes
      /\ Seen(readable, looked).processes[p] = ProcessOf(p, readable)
    BY DEF Seen, Observed
<1>5. DOMAIN seen = readable
      /\ ("commandLine" \in readable => seen["commandLine"] = Commands[running[p].who])
      /\ ("cwd" \in readable => seen["cwd"] = Cwds[running[p].who])
      /\ ("startedAt" \in readable => seen["startedAt"] = running[p].since)
    BY <1>2
<1> HIDE DEF seen
<1>6. QED
    BY <1>3, <1>4, <1>5 DEF LivePids

LEMMA JudgeIs ==
    /\ Judge.issue = "child" /\ Judge.declared = declared /\ Judge.self = Self
    /\ Judge.residues = {[place |-> Old, ids |-> <<>>]}
    /\ Judge.grounds = {[key |-> "pid", value |-> p] : p \in Others}
BY DEF Judge, Check

LEMMA SeenIs ==
    ASSUME NEW readable, NEW looked
    PROVE  LET obs == Seen(readable, looked)
           IN  /\ obs.exists = places \ Urls /\ obs.remotes = {} /\ obs.excluded = {}
               /\ obs.absence = [url \in Urls |-> url \notin places]
               /\ DOMAIN obs.processes = DOMAIN running \cup {Self, Probe} \cup looked
               /\ obs.files = {[path |-> place,
                                source |-> IF place = Dir THEN "dedicated-area" ELSE "os-temp-area",
                                ground |-> None] : place \in places \ Urls}
BY DEF Seen, Observed

\* An entry of the child whose resource is not seen to be absent keeps the step from
\* passing.
LEMMA Unsettled ==
    ASSUME NEW readable, NEW looked, NEW e \in Childs,
           Presence(e, Attributed(e, entries, Seen(readable, looked)), Seen(readable, looked)) # "absent"
    PROVE  ~ Passes(readable, looked, {}, Others)
BY JudgeIs DEF Childs, Passes, StepPasses, Permitted, Settled, IsChilds, Seen, Judge

\* The place of an entry is there.
LEMMA PlaceLeft ==
    ASSUME IInv, NEW readable, NEW looked, NEW e \in Childs, e.place \in places
    PROVE  ~ Passes(readable, looked, {}, Others)
<1> DEFINE obs == Seen(readable, looked)
<1>1. e.place \in {Dir, Url} /\ Urls = {Url} /\ Dir # Url
    BY ResourcesAssumption DEF Childs, IInv, EntriesInv, ServerEntry, RemoteEntry, UnitsEntry
<1>2. obs.exists = places \ Urls /\ obs.remotes = {} /\ obs.absence = [url \in Urls |-> url \notin places]
    BY SeenIs
<1>3. CASE e.place = Url
    <2>1. Undetermined(e, obs)
        BY <1>1, <1>2, <1>3 DEF Undetermined, AbsenceConfirmed
    <2>2. Presence(e, Attributed(e, entries, obs), obs) # "absent"
        BY <2>1 DEF Presence
    <2>3. QED
        BY <2>2, Unsettled
<1>4. CASE e.place = Dir
    <2>1. PlaceSeen(e, obs)
        BY <1>1, <1>2, <1>4 DEF PlaceSeen
    <2>2. Presence(e, Attributed(e, entries, obs), obs) # "absent"
        BY <2>1 DEF Presence, SeenPresent
    <2>3. QED
        BY <2>2, Unsettled
<1>5. QED
    BY <1>1, <1>3, <1>4

\* The known residue is there, and no entry has its path.
LEMMA ResidueLeft ==
    ASSUME NEW readable, NEW looked, Old \in places, \A e \in entries : e.place # Old
    PROVE  ~ Passes(readable, looked, {}, Others)
<1> DEFINE obs == Seen(readable, looked)
           f == [path |-> Old, source |-> IF Old = Dir THEN "dedicated-area" ELSE "os-temp-area",
                 ground |-> None]
           r == [place |-> Old, ids |-> <<>>]
<1>1. Old \in places \ Urls
    BY ResourcesAssumption
<1>2. f \in obs.files /\ f.path = Old /\ obs.excluded = {}
    <2>1. /\ obs.files = {[path |-> place,
                           source |-> IF place = Dir THEN "dedicated-area" ELSE "os-temp-area",
                           ground |-> None] : place \in places \ Urls}
          /\ obs.excluded = {}
        BY SeenIs
    <2>2. QED
        BY <1>1, <2>1
<1>3. r \in Judge.residues /\ r.place = Old
    BY JudgeIs
<1>4. r \in ResiduesFound(entries, obs, Judge)
    BY <1>2, <1>3 DEF ResiduesFound
<1>5. QED
    BY <1>4 DEF Passes, StepPasses, Permitted, Seen, Judge

\* No process but the inspections descends from the machine: one that names its pid
\* as parent was there before it.
LEMMA OwnAreInspections ==
    ASSUME IInv, NEW readable, NEW looked
    PROVE  OwnProcesses(Seen(readable, looked), Judge) \subseteq {Self, Probe}
<1> DEFINE obs  == Seen(readable, looked)
           kin  == Kin(obs, Judge)
           S    == {Self, Probe} \cap kin
<1>1. S \in SUBSET kin /\ Judge.self \in S
    BY JudgeIs DEF Kin
<1>2. ASSUME NEW p \in DOMAIN obs.processes, NEW q \in S, ChildOf(p, q, obs), p \notin S
      PROVE  FALSE
    <2>1. obs.processes[p] = ProcessOf(p, readable) /\ obs.processes[q] = ProcessOf(q, readable)
        BY <1>2 DEF Seen, Observed, ChildOf
    <2>2. obs.processes[p].parent = q
        BY <1>2 DEF ChildOf
    <2>3. None \notin S /\ p \notin {Self, Probe}
        <3>1. p \in kin
            BY <1>2 DEF Kin, ChildOf
        <3>2. QED
            BY <1>2, <3>1, ResourcesAssumption
    <2>4. CASE p \in DOMAIN running
        <3>1. q = Self /\ running[p].since < SelfStart /\ running[p].since \in Nat
            <4>1. running[p].parent = q
                BY <2>2, <2>4, SeenProcess
            <4>2. running[p].parent = Self /\ q = Self
                BY <1>2, <2>3, <2>4, <4>1 DEF IInv, ProcessInv
            <4>3. QED
                BY <2>4, <4>2 DEF IInv, ProcessInv
        <3>2. "startedAt" \in readable
              /\ obs.processes[Self].seen["startedAt"] <= obs.processes[p].seen["startedAt"]
            BY <1>2, <2>4, <3>1, SeenProcess DEF ChildOf
        <3>3. obs.processes[p].seen["startedAt"] = running[p].since
            BY <2>4, <3>2, SeenProcess
        <3>4. obs.processes[Self].seen["startedAt"] = SelfStart
            <4>1. Self # Probe /\ Self \notin DOMAIN running
                BY ResourcesAssumption DEF IInv, ProcessInv
            <4>2. ProcessOf(Self, readable).seen["startedAt"] = SelfStart
                BY <3>2, <4>1 DEF ProcessOf
            <4>3. QED
                BY <2>1, <3>1, <4>2
        <3>5. QED
            BY <3>1, <3>2, <3>3, <3>4, ResourcesAssumption
    <2>5. CASE p \notin DOMAIN running
        <3>1. ProcessOf(p, readable).parent = None
            BY <2>3, <2>5 DEF ProcessOf
        <3>2. QED
            BY <2>1, <2>2, <2>3, <3>1
    <2>6. QED
        BY <2>4, <2>5
<1>3. QED
    BY <1>1, <1>2 DEF OwnProcesses

\* A process of the child that an entry names by its pid, or that is attributed to an
\* entry, keeps that entry from being settled, since the entry is the child's unless it
\* names another's process of that pid.
LEMMA KnownLeft ==
    ASSUME IInv, NEW readable, NEW looked, NEW p \in DOMAIN running, running[p].who = "child",
           p \in RecordedPids \cup AttributedPids(entries, Seen(readable, looked)),
           p \notin Recorded("pid", entries \ Childs)
    PROVE  ~ Passes(readable, looked, {}, Others)
<1> DEFINE obs == Seen(readable, looked)
<1>1. PICK e \in entries : /\ HasPid(e)
                           /\ e.ids["pid"] = p \/ p \in Attributed(e, entries, obs)
    BY DEF RecordedPids, Recorded, AttributedPids, Attributed, Claim, HasPid
<1>2. p \in LivePids(obs)
    BY SeenProcess
<1>3. CASE e.id = "unit"
    <2>1. UnitsEntry(e)
        BY <1>3 DEF IInv, EntriesInv
    <2>2. e \in entries \ Childs
        BY <2>1 DEF UnitsEntry, Childs
    <2>3. e.ids["pid"] # p
        BY <1>1, <2>2 DEF Recorded, HasPid
    <2>4. LooksLike(e, obs.processes[p])
        BY <1>1, <2>3 DEF Attributed, Claim, Candidates
    <2>5. DOMAIN obs.processes[p].seen = readable
          /\ ("commandLine" \in readable => obs.processes[p].seen["commandLine"] = Commands["child"])
        BY SeenProcess
    <2>6. "commandLine" \in Comparable(e, obs.processes[p])
        BY <2>1, <2>4 DEF LooksLike, Comparable, UnitsEntry, AttributionKeys
    <2>7. e.ids["commandLine"] = Commands["child"]
        BY <2>4, <2>5, <2>6 DEF LooksLike, Comparable
    <2>8. QED
        BY <2>1, <2>7 DEF UnitsEntry, Commands
<1>4. CASE e.id = "server"
    <2>1. ServerEntry(e)
        BY <1>4 DEF IInv, EntriesInv
    <2>2. e \in Childs /\ e.place = Dir
        BY <2>1 DEF ServerEntry, Childs
    <2>3. SeenPresent(e, Attributed(e, entries, obs), obs)
        BY <1>1, <1>2 DEF SeenPresent, AlivePid
    <2>4. Presence(e, Attributed(e, entries, obs), obs) # "absent"
        BY <2>3 DEF Presence
    <2>5. QED
        BY <2>2, <2>4, Unsettled
<1>5. CASE e.id = "remote"
    BY <1>1, <1>5 DEF IInv, EntriesInv, RemoteEntry, HasPid
<1>6. QED
    BY <1>3, <1>4, <1>5 DEF IInv, EntriesInv

\* A process of the child that is known to no entry is found as unrecorded, if nothing
\* is declared or it is seen to work in a directory of the record.
LEMMA UnknownLeft ==
    ASSUME IInv, NEW readable \in SUBSET AttributionKeys, NEW looked,
           NEW p \in DOMAIN running, running[p].who = "child",
           p \notin RecordedPids \cup AttributedPids(entries, Seen(readable, looked)),
           \/ ~ declared
           \/ "cwd" \in readable /\ \E e \in Childs : e.place = Dir
    PROVE  ~ Passes(readable, looked, {}, Others)
<1> DEFINE obs   == Seen(readable, looked)
           texts == TextsOf(obs.processes[p]) \cup PathsOf(obs.processes[p])
           paths == PathsOf(obs.processes[p])
<1>1. p \in LivePids(obs) /\ DOMAIN obs.processes[p].seen = readable
      /\ ("cwd" \in readable => obs.processes[p].seen["cwd"] = Cwds["child"])
    BY SeenProcess
<1>2. p \notin Recorded("pid", entries \cup Judge.residues)
    <2>1. \A r \in Judge.residues : "pid" \notin DOMAIN r.ids
        BY JudgeIs
    <2>2. QED
        BY <2>1 DEF RecordedPids, Recorded
<1>3. p \notin OwnProcesses(obs, Judge)
    <2>1. p \notin {Self, Probe}
        BY ResourcesAssumption DEF IInv, ProcessInv
    <2>2. QED
        BY <2>1, OwnAreInspections
<1>4. ~ Grounded(p, obs, Judge)
    <2>1. SUFFICES ASSUME NEW g \in Judge.grounds,
                          \/ g = [key |-> "pid", value |-> p]
                          \/ {q \in LivePids(obs) : g.key \in DOMAIN obs.processes[q].seen
                                  /\ obs.processes[q].seen[g.key] = g.value} = {p}
                   PROVE  FALSE
        BY DEF Grounded
    <2>2. PICK o \in Others : g = [key |-> "pid", value |-> o]
        BY JudgeIs
    <2>3. CASE g = [key |-> "pid", value |-> p]
        <3>1. g.value = p /\ g.value = o
            BY <2>2, <2>3
        <3>2. QED
            BY <2>2, <3>1 DEF Others
    <2>4. CASE {q \in LivePids(obs) : g.key \in DOMAIN obs.processes[q].seen
                                  /\ obs.processes[q].seen[g.key] = g.value} = {p}
        <3>1. g.key = "pid" /\ g.key \in DOMAIN obs.processes[p].seen
            BY <2>2, <2>4
        <3>2. QED
            BY <1>1, <3>1 DEF AttributionKeys
    <2>5. QED
        BY <2>1, <2>3, <2>4
<1>5. ~ Outside(texts, paths, entries, Judge)
    <2>1. CASE ~ declared
        BY <2>1, JudgeIs DEF Outside
    <2>2. CASE "cwd" \in readable /\ \E e \in Childs : e.place = Dir
        <3>1. Dir \in paths
            BY <1>1, <2>2 DEF PathsOf, Cwds
        <3>2. \E e \in entries : Within(Dir, e.place)
            BY <2>2 DEF Childs, Within
        <3>3. QED
            BY <3>1, <3>2 DEF Outside
    <2>3. QED
        BY <2>1, <2>2
<1>6. p \in UnregisteredProcesses(entries, obs, Judge)
    BY <1>1, <1>2, <1>3, <1>4, <1>5 DEF UnregisteredProcesses
<1>7. QED
    BY <1>6 DEF Passes, StepPasses, Permitted, Seen, Judge

\* Without a declared population, the port of the child gives it away, whoever's pid its
\* process has.
LEMMA PortLeft ==
    ASSUME IInv, NEW readable, NEW looked, ChildPids # {}, ~ declared
    PROVE  ~ Passes(readable, looked, {}, Others)
<1> DEFINE obs == Seen(readable, looked)
<1>1. DOMAIN obs.ports = {Port} /\ obs.ports[Port]
    <2>1. obs.ports = [port \in {Port} |-> ChildPids # {}]
        BY DEF Seen, Observed
    <2>2. QED
        BY <2>1
<1>2. CASE \E e \in entries : "listenPort" \in DOMAIN e.ids
    <2>1. PICK e \in entries : "listenPort" \in DOMAIN e.ids
        BY <1>2
    <2>2. ServerEntry(e)
        BY <2>1 DEF IInv, EntriesInv, RemoteEntry, UnitsEntry
    <2>3. e \in Childs /\ e.ids["listenPort"] = Port
        BY <2>1, <2>2 DEF ServerEntry, Childs
    <2>4. SeenPresent(e, Attributed(e, entries, obs), obs)
        BY <1>1, <2>1, <2>3 DEF SeenPresent
    <2>5. Presence(e, Attributed(e, entries, obs), obs) # "absent"
        BY <2>4 DEF Presence
    <2>6. QED
        BY <2>3, <2>5, Unsettled
<1>3. CASE \A e \in entries : "listenPort" \notin DOMAIN e.ids
    <2>1. Port \notin Recorded("listenPort", entries \cup Judge.residues)
        <3>1. \A r \in Judge.residues : "listenPort" \notin DOMAIN r.ids
            BY JudgeIs
        <3>2. QED
            BY <1>3, <3>1 DEF Recorded
    <2>2. [key |-> "port", value |-> Port] \notin Judge.grounds
        <3>1. \A g \in Judge.grounds : g.key = "pid"
            BY JudgeIs
        <3>2. QED
            BY <3>1
    <2>3. ~ Outside({}, {}, entries, Judge)
        BY JudgeIs DEF Outside
    <2>4. Port \in UnregisteredPorts(entries, obs, Judge)
        BY <1>1, <2>1, <2>2, <2>3 DEF UnregisteredPorts
    <2>5. QED
        BY <2>4 DEF Passes, StepPasses, Permitted, Seen, Judge
<1>4. QED
    BY <1>2, <1>3

LEMMA ProcessLeft ==
    ASSUME IInv, NEW readable \in SUBSET AttributionKeys, NEW looked, NEW p \in ChildPids,
           ~ Mistaken(p),
           \/ ~ declared
           \/ "cwd" \in readable /\ \E e \in Childs : e.place = Dir
    PROVE  ~ Passes(readable, looked, {}, Others)
<1>1. CASE ~ declared
    BY <1>1, PortLeft
<1>2. CASE declared
    <2>1. p \in DOMAIN running /\ running[p].who = "child" /\ p \notin Recorded("pid", entries \ Childs)
        BY <1>2 DEF ChildPids, Mistaken
    <2>2. QED
        BY <2>1, KnownLeft, UnknownLeft
<1>3. QED
    BY <1>1, <1>2 DEF IInv

\* An entry of the child whose process runs is the server's.
LEMMA RunsIsChild ==
    ASSUME IInv, NEW e \in Childs, Runs(e)
    PROVE  e.place = Dir /\ \E p \in ChildPids : ~ Mistaken(p)
<1>1. PICK p \in DOMAIN running : running[p].since \in incarnations[e.id] /\ ~ Mistaken(p)
    BY DEF Runs
<1>2. e.id = "server" /\ e.place = Dir
    BY <1>1 DEF Childs, IInv, EntriesInv, ProcessInv, UnitsEntry, ServerEntry
<1>3. running[p].who = "child"
    BY <1>1, <1>2 DEF Childs, IInv, ProcessInv
<1>4. QED
    BY <1>1, <1>2, <1>3 DEF ChildPids

\* As long as anything is left of what the child recorded, be it under another pid, the
\* reconciliation of close does not permit the removal of worktree and branch, whatever
\* of a process could be read; except that with a declared population a process under a
\* pid that the unit's entry records is not seen.
THEOREM PermittedMeansGoneAlways == Spec => []PermittedMeansGone
<1>1. IInv => PermittedMeansGone
    <2> SUFFICES ASSUME IInv, \/ Old \in places /\ \A e \in entries : e.place # Old
                        \/ \E e \in Childs : e.place \in places \/ Runs(e),
                        NEW readable \in SUBSET AttributionKeys, NEW looked \in {{}, RecordedPids},
                        ~ declared \/ "cwd" \in readable
                 PROVE  ~ Passes(readable, looked, {}, Others)
        BY DEF PermittedMeansGone
    <2>1. CASE Old \in places /\ \A e \in entries : e.place # Old
        BY <2>1, ResidueLeft
    <2>2. CASE \E e \in Childs : e.place \in places
        BY <2>2, PlaceLeft
    <2>3. CASE \E e \in Childs : Runs(e)
        <3>1. PICK e \in Childs : Runs(e)
            BY <2>3
        <3>2. PICK p \in ChildPids : ~ Mistaken(p)
            BY <3>1, RunsIsChild
        <3>3. e.place = Dir
            BY <3>1, RunsIsChild
        <3>4. ~ declared \/ ("cwd" \in readable /\ \E x \in Childs : x.place = Dir)
            BY <3>3
        <3>5. QED
            BY <3>2, <3>4, ProcessLeft
    <2>4. QED
        BY <2>1, <2>2, <2>3
<1>2. QED
    BY <1>1, IInvAlways, PTL

\* Three names are at most three things.
LEMMA AtMostThree ==
    ASSUME NEW a, NEW b, NEW c
    PROVE  Cardinality({a, b, c}) # 4
<1>1. IsFiniteSet({a}) /\ Cardinality({a}) = 1
    BY FS_Singleton
<1>2. IsFiniteSet({a} \cup {b}) /\ Cardinality({a} \cup {b}) \in {1, 2}
    BY <1>1, FS_AddElement
<1>3. Cardinality(({a} \cup {b}) \cup {c}) \in {1, 2, 3}
    BY <1>2, FS_AddElement
<1>4. ({a} \cup {b}) \cup {c} = {a, b, c}
    OBVIOUS
<1>5. Cardinality({a, b, c}) \in {1, 2, 3}
    BY <1>3, <1>4
<1>6. QED
    BY <1>5

\* A directory in the dedicated area that no entry of the child names.
LEMMA DirLeft ==
    ASSUME IInv, NEW readable, NEW looked, Dir \in places
    PROVE  ~ Passes(readable, looked, {}, Others)
<1> DEFINE obs == Seen(readable, looked)
           f   == [path |-> Dir, source |-> "dedicated-area", ground |-> None]
<1>1. Dir \notin Urls /\ Dir # Old /\ UnitDir # Dir /\ Url # Dir
    <2>1. Cardinality({Dir, Old, UnitDir, Elsewhere}) = 4
        BY ResourcesAssumption
    <2>2. ASSUME Dir = Old PROVE FALSE
        <3>1. {Dir, Old, UnitDir, Elsewhere} = {Old, UnitDir, Elsewhere}
            BY <2>2
        <3>2. QED
            BY <2>1, <3>1, AtMostThree
    <2>3. ASSUME UnitDir = Dir PROVE FALSE
        <3>1. {Dir, Old, UnitDir, Elsewhere} = {Dir, Old, Elsewhere}
            BY <2>3
        <3>2. QED
            BY <2>1, <3>1, AtMostThree
    <2>4. QED
        BY <2>2, <2>3, ResourcesAssumption
<1>2. CASE \E e \in entries : e.place = Dir
    <2>1. \E e \in Childs : e.place = Dir
        BY <1>1, <1>2 DEF Childs, IInv, EntriesInv, ServerEntry, RemoteEntry, UnitsEntry
    <2>2. QED
        BY <2>1, PlaceLeft
<1>3. CASE \A e \in entries : e.place # Dir
    <2>1. f \in obs.files /\ obs.excluded = {}
        <3>1. /\ obs.files = {[path |-> place,
                               source |-> IF place = Dir THEN "dedicated-area" ELSE "os-temp-area",
                               ground |-> None] : place \in places \ Urls}
              /\ obs.excluded = {}
            BY SeenIs
        <3>2. QED
            BY <1>1, <3>1
    <2>2. \A r \in Judge.residues : r.place # Dir
        BY <1>1, JudgeIs
    <2>3. f.path = Dir /\ f.ground = None /\ f.source = "dedicated-area"
        OBVIOUS
    <2> HIDE DEF f
    <2>4. f \in UnregisteredFiles(entries, obs, Judge)
        BY <1>3, <2>1, <2>2, <2>3 DEF UnregisteredFiles
    <2>5. QED
        BY <2>4 DEF Passes, StepPasses, Permitted, Seen, Judge
<1>4. QED
    BY <1>2, <1>3

\* A remote that no entry names, without a declared population.
LEMMA RemoteLeft ==
    ASSUME IInv, NEW readable, NEW looked, ~ declared, Url \in places
    PROVE  ~ Passes(readable, looked, {}, Others)
<1> DEFINE obs == Seen(readable, looked)
<1>1. Urls = {Url} /\ Url # Old /\ Url # UnitDir
    BY ResourcesAssumption
<1>2. CASE \E e \in entries : e.place = Url
    <2>1. \E e \in Childs : e.place = Url
        BY <1>1, <1>2 DEF Childs, IInv, EntriesInv, ServerEntry, RemoteEntry, UnitsEntry
    <2>2. QED
        BY <2>1, PlaceLeft
<1>3. CASE \A e \in entries : e.place # Url
    <2>1. obs.absence = [url \in Urls |-> url \notin places]
        BY SeenIs
    <2>2. Url \in DOMAIN obs.absence /\ ~ obs.absence[Url]
        BY <1>1, <2>1
    <2>3. Url \notin {e.place : e \in entries} \cup UNION {RemotesOf(r) : r \in Judge.residues}
        <3>1. \A r \in Judge.residues : r.place = Old /\ DOMAIN r.ids = {}
            BY JudgeIs
        <3>2. \A r \in Judge.residues : RemotesOf(r) = {}
            BY <1>1, <3>1 DEF RemotesOf
        <3>3. QED
            BY <1>3, <3>2
    <2>4. ~ Outside({Url}, {}, entries, Judge)
        BY JudgeIs DEF Outside
    <2>5. Url \in UnregisteredRemotes(entries, obs, Judge)
        BY <2>2, <2>3, <2>4 DEF UnregisteredRemotes
    <2>6. QED
        BY <2>5 DEF Passes, StepPasses, Permitted, Seen, Judge
<1>4. QED
    BY <1>2, <1>3

\* What nobody recorded (a directory in the dedicated area, a remote, a process of the
\* child) keeps the reconciliation of close from permitting as well, with the same
\* exception for a process under a pid that the unit's entry records.
THEOREM NothingUnrecordedAlways == Spec => []NothingUnrecorded
<1>1. IInv => NothingUnrecorded
    <2> SUFFICES ASSUME IInv,
                        \/ Dir \in places
                        \/ ~ declared /\ Url \in places
                        \/ \E p \in ChildPids :
                              ~ Mistaken(p) /\ (~ declared \/ \E e \in Childs : e.place = Dir),
                        NEW readable \in SUBSET AttributionKeys, ~ declared \/ "cwd" \in readable
                 PROVE  ~ Passes(readable, RecordedPids, {}, Others)
        BY DEF NothingUnrecorded
    <2>1. CASE Dir \in places
        BY <2>1, DirLeft
    <2>2. CASE ~ declared /\ Url \in places
        BY <2>2, RemoteLeft
    <2>3. CASE \E p \in ChildPids : ~ Mistaken(p) /\ (~ declared \/ \E e \in Childs : e.place = Dir)
        BY <2>3, ProcessLeft
    <2>4. QED
        BY <2>1, <2>2, <2>3
<1>2. QED
    BY <1>1, IInvAlways, PTL
-----------------------------------------------------------------------------
(* Close is not kept back for nothing.                                         *)

\* None but the child's process started when the recorded one did; the basis of what
\* was recorded fits its place.
StartsInv ==
    /\ \A e \in entries : e.id = "server" /\ "startedAt" \in DOMAIN e.ids =>
          /\ e.ids["startedAt"] \in Nat /\ e.ids["startedAt"] < clock
          /\ \A p \in DOMAIN running :
                running[p].since = e.ids["startedAt"] => running[p].who = "child"
    /\ \A e \in entries : e.basis = "occurrence" \/ e.allowedPlace

\* A process that starts now did not start when a recorded one did, and one that comes
\* up again is of the same kind.
LEMMA MovedStarts ==
    ASSUME ProcessInv, StartsInv, NEW p, NEW rest, rest \subseteq DOMAIN running \ {p},
           DOMAIN running' = {p} \cup rest, running'[p].since = clock,
           \A q \in rest : running'[q] = running[q],
           clock' = clock + 1, UNCHANGED entries
    PROVE  StartsInv'
<1>1. clock \in Nat
    BY DEF ProcessInv
<1>2. \A e \in entries : e.basis = "occurrence" \/ e.allowedPlace
    BY DEF StartsInv
<1>3. ASSUME NEW e \in entries, e.id = "server", "startedAt" \in DOMAIN e.ids
      PROVE  /\ e.ids["startedAt"] \in Nat /\ e.ids["startedAt"] < clock'
             /\ \A q \in DOMAIN running' :
                   running'[q].since = e.ids["startedAt"] => running'[q].who = "child"
    <2>1. e.ids["startedAt"] \in Nat /\ e.ids["startedAt"] < clock
        BY <1>3 DEF StartsInv
    <2>2. running'[p].since # e.ids["startedAt"]
        BY <1>1, <2>1
    <2>3. \A q \in rest : running'[q].since = e.ids["startedAt"] => running'[q].who = "child"
        BY <1>3 DEF StartsInv
    <2>4. QED
        BY <1>1, <2>1, <2>2, <2>3
<1>4. QED
    BY <1>2, <1>3 DEF StartsInv

LEMMA StartStarts ==
    ASSUME IInv, StartsInv, NEW who \in Owners, NEW p \in Pids, Start(who, p)
    PROVE  StartsInv'
<1>1. PICK parent : running' = With(p, [who |-> who, since |-> clock, parent |-> parent], DOMAIN running)
    BY DEF Start
<1>2. p \notin DOMAIN running /\ clock' = clock + 1 /\ UNCHANGED entries
    BY DEF Start, MayTake
<1>3. DOMAIN running' = {p} \cup DOMAIN running
      /\ running'[p].since = clock /\ \A q \in DOMAIN running : running'[q] = running[q]
    BY <1>1, <1>2 DEF With
<1>4. DOMAIN running \subseteq DOMAIN running \ {p}
    BY <1>2
<1>5. QED
    BY <1>2, <1>3, <1>4, MovedStarts DEF IInv

LEMMA RestartStarts ==
    ASSUME IInv, StartsInv, NEW p \in Pids, NEW new \in Pids, Restart(p, new)
    PROVE  StartsInv'
<1> DEFINE process == [running[p] EXCEPT !.since = clock, !.parent = IF clock < SelfStart THEN @ ELSE None]
           rest    == DOMAIN running \ {p}
<1>1. p \in DOMAIN running /\ new \notin rest /\ clock' = clock + 1 /\ UNCHANGED entries
    BY DEF Restart, MayTake
<1>2. DOMAIN running' = {new} \cup rest
      /\ \A q \in DOMAIN running' : running'[q] = IF q = new THEN process ELSE running[q]
    BY DEF Restart, With
<1>3. process.since = clock
    BY <1>1 DEF IInv, ProcessInv
<1> HIDE DEF process
<1>4. rest \subseteq DOMAIN running \ {new}
    BY <1>1
<1>5. running'[new].since = clock /\ \A q \in rest : running'[q] = running[q]
    BY <1>1, <1>2, <1>3
<1> HIDE DEF rest
<1>6. QED
    BY <1>1, <1>2, <1>4, <1>5, MovedStarts DEF IInv

LEMMA RegisterStarts ==
    ASSUME IInv, StartsInv, NEW kind \in Kinds, NEW keys \in KeysOf(kind), Register(kind, keys)
    PROVE  StartsInv'
<1>1. PICK p \in IF kind = "server" THEN {q \in DOMAIN running : running[q].who = "child"} ELSE {None} :
          LET value == [url |-> Url, pid |-> p, commandLine |-> Commands["child"], cwd |-> Dir,
                        listenPort |-> Port, startedAt |-> IF p = None THEN 0 ELSE running[p].since]
              place == IF kind = "remote" THEN Url ELSE Dir
          IN  entries' = entries \cup
                    {[id |-> kind, place |-> place,
                      ids |-> [k \in keys |-> value[k]], owner |-> "child", collected |-> FALSE,
                      basis |-> IF place \in places \ Urls THEN "occurrence" ELSE "creation",
                      allowedPlace |-> place \notin places \ Urls]}
    BY DEF Register
<1>2. PICK entry :
          /\ entries' = entries \cup {entry} /\ entry.id = kind /\ DOMAIN entry.ids = keys
          /\ "startedAt" \in keys => entry.ids["startedAt"] = IF p = None THEN 0 ELSE running[p].since
          /\ entry.basis = "occurrence" \/ entry.allowedPlace
    <2> DEFINE value == [url |-> Url, pid |-> p, commandLine |-> Commands["child"], cwd |-> Dir,
                         listenPort |-> Port, startedAt |-> IF p = None THEN 0 ELSE running[p].since]
               place == IF kind = "remote" THEN Url ELSE Dir
               entry == [id |-> kind, place |-> place,
                         ids |-> [k \in keys |-> value[k]], owner |-> "child", collected |-> FALSE,
                         basis |-> IF place \in places \ Urls THEN "occurrence" ELSE "creation",
                         allowedPlace |-> place \notin places \ Urls]
    <2>1. entry.id = kind /\ DOMAIN entry.ids = keys /\ \A k \in keys : entry.ids[k] = value[k]
        OBVIOUS
    <2>2. value["startedAt"] = IF p = None THEN 0 ELSE running[p].since
        OBVIOUS
    <2>3. entry.basis = "occurrence" \/ entry.allowedPlace
        <3>1. CASE place \in places \ Urls
            <4>1. entry.basis = "occurrence"
                BY <3>1
            <4>2. QED
                BY <4>1
        <3>2. CASE place \notin places \ Urls
            <4>1. entry.allowedPlace = (place \notin places \ Urls)
                OBVIOUS
            <4>2. QED
                BY <3>2, <4>1
        <3>3. QED
            BY <3>1, <3>2
    <2>4. entries' = entries \cup {entry}
        BY <1>1
    <2> HIDE DEF entry, value, place
    <2>5. QED
        BY <2>1, <2>2, <2>3, <2>4
<1>3. UNCHANGED <<running, clock>>
    BY DEF Register
<1>4. kind = "server" => p \in DOMAIN running /\ p # None /\ running[p].who = "child"
                         /\ running[p].since \in Nat /\ running[p].since < clock
    BY <1>1, ResourcesAssumption DEF IInv, ProcessInv
<1>5. kind = "server" =>
          \A q \in DOMAIN running : running[q].since = running[p].since => running[q].who = "child"
    BY <1>4 DEF IInv, ProcessInv
<1>6. entry.id = "server" /\ "startedAt" \in DOMAIN entry.ids =>
          /\ entry.ids["startedAt"] \in Nat /\ entry.ids["startedAt"] < clock
          /\ \A q \in DOMAIN running :
                running[q].since = entry.ids["startedAt"] => running[q].who = "child"
    BY <1>2, <1>4, <1>5
<1>7. QED
    BY <1>2, <1>3, <1>6 DEF StartsInv

LEMMA CollectStarts ==
    ASSUME IInv, StartsInv, NEW e \in entries, Collect(e)
    PROVE  StartsInv'
<1>1. DOMAIN e = EntryFields
    BY DEF IInv, EntriesInv
<1>2. PICK marked : /\ entries' = (entries \ {e}) \cup {marked}
                    /\ marked.id = e.id /\ marked.ids = e.ids
                    /\ marked.basis = e.basis /\ marked.allowedPlace = e.allowedPlace
    <2> DEFINE marked == [e EXCEPT !.collected = TRUE]
    <2>1. /\ marked.id = e.id /\ marked.ids = e.ids
          /\ marked.basis = e.basis /\ marked.allowedPlace = e.allowedPlace
        BY <1>1 DEF EntryFields
    <2>2. entries' = (entries \ {e}) \cup {marked}
        BY DEF Collect
    <2> HIDE DEF marked
    <2>3. QED
        BY <2>1, <2>2
<1>3. UNCHANGED <<running, clock>>
    BY DEF Collect
<1>4. marked.basis = "occurrence" \/ marked.allowedPlace
    BY <1>2 DEF StartsInv
<1>5. \A x \in entries' : x \in entries \/ x = marked
    BY <1>2
<1>6. \A x \in entries' : x.basis = "occurrence" \/ x.allowedPlace
    BY <1>4, <1>5 DEF StartsInv
<1>7. QED
    BY <1>2, <1>3, <1>5, <1>6 DEF StartsInv

LEMMA StartsInit == Init => StartsInv
<1> SUFFICES ASSUME Init PROVE StartsInv
    OBVIOUS
<1>1. CASE entries = {}
    BY <1>1 DEF StartsInv
<1>2. ASSUME NEW p \in Pids, NEW place \in {UnitDir, Old}, entries = {UnitEntry(p, place)}
      PROVE  StartsInv
    <2>1. UnitEntry(p, place).id = "unit" /\ UnitEntry(p, place).allowedPlace
        BY DEF UnitEntry
    <2>2. QED
        BY <1>2, <2>1 DEF StartsInv
<1>3. QED
    BY <1>1, <1>2 DEF Init

LEMMA StartsNext == ASSUME IInv, StartsInv, [Next]_vars PROVE StartsInv'
<1>1. ASSUME UNCHANGED <<running, clock, entries>> PROVE StartsInv'
    BY <1>1 DEF StartsInv
<1>2. ASSUME NEW p \in Pids, Stop(p) PROVE StartsInv'
    BY <1>2 DEF StartsInv, Stop
<1>3. CASE UNCHANGED vars
    BY <1>1, <1>3 DEF vars
<1>4. ASSUME NEW place \in Places, Make(place) \/ Remove(place) PROVE StartsInv'
    BY <1>1, <1>4 DEF Make, Remove
<1>5. ASSUME NEW e \in entries, NEW keys, Confirm(e, keys) PROVE StartsInv'
    BY <1>1, <1>5 DEF Confirm
<1>6. QED
    BY <1>2, <1>3, <1>4, <1>5, StartStarts, RestartStarts, RegisterStarts, CollectStarts DEF Next

LEMMA StartsAlways == Spec => [](IInv /\ StartsInv)
<1>1. Init => StartsInv
    BY StartsInit
<1>2. IInv /\ StartsInv /\ [Next]_vars => StartsInv'
    BY StartsNext
<1>3. QED
    BY <1>1, <1>2, IInvAlways, PTL DEF Spec

\* The hypothesis of CleanPasses: everything of the child is gone, collected and confirmed.
AllGone ==
    /\ Childs # {}
    /\ places = {} /\ ChildPids = {} /\ Others = {}
    /\ \A e \in Childs : /\ e.collected
                         /\ e.id \in DOMAIN confirmations
                         /\ confirmations[e.id] = e.ids
    /\ DOMAIN running \subseteq RecordedPids \ Recorded("pid", Childs)

Clean == Seen(AttributionKeys, RecordedPids)
CleanJudge == Check({})

LEMMA CleanJudgeIs ==
    /\ CleanJudge.issue = "child" /\ CleanJudge.self = Self /\ CleanJudge.confirmations = confirmations
    /\ CleanJudge.residues = {[place |-> Old, ids |-> <<>>]}
    /\ CleanJudge.scopes = RequiredScopes /\ CleanJudge.recordable
BY DEF CleanJudge, Check

\* Nothing is found on the machine but processes.
LEMMA CleanIs ==
    ASSUME AllGone
    PROVE  /\ Clean.failures = {} /\ Clean.files = {} /\ Clean.exists = {}
           /\ Clean.remotes = {} /\ Clean.worktrees = {} /\ Clean.branches = {}
           /\ DOMAIN Clean.absence = Urls /\ \A url \in Urls : Clean.absence[url]
           /\ DOMAIN Clean.ports = {Port} /\ ~ Clean.ports[Port]
           /\ DOMAIN Clean.processes = DOMAIN running \cup {Self, Probe} \cup RecordedPids
<1>1. places = {} /\ ChildPids = {}
    BY DEF AllGone
<1>2. /\ Clean.failures = {} /\ Clean.exists = places \ Urls
      /\ Clean.remotes = {} /\ Clean.worktrees = {} /\ Clean.branches = {}
      /\ Clean.absence = [url \in Urls |-> url \notin places]
      /\ Clean.ports = [port \in {Port} |-> ChildPids # {}]
      /\ DOMAIN Clean.processes = DOMAIN running \cup {Self, Probe} \cup RecordedPids
      /\ Clean.files = {[path |-> place,
                         source |-> IF place = Dir THEN "dedicated-area" ELSE "os-temp-area",
                         ground |-> None] : place \in places \ Urls}
    BY DEF Clean, Seen, Observed
<1>3. Clean.files = {} /\ Clean.exists = {}
    BY <1>1, <1>2
<1>4. DOMAIN Clean.absence = Urls /\ \A url \in Urls : Clean.absence[url]
    BY <1>1, <1>2
<1>5. DOMAIN Clean.ports = {Port} /\ ~ Clean.ports[Port]
    BY <1>1, <1>2
<1>6. QED
    BY <1>2, <1>3, <1>4, <1>5

LEMMA UnitsOnly == ASSUME IInv, AllGone, NEW p \in DOMAIN running PROVE running[p].who = "unit"
BY DEF IInv, ProcessInv, AllGone, ChildPids, Others, Owners

\* The live processes are those that run, the machine and its inspection; these two
\* look alike.
LEMMA LiveAre ==
    ASSUME IInv
    PROVE  /\ LivePids(Clean) = DOMAIN running \cup {Self, Probe}
           /\ Clean.processes[Self].seen = Clean.processes[Probe].seen
           /\ Clean.processes[Probe].parent = Self
           /\ DOMAIN Clean.processes[Self].seen = AttributionKeys
           /\ Clean.processes[Self].seen["startedAt"] = SelfStart
<1>1. DOMAIN Clean.processes = DOMAIN running \cup {Self, Probe} \cup RecordedPids
      /\ \A p \in DOMAIN Clean.processes : Clean.processes[p] = ProcessOf(p, AttributionKeys)
    BY DEF Clean, Seen, Observed
<1>2. Self # Probe /\ {Self, Probe} \cap DOMAIN running = {}
    BY ResourcesAssumption DEF IInv, ProcessInv
<1> DEFINE seen == [k \in AttributionKeys |->
                       CASE k = "commandLine" -> IF "machine" = "machine" THEN "close" ELSE Commands["machine"]
                         [] k = "cwd" -> IF "machine" = "machine" THEN Elsewhere ELSE Cwds["machine"]
                         [] k = "startedAt" -> SelfStart]
<1>3. ProcessOf(Self, AttributionKeys) = [alive |-> TRUE, parent |-> None, seen |-> seen]
    BY <1>2 DEF ProcessOf
<1>4. ProcessOf(Probe, AttributionKeys) = [alive |-> TRUE, parent |-> Self, seen |-> seen]
    BY <1>2 DEF ProcessOf
<1>5. DOMAIN seen = AttributionKeys /\ seen["startedAt"] = SelfStart
    BY DEF AttributionKeys
<1>6. \A p \in DOMAIN running : ProcessOf(p, AttributionKeys).alive
    BY <1>2 DEF ProcessOf
<1>7. \A p \in RecordedPids \ (DOMAIN running \cup {Self, Probe}) : ~ ProcessOf(p, AttributionKeys).alive
    BY DEF ProcessOf
<1> HIDE DEF seen
<1>8. ProcessOf(Self, AttributionKeys).alive /\ ProcessOf(Probe, AttributionKeys).alive
    BY <1>3, <1>4
<1>9. LivePids(Clean) = DOMAIN running \cup {Self, Probe}
    BY <1>1, <1>6, <1>7, <1>8 DEF LivePids
<1>10. QED
    BY <1>1, <1>3, <1>4, <1>5, <1>9

\* The machine and its inspection are known as such.
LEMMA InspectionsAreOwn ==
    ASSUME IInv
    PROVE  {Self, Probe} \subseteq OwnProcesses(Clean, CleanJudge)
<1>1. DOMAIN Clean.processes = DOMAIN running \cup {Self, Probe} \cup RecordedPids
    BY DEF Clean, Seen, Observed
<1>2. ChildOf(Probe, Self, Clean)
    <2>1. "startedAt" \in AttributionKeys /\ SelfStart <= SelfStart
        BY ResourcesAssumption DEF AttributionKeys
    <2>2. QED
        BY <1>1, <2>1, LiveAre DEF ChildOf
<1>3. CleanJudge.self = Self
    BY CleanJudgeIs
<1>4. {Self, Probe} \subseteq Kin(Clean, CleanJudge)
    BY <1>1, <1>2, <1>3 DEF Kin
<1>5. QED
    BY <1>1, <1>2, <1>3, <1>4 DEF OwnProcesses

\* Nothing looks like the child's server except, both or neither, the machine and its
\* inspection; so nothing is attributed to its entry.
LEMMA NothingAttributed ==
    ASSUME IInv, StartsInv, AllGone, NEW e \in entries, e.id = "server"
    PROVE  Claim(e, Clean) = {}
<1>1. ServerEntry(e)
    BY DEF IInv, EntriesInv
<1>2. ASSUME NEW p \in DOMAIN running, LooksLike(e, Clean.processes[p]) PROVE FALSE
    <2>1. running[p].who = "unit"
        BY UnitsOnly
    <2> DEFINE proc == Clean.processes[p]
    <2>2. /\ DOMAIN proc.seen = AttributionKeys
          /\ proc.seen["commandLine"] = Commands["unit"]
          /\ proc.seen["startedAt"] = running[p].since
        BY <2>1, SeenProcess DEF Clean, AttributionKeys
    <2>3. ASSUME NEW k \in AttributionKeys, k \in DOMAIN e.ids PROVE e.ids[k] = proc.seen[k]
        BY <1>2, <2>2, <2>3 DEF LooksLike, Comparable
    <2>4. PICK k \in AttributionKeys \cap DOMAIN e.ids : k # "cwd"
        BY <1>2, <2>2 DEF LooksLike, Comparable
    <2>5. CASE k = "commandLine"
        BY <1>1, <2>2, <2>3, <2>4, <2>5 DEF ServerEntry, Commands
    <2>6. CASE k = "startedAt"
        BY <2>1, <2>2, <2>3, <2>4, <2>6 DEF StartsInv
    <2>7. QED
        BY <2>4, <2>5, <2>6 DEF AttributionKeys
<1>3. Candidates(e, Clean) \subseteq {Self, Probe}
    BY <1>2, LiveAre DEF Candidates
<1>4. Self \in Candidates(e, Clean) <=> Probe \in Candidates(e, Clean)
    BY LiveAre DEF Candidates, LooksLike, Comparable
<1>5. Cardinality(Candidates(e, Clean)) # 1
    <2>1. \A x : Candidates(e, Clean) # {x}
        BY <1>3, <1>4, ResourcesAssumption
    <2>2. IsFiniteSet({Self, Probe})
        <3>1. IsFiniteSet({Self} \cup {Probe})
            BY FS_Singleton, FS_AddElement
        <3>2. {Self} \cup {Probe} = {Self, Probe}
            OBVIOUS
        <3>3. QED
            BY <3>1, <3>2
    <2>3. IsFiniteSet(Candidates(e, Clean))
        BY <1>3, <2>2, FS_Subset
    <2>4. QED
        BY <2>1, <2>3, FS_Singleton
<1>6. QED
    BY <1>5 DEF Claim

\* The resource of every entry of the child is seen to be absent.
LEMMA ChildsAbsent ==
    ASSUME IInv, StartsInv, AllGone, NEW e \in Childs
    PROVE  Presence(e, Attributed(e, entries, Clean), Clean) = "absent"
<1>1. /\ Clean.exists = {} /\ Clean.remotes = {} /\ Clean.worktrees = {} /\ Clean.branches = {}
      /\ DOMAIN Clean.absence = Urls /\ \A url \in Urls : Clean.absence[url]
      /\ DOMAIN Clean.ports = {Port} /\ ~ Clean.ports[Port]
      /\ DOMAIN Clean.processes = DOMAIN running \cup {Self, Probe} \cup RecordedPids
    BY CleanIs
<1>2. e \in entries /\ e.owner = "child"
    BY DEF Childs
<1>3. ~ Undetermined(e, Clean) /\ ~ PlaceSeen(e, Clean)
    BY <1>1 DEF Undetermined, AbsenceConfirmed, PlaceSeen
<1>4. CASE e.id = "server"
    <2>1. ServerEntry(e)
        BY <1>2, <1>4 DEF IInv, EntriesInv
    <2>2. Attributed(e, entries, Clean) = {}
        BY <1>2, <1>4, NothingAttributed DEF Attributed
    <2>3. HasPid(e) => ~ AlivePid(Clean, e.ids["pid"]) /\ e.ids["pid"] \in DOMAIN Clean.processes
        <3>1. SUFFICES ASSUME HasPid(e)
                       PROVE  ~ AlivePid(Clean, e.ids["pid"]) /\ e.ids["pid"] \in DOMAIN Clean.processes
            OBVIOUS
        <3>3. e.ids["pid"] \in Pids
            BY <2>1, <3>1 DEF ServerEntry, HasPid
        <3>4. e.ids["pid"] \notin DOMAIN running
            BY <1>2, <3>1 DEF AllGone, Recorded, HasPid
        <3>5. e.ids["pid"] \in RecordedPids
            BY <1>2, <3>1 DEF RecordedPids, Recorded, HasPid
        <3>6. QED
            BY <1>1, <3>3, <3>4, <3>5, LiveAre, ResourcesAssumption DEF AlivePid
    <2>4. "branch" \notin DOMAIN e.ids
        BY <2>1 DEF ServerEntry, ServerKeys
    <2>5. "listenPort" \in DOMAIN e.ids =>
              e.ids["listenPort"] \in DOMAIN Clean.ports /\ ~ Clean.ports[e.ids["listenPort"]]
        BY <1>1, <2>1 DEF ServerEntry
    <2>6. ~ SeenPresent(e, Attributed(e, entries, Clean), Clean)
        BY <1>3, <2>2, <2>3, <2>4, <2>5 DEF SeenPresent
    <2>7. ~ NotCovered(e, Attributed(e, entries, Clean), Clean)
        BY <2>3, <2>5 DEF NotCovered
    <2>8. QED
        BY <1>3, <2>6, <2>7 DEF Presence
<1>5. CASE e.id = "remote"
    <2>1. DOMAIN e.ids = {"url"}
        BY <1>2, <1>5 DEF IInv, EntriesInv, RemoteEntry
    <2>2. ~ SeenPresent(e, Attributed(e, entries, Clean), Clean)
          /\ ~ NotCovered(e, Attributed(e, entries, Clean), Clean)
        BY <1>3, <2>1 DEF SeenPresent, NotCovered, HasPid
    <2>3. QED
        BY <1>3, <2>2 DEF Presence
<1>6. QED
    BY <1>2, <1>4, <1>5 DEF IInv, EntriesInv, UnitsEntry

\* When everything of the child is gone, collected and confirmed, and nothing runs
\* that might be taken for it, the reconciliation of close permits, whatever the unit
\* has left and whatever attributes were recorded.
THEOREM CleanPassesAlways == Spec => []CleanPasses
<1>1. IInv /\ StartsInv => CleanPasses
    <2> SUFFICES ASSUME IInv, StartsInv, AllGone
                 PROVE  Passes(AttributionKeys, RecordedPids, {}, {})
        BY DEF CleanPasses, AllGone
    <2>1. /\ Clean.failures = {} /\ Clean.files = {} /\ Clean.remotes = {} /\ Clean.branches = {}
          /\ DOMAIN Clean.absence = Urls /\ \A url \in Urls : Clean.absence[url]
          /\ DOMAIN Clean.ports = {Port} /\ ~ Clean.ports[Port]
        BY CleanIs
    <2>2. \A e \in entries : IsChilds(e, CleanJudge) => e \in Childs
        BY CleanJudgeIs DEF IsChilds, Childs
    <2>3. \A e \in Childs : e.collected /\ Confirmed(e, CleanJudge)
        BY CleanJudgeIs DEF AllGone, Confirmed, Covers
    <2>4. \A e \in entries : IsChilds(e, CleanJudge) => Settled(e, entries, Clean, CleanJudge)
        BY <2>2, <2>3, ChildsAbsent DEF Settled
    <2>5. UnregisteredFiles(entries, Clean, CleanJudge) = {}
        BY <2>1 DEF UnregisteredFiles
    <2>6. ResiduesFound(entries, Clean, CleanJudge) = {}
        <3>1. \A r \in CleanJudge.residues : DOMAIN r.ids = {}
            BY CleanJudgeIs
        <3>2. \A u : u \notin Clean.remotes /\ ~ (u \in DOMAIN Clean.absence /\ ~ Clean.absence[u])
            BY <2>1
        <3>3. QED
            BY <2>1, <3>1, <3>2 DEF ResiduesFound, HasPid
    <2>7. UnregisteredProcesses(entries, Clean, CleanJudge) = {}
        <3>1. RecordedPids \subseteq Recorded("pid", entries \cup CleanJudge.residues)
            BY DEF RecordedPids, Recorded
        <3>2. LivePids(Clean) \subseteq RecordedPids \cup {Self, Probe}
            BY LiveAre DEF AllGone
        <3>3. QED
            BY <3>1, <3>2, InspectionsAreOwn DEF UnregisteredProcesses
    <2>8. UnregisteredPorts(entries, Clean, CleanJudge) = {}
        BY <2>1 DEF UnregisteredPorts
    <2>9. UnregisteredRemotes(entries, Clean, CleanJudge) = {}
        BY <2>1 DEF UnregisteredRemotes
    <2>10. entries # {}
        BY DEF AllGone, Childs
    <2>11. Permitted(entries # {}, entries, Clean, CleanJudge)
        BY <2>1, <2>4, <2>5, <2>6, <2>7, <2>8, <2>9, <2>10 DEF Permitted
    <2>12. \A e \in entries : e.basis = "occurrence" \/ e.allowedPlace
        BY DEF StartsInv
    <2>13. RequiredScopes \subseteq CleanJudge.scopes /\ CleanJudge.recordable
        BY CleanJudgeIs
    <2>14. Connected(entries # {}, entries, Clean, CleanJudge)
        BY <2>1, <2>2, <2>3, <2>10, <2>12, <2>13 DEF Connected
    <2>15. QED
        BY <2>11, <2>14 DEF Passes, StepPasses, Clean, Seen, CleanJudge
<1>2. QED
    BY <1>1, StartsAlways, PTL
=============================================================================
