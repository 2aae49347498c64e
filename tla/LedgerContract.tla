---------------------------- MODULE LedgerContract ----------------------------
(* What the ledger of a case promises: every operation happens at one point,   *)
(* or not at all.  It adds one entry under a free id, records one fact of one  *)
(* entry, or moves all entries, collected, to the final records at once; what  *)
(* it tells is on record when it tells it.  Entries are lost in two ways only, *)
(* and each is known: the ledger is damaged, or the report of a reclamation,   *)
(* which holds the final record, is lost.                                      *)
EXTENDS Naturals

VARIABLES
    entries,  \* that the ledger has
    final,    \* entries in final records
    told,     \* the facts that operations told
    damaged,  \* can the ledger not be read?
    lost      \* was a report lost?

vars == <<entries, final, told, damaged, lost>>

Init == entries = {} /\ final = {} /\ told = {} /\ damaged = FALSE /\ lost = FALSE

Enter ==
    /\ ~ damaged
    /\ \E e \in entries' :
        /\ \A d \in entries : d.id # e.id
        /\ ~ e.confirmed /\ ~ e.collected
        /\ entries' = entries \cup {e}
    /\ UNCHANGED <<final, told, damaged, lost>>

Becomes(e, f) ==
    /\ entries' = (entries \ {e}) \cup {f}
    /\ UNCHANGED <<final, told, damaged, lost>>

Confirm ==
    ~ damaged /\ \E e \in entries : ~ e.confirmed /\ Becomes(e, [e EXCEPT !.confirmed = TRUE])

Collect ==
    ~ damaged /\ \E e \in entries : ~ e.collected /\ Becomes(e, [e EXCEPT !.collected = TRUE])

AllCollected == ~ damaged /\ \A e \in entries : e.collected

Reclaim ==
    /\ AllCollected
    /\ entries' = {} /\ final' = final \cup entries
    /\ UNCHANGED <<told, damaged, lost>>

Says(e, fact) ==
    /\ e.id = fact.id /\ e.resource = fact.resource
    /\ fact.fact = "confirmed" => e.confirmed
    /\ fact.fact = "collected" => e.collected

Tell ==
    /\ \E fact \in told' : told' = told \cup {fact} /\ \E e \in entries : Says(e, fact)
    /\ UNCHANGED <<entries, final, damaged, lost>>

Damage ==
    /\ ~ damaged /\ damaged' = TRUE
    /\ entries' = {}
    /\ UNCHANGED <<final, told, lost>>

LoseReport ==
    /\ AllCollected
    /\ entries' = {} /\ lost' = TRUE
    /\ UNCHANGED <<final, told, damaged>>

Next == Enter \/ Confirm \/ Collect \/ Reclaim \/ Tell \/ Damage \/ LoseReport

Spec == Init /\ [][Next]_vars
=============================================================================
