------------------------------ MODULE MCEpicRun ------------------------------
(* EpicRun on a small instance: two children that need nothing, for one slot,  *)
(* and one of the next Wave that needs the first of them and whose start needs *)
(* a Definition merge.                                                         *)
EXTENDS EpicRun, TLC

CONSTANTS a, b, c
ThreeRows == <<a, b, c>>
LastNeedsFirst == (a :> {}) @@ (b :> {}) @@ (c :> {a})
TwoWaves == (a :> 1) @@ (b :> 1) @@ (c :> 2)
=============================================================================
