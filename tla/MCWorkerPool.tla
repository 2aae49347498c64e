---------------------------- MODULE MCWorkerPool ----------------------------
(* Instances of WorkerPool for TLC.                                            *)
EXTENDS WorkerPool, TLC

CONSTANTS wide, narrow

\* Two gates that share the pool: one may use two workers, the other one.
TwoCalls == {wide, narrow}
TwoRequested == (wide :> 2) @@ (narrow :> 1)
FourTargets == 1..4
FourOwner == (1 :> wide) @@ (2 :> wide) @@ (3 :> narrow) @@ (4 :> narrow)

\* A gate alone: its three targets share the one worker it may use.
OneCall == {wide}
OneRequested == wide :> 1
ThreeTargets == 1..3
ThreeOwner == (1 :> wide) @@ (2 :> wide) @@ (3 :> wide)
=============================================================================
