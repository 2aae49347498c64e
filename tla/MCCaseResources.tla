--------------------------- MODULE MCCaseResources ---------------------------
(* CaseResources on a small instance.  The directory of the child is in the    *)
(* dedicated area; nothing else is inside of anything, and the command lines   *)
(* name no place.                                                              *)
EXTENDS CaseResources, TLC

CONSTANTS p1, p2, p3
ThreePids == {p1, p2, p3}
AnyPid == Permutations(ThreePids)
NoPairs == {}
TwoWays == {{"listenPort"}, {"pid", "commandLine", "cwd", "startedAt"}}
TheRemote == {Url}
=============================================================================
