--------------------------- MODULE MCInspectionRun ---------------------------
(* Instances of InspectionRun for TLC.                                         *)
EXTENDS InspectionRun, TLC

CONSTANTS final, independent, tool, worded, only, other

\* A final gate, an independent one, and an agent that writes that text.
PurposeOfGates == (final :> "final") @@ (independent :> "independent")
FinalAlone == final :> "final"
PlannedByTool == tool :> [file |-> 1, text |-> worded]

\* One content of the dictionary forbids a word of the text.
WordForbidden == {<<worded, only>>}
=============================================================================
