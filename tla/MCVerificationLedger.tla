------------------------ MODULE MCVerificationLedger ------------------------
(* VerificationLedger on a small instance, one operation after another.        *)
EXTENDS VerificationLedger, TLC

CONSTANTS first, clone, server

\* The two resources are alike.
Symmetry == Permutations({clone, server})
=============================================================================
