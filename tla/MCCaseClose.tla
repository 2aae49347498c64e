---------------------------- MODULE MCCaseClose -----------------------------
(* CaseClose on a small instance.                                              *)
EXTENDS CaseClose

BothBackends == {"github", "local"}
\* One check that is repeated, one that says nothing either way, one that ends the run.
SomeTroubles ==
    {<<"mergeable-polling", "unknown">>, <<"acceptance-evaluation", "undetermined">>,
     <<"gate-availability", "fail">>}
=============================================================================
