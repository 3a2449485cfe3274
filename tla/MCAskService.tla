---------------------------- MODULE MCAskService ----------------------------
(***************************************************************************)
(* Instances of AskService for TLC.  Capacity is 8 in the program; one and *)
(* two permits already give a queue, a hand-over and a refusal.            *)
(***************************************************************************)
EXTENDS DriftListing, TLC

CONSTANTS r1, r2, r3, p1, p2

ShortAnswers == {<<"decline">>, <<>>}
DriftAnswers == {<<"current_risk", "risk_drift">>, <<"risk_drift">>}
MixedAnswers == DriftAnswers \cup {<<"policy_check", "other_name">>, <<"decline">>}
AdmittedAnswers == {<<"current_risk", "risk_drift">>, <<>>, <<"decline">>}

\* The two requests are alike, and so are the portfolios.
AlikePair == Permutations({r1, r2}) \cup Permutations({p1, p2})

=============================================================================
