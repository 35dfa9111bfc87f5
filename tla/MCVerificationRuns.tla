------------------------- MODULE MCVerificationRuns -------------------------
(* Small instances of VerificationRuns. *)
EXTENDS VerificationRuns

\* Inputs are only compared with one another: which there are at first makes
\* no difference.
OneStart == Init /\ inputs = CHOOSE i \in Inputs : TRUE
StorySpec == OneStart /\ [][Next]_vars /\ Fairness
=============================================================================
