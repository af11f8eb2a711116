------------------------ MODULE MCRequirementTriage ------------------------
(* One session with a run of each kind, one edit, one extraction result, and *)
(* a second thread id for an extraction that starts while another one ends.  *)
EXTENDS RequirementTriage, TLC

CONSTANTS s1, cts1, liepin1
MCSession == {s1}
MCCtsRun == {cts1}
MCLiepinRun == {liepin1}
MCSessionOf == cts1 :> s1 @@ liepin1 :> s1
Symmetry == Permutations(Job) \cup Permutations(Extractor)
=============================================================================
