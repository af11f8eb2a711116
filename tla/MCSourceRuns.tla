--------------------------- MODULE MCSourceRuns ---------------------------
(* Two sessions of one recruiter that share the Liepin connection.         *)
EXTENDS SourceRuns, TLC

CONSTANTS s1, s2, cts1, liepin1, liepin2
MCSession == {s1, s2}
MCCtsRun == {cts1}
MCLiepinRun == {liepin1, liepin2}
MCSessionOf == cts1 :> s1 @@ liepin1 :> s1 @@ liepin2 :> s2
Symmetry == Permutations(Job)
=============================================================================
