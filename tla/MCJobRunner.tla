---------------------------- MODULE MCJobRunner ----------------------------
(* One session with both source runs, the two CTS workers and the one Liepin *)
(* worker of job_runner.py, with a spare thread id for the Liepin lane.       *)
EXTENDS JobRunner, TLC

CONSTANTS s1, cts1, liepin1
MCSession == {s1}
MCCtsRun == {cts1}
MCLiepinRun == {liepin1}
MCSessionOf == cts1 :> s1 @@ liepin1 :> s1
Symmetry == Permutations(Job) \cup Permutations(CtsThread) \cup Permutations(LiepinThread)
=============================================================================
