------------------------ MODULE MCJobRunnerLiveness ------------------------
(* The Liepin lane alone, with a run that can be set aside and started      *)
(* again while its worker thread is winding down.                           *)
EXTENDS JobRunner, TLC

CONSTANTS s1, liepin1
MCSession == {s1}
MCLiepinRun == {liepin1}
MCSessionOf == liepin1 :> s1
=============================================================================
