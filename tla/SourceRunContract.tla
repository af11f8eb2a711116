------------------------- MODULE SourceRunContract -------------------------
(***************************************************************************)
(* What the workbench promises about one source run, whatever tables,      *)
(* leases and threads implement it: a run is worked on by one attempt at a *)
(* time, results are published only out of an attempt in progress, and a   *)
(* run that is done never starts again and never changes its results.      *)
(* SourceRuns implements this contract (see SourceRuns!Contract).          *)
(***************************************************************************)
CONSTANT Run

VARIABLES phase,     \* where the run stands
          published  \* what the recruiter can see of it

contractVars == <<phase, published>>

Phase == {"idle", "waiting", "working", "done"}
Published == {"nothing", "provisional", "final"}

Init == /\ phase = [r \in Run |-> "idle"]
        /\ published = [r \in Run |-> "nothing"]

\* A start request was accepted: one attempt now waits for a worker.
Enqueue(r) == /\ phase[r] = "idle"
              /\ phase' = [phase EXCEPT ![r] = "waiting"]
              /\ UNCHANGED published

\* A worker took the waiting attempt.
Begin(r) == /\ phase[r] = "waiting"
            /\ phase' = [phase EXCEPT ![r] = "working"]
            /\ UNCHANGED published

\* The attempt delivered the run's results.
Deliver(r) == /\ phase[r] = "working"
              /\ phase' = [phase EXCEPT ![r] = "done"]
              /\ published' = [published EXCEPT ![r] = "final"]

\* The attempt was set aside, to be tried again: what it found stays visible.
SetAside(r) == /\ phase[r] = "working"
               /\ phase' = [phase EXCEPT ![r] = "idle"]
               /\ published' = [published EXCEPT ![r] = "provisional"]

\* The attempt failed after its lane had reported what it found.
FailWithResults(r) == /\ phase[r] = "working"
                      /\ phase' = [phase EXCEPT ![r] = "done"]
                      /\ published' = [published EXCEPT ![r] = "provisional"]

\* Attempts failed, or were given up because nobody was heard of them.
GiveUp(R) == /\ R # {}
             /\ \A r \in R : phase[r] = "working"
             /\ phase' = [r \in Run |-> IF r \in R THEN "done" ELSE phase[r]]
             /\ UNCHANGED published

Next == \/ \E r \in Run : \/ Enqueue(r) \/ Begin(r) \/ Deliver(r)
                          \/ SetAside(r) \/ FailWithResults(r)
        \/ \E R \in SUBSET Run : GiveUp(R)

Spec == Init /\ [][Next]_contractVars
=============================================================================
