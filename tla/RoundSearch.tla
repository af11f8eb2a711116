---------------------------- MODULE RoundSearch ----------------------------
(***************************************************************************)
(* What a round of the runtime may expect of one search for candidates:    *)
(* it finds only resumes that no earlier round has counted, one batch      *)
(* after another, and it ends, with at most `target` of them or with an    *)
(* error and nothing to show.  RetrievalLoop implements it; RuntimeRun     *)
(* is built on it.                                                         *)
(***************************************************************************)
EXTENDS FiniteSets, Naturals

CONSTANTS Resume,  \* resumes, by resume_id
          Targets  \* how many new resumes a round may want

VARIABLES target,  \* how many new resumes are wanted
          known,   \* resumes of earlier rounds
          found,   \* resumes the search has counted so far
          ended    \* "no", "found" or "failed"

searchVars == <<target, known, found, ended>>

Init == /\ target \in Targets
        /\ known \in SUBSET Resume
        /\ found = {}
        /\ ended = "no"

\* One lane of the query bundle reports what it found.
Gather == /\ ended = "no"
          /\ found \subseteq found' /\ found' # found
          /\ found' \subseteq Resume \ known
          /\ Cardinality(found') <= target
          /\ UNCHANGED <<target, known, ended>>

Return == /\ ended = "no"
          /\ ended' = "found"
          /\ UNCHANGED <<target, known, found>>

Break == /\ ended = "no"
         /\ ended' = "failed"
         /\ UNCHANGED <<target, known, found>>

Next == Gather \/ Return \/ Break

\* The search comes to an end as long as the provider and the scorer answer.
Spec == Init /\ [][Next]_searchVars /\ WF_searchVars(Return \/ Break)
=============================================================================
