---------------------------- MODULE SourceLanes ----------------------------
(***************************************************************************)
(* A run over several sources: _run_full_source_lanes.  Each source has a  *)
(* lane, a task of its own that asks its provider once; when all lanes     *)
(* have ended their candidates are applied in the order of the source      *)
(* plan, people seen under several resumes become one identity, and what   *)
(* has no scorecard yet is scored.                                         *)
(* No source fills protected_contact_hashes, so an identity is all resumes *)
(* with one provider candidate key.                                        *)
(***************************************************************************)
EXTENDS FiniteSets, Naturals

CONSTANTS Source,      \* "cts" and "liepin"
          Offers,      \* the candidates a source may bring
          Person,      \* provider candidate key of a resume
          Standing,    \* order in which one resume of a person is preferred to another
          Place,       \* scored_candidate_sort_key as a number, the best first
          TopK         \* size of the top pool, and new candidates wanted per round

VARIABLES
    plan,   \* source kinds of the run
    lane    \* per source: status of its lane result and its candidates

laneFrame == <<plan, lane>>

Idle == [status |-> "idle", found |-> {}]
Ended == {"completed", "partial", "failed", "blocked"}

LanesInit == plan \in (SUBSET Source) \ {{}} /\ lane = [s \in Source |-> Idle]

\* The task group starts a task per source of the plan.
StartLanes == lane' = [s \in Source |-> IF s \in plan THEN [Idle EXCEPT !.status = "running"] ELSE Idle]

Returns(s, st, found) ==
    /\ lane[s].status = "running"
    /\ lane' = [lane EXCEPT ![s] = [status |-> st, found |-> found]]
    /\ UNCHANGED plan

\* The CTS lane asks for one page.
CtsLaneReturns == \E found \in SUBSET Offers["cts"] : Returns("cts", "completed", found)

\* The Liepin lane may come back with part of what it was asked for.
LiepinLaneReturns ==
    \E found \in SUBSET Offers["liepin"], st \in {"completed", "partial"} :
        Returns("liepin", st, found)

\* The Liepin lane has no backend, or its account cannot be used.
LaneBlocked == Returns("liepin", "blocked", {})

\* Whatever else a lane raises becomes its result.
LaneFails(s) == Returns(s, "failed", {})

LaneEnds(s) ==
    \/ s = "cts" /\ CtsLaneReturns
    \/ s = "liepin" /\ (LiepinLaneReturns \/ LaneBlocked)
    \/ LaneFails(s)

\* Mutant: a lane that is blocked or fails is waited for.
AllDone == \A s \in plan : lane[s].status \in {"completed", "partial"}

AllEnded == \A s \in plan : lane[s].status \in Ended

\* apply_source_lane_result for each lane in turn.
Applied == UNION {lane[s].found : s \in {x \in plan : lane[x].status # "blocked"}}

\* _source_coverage_summary.
Coverage ==
    IF Applied = {} THEN "empty"
    ELSE IF \A s \in plan : lane[s].status = "completed" /\ lane[s].found # {} THEN "complete"
    ELSE "degraded"

----------------------------------------------------------------------------
(* Top pools.                                                              *)

\* The k best of a set of scored resumes.
Best(cards, k) == {r \in cards : Cardinality({x \in cards : Place[x] < Place[r]}) < k}

\* choose_canonical_resume_for_identity: the preferred resume of r's person.
Canonical(r, seen) ==
    LET own == {x \in seen : Person[x] = Person[r]}
    IN  CHOOSE x \in own : \A y \in own : Standing[x] >= Standing[y]

\* Mutant: the top pool goes by resumes.
IdentityTopPoolByResume(seen, cards) == Best(cards, TopK)

\* _apply_identity_top_pool: people by their best card, each shown by the
\* resume that is preferred for this person.
IdentityTopPool(seen, cards) ==
    LET leads == {r \in cards : \A x \in cards : Person[x] = Person[r] => Place[x] >= Place[r]}
        shown(r) == IF Canonical(r, seen) \in cards THEN Canonical(r, seen) ELSE r
    IN  {shown(r) : r \in Best(leads, TopK)}

=============================================================================
