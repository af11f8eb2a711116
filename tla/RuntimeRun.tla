----------------------------- MODULE RuntimeRun -----------------------------
(***************************************************************************)
(* One run of the sourcing runtime, WorkflowRuntime.run_async: the stages  *)
(* in which models are asked, the rounds of a CTS run with the rescue      *)
(* lanes behind their quality gate, the lanes of a run over several        *)
(* sources, and the shortlist.  The search of a round is RoundSearch, which *)
(* RetrievalLoop implements; queries and the gate are in QueryTerms, lanes  *)
(* and top pools in SourceLanes, opening and closing in RunStores.         *)
(* The code between two awaits is one action.  The await of a commentary   *)
(* on each round is left out: its errors are swallowed.                    *)
(***************************************************************************)
EXTENDS QueryTerms, SourceLanes, RunStores

CONSTANTS Resume,      \* resumes, by resume_id
          Proposals,   \* queries a controller may come up with
          MinRounds, MaxRounds, \* settings
          FeedbackOn   \* candidate_feedback_enabled

ASSUME RunAssumption ==
    /\ TopK \in Nat \ {0} /\ MinRounds \in 1..MaxRounds /\ MaxRounds \in Nat
    /\ Proposals \subseteq Seq(Term) /\ FeedbackOn \in BOOLEAN
    /\ {"cts", "liepin"} \subseteq Source
    /\ IsFiniteSet(Resume) /\ \A s \in Source : Offers[s] \subseteq Resume
    /\ Place \in [Resume -> Int] /\ Standing \in [Resume -> Int]
    /\ \A r, x \in Resume : Place[r] = Place[x] \/ Standing[r] = Standing[x] => r = x

VARIABLES
    attempt,   \* which try of the model the stage is at
    round,     \* round_no
    run,       \* RunState, as far as decisions depend on it
    query,     \* the retrieval plan of the round (bare: the gate of the decision lets
               \* the anchor go alone) and its second query
    batch,     \* resumes the search of the round has counted
    ended      \* has that search returned?

locals == <<attempt, round, run, query, batch, ended>>
vars == <<frame, laneFrame, locals>>

NewRun == [pool |-> CompiledPool,   \* query_term_pool
           history |-> {},          \* sent_query_history
           fedBack |-> FALSE,       \* candidate_feedback_attempted
           anchorTried |-> FALSE,   \* anchor_only_broaden_attempted
           seen |-> {},             \* seen_resume_ids
           cards |-> {},            \* scorecards_by_resume_id
           top |-> {},              \* top_pool_ids
           done |-> 0,              \* rounds in round_history
           productive |-> 0,        \* those that found somebody new
           backed |-> {},           \* terms the last reflection would activate or keep
           reason |-> "max_rounds"] \* stop_reason
NoQuery == [terms |-> <<>>, second |-> <<>>, broaden |-> FALSE, bare |-> FALSE,
            target |-> 0]

Init ==
    /\ OpenInit /\ LanesInit
    /\ attempt = "first" /\ round = 1 /\ run = NewRun
    /\ query = NoQuery /\ batch = {} /\ ended = "no"

----------------------------------------------------------------------------
(* Asking a model.                                                         *)

\* An invalid answer is repaired by a second model, and if that does not help the
\* first is asked once more; the finalizer's model is asked three times.
Asking == {"requirements", "controller", "reflect", "finalize"}

AskAgain(s) ==
    /\ stage = s /\ attempt # "again"
    /\ attempt' = IF attempt = "first" THEN "repair" ELSE "again"
    /\ UNCHANGED <<frame, laneFrame, round, run, query, batch, ended>>

ExtractAgain == AskAgain("requirements")
DecideAgain == AskAgain("controller")
ReflectAgain == AskAgain("reflect")
FinalizeAgain == AskAgain("finalize")

\* In the finally block nothing looks at the locals any more.
Forget ==
    /\ run' = NewRun /\ query' = NoQuery /\ batch' = {} /\ ended' = "no"
    /\ attempt' = "first" /\ round' = 1
    /\ UNCHANGED plan /\ lane' = [s \in Source |-> Idle]

\* A stage raises: the handler of run_async fails the run.
Raise(s) == stage = s /\ Fail /\ Forget

\* The model cannot be called, its last answer is invalid, or an artifact cannot be
\* written.
RequirementsFail == Raise("requirements")
ControllerFails == Raise("controller")
ReflectionFails == Raise("reflect")
FinalizerFails == Raise("finalize")

\* The query cannot be compiled for the provider, or the plan not be written.
PlanFails == Raise("plan")

\* Not the model, whose errors end in the generic query, but what is made of its
\* answer, or an artifact.
PrfFails == Raise("prf")

\* One resume that cannot be scored fails the round.
ScoringFails == stage \in {"score", "rescore"} /\ Raise(stage)

\* The rows about the round's queries are written in a finally block around the
\* scoring; what they raise takes the place of a scoring error.
RowsFail == Raise("score")

\* No lane raises; the plan or what is written of the lanes' results does.
LanesFail == Raise("lanes")

\* The evaluation, when it is enabled, or the report.
EvaluationFails == Raise("evaluate")

CancelRun ==
    /\ Cancel
    /\ Forget

To(s) == stage' = s /\ attempt' = "first" /\ UNCHANGED <<store, status, outcome>>

\* build_run_state; a run over CTS alone has rounds, any other has lanes.
Requirements ==
    /\ stage = "requirements"
    /\ IF plan = {"cts"}
       THEN To("controller") /\ UNCHANGED lane
       ELSE To("lanes") /\ StartLanes
    /\ UNCHANGED <<plan, round, run, query, batch, ended>>

----------------------------------------------------------------------------
(* The decision of a round.                                                *)

Gate == Guidance(round, run.done, MinRounds, MaxRounds, run.top, run.productive, run.pool, run.history)
Lane == RescueLane(Gate, run.top, run, FeedbackOn)

\* validate_controller_decision and sanitize_controller_decision agree on queries.
Valid(terms) == Accepted(terms, round, run.pool, run.backed, FALSE)

Forced(r, terms, broaden) == [run |-> r, terms |-> terms, broaden |-> broaden, stop |-> FALSE]

\* What the controller may answer: <<>> asks to stop.
Answers == {<<>>} \cup {terms \in Proposals : Valid(terms)}

\* Mutant: a stop goes through whenever the controller asks for it.
OwnDecisionTrusted(r, answer) ==
    IF answer # <<>> THEN Forced(r, CanonicalTerms(answer), FALSE)
    ELSE [Forced(r, <<>>, FALSE) EXCEPT !.stop = TRUE]

\* The controller's decision, if the gate lets it stop; r is the run after a rescue.
OwnDecision(r, answer) ==
    IF answer # <<>> THEN Forced(r, CanonicalTerms(answer), FALSE)
    ELSE IF Gate.canStop THEN [Forced(r, <<>>, FALSE) EXCEPT !.stop = TRUE]
    ELSE Forced(r, SelectTerms(r.pool, round), FALSE)

AnchorOnly(r) == Forced([r EXCEPT !.anchorTried = TRUE], <<ActiveAnchor(r.pool)>>, TRUE)

\* Mutant: the reserve term stays inactive.
BroadenInactive == Forced(run, <<ActiveAnchor(run.pool), NextReserve(run.pool, run.history)>>, TRUE)

Broaden ==
    LET reserve == NextReserve(run.pool, run.history)
    IN  Forced([run EXCEPT !.pool.active = @ \cup {reserve}],
               <<ActiveAnchor(run.pool), reserve>>, TRUE)

\* The lane that is left when no phrase is safe.
AfterFeedback(tried, answer) ==
    IF run.anchorTried THEN OwnDecision(tried, answer) ELSE AnchorOnly(tried)

\* A phrase that the seed resumes share joins the pool, or the next lane is taken.
Feedback(answer) ==
    LET tried == [run EXCEPT !.fedBack = TRUE]
        phrases == FeedbackPhrases(run.top, run.cards, run.pool, run.history)
    IN  IF phrases = {} THEN {AfterFeedback(tried, answer)}
        ELSE {Forced([tried EXCEPT !.pool = [terms |-> @.terms \cup {p}, active |-> @.active \cup {p}]],
                     <<ActiveAnchor(run.pool), p>>, FALSE) : p \in phrases}

\* resolve_round_decision: what can become of the controller's answer.
Resolutions(answer) ==
    LET rescue == Lane
    IN  CASE rescue = "reserve_broaden" -> {Broaden}
          [] rescue = "candidate_feedback" -> Feedback(answer)
          [] rescue = "anchor_only" -> {AnchorOnly(run)}
          [] OTHER -> {OwnDecision(run, answer)}

\* What the decision comes to is the plan of the round, or the end of the rounds.
Resolve(d) ==
    /\ run' = [d.run EXCEPT !.reason = IF d.stop THEN "stopped" ELSE @]
    /\ query' = IF d.stop THEN NoQuery
                ELSE [terms |-> d.terms, second |-> <<>>, broaden |-> d.broaden,
                      bare |-> Gate.status = "broaden_required", target |-> TopK]
    /\ To(IF d.stop THEN "finalize" ELSE "plan")
    /\ UNCHANGED <<laneFrame, round, batch, ended>>

\* select_query_terms raises where it finds no query.
Decide ==
    /\ stage = "controller"
    /\ \E answer \in Answers : \E d \in Resolutions(answer) :
         IF d.stop \/ d.terms # <<>> THEN Resolve(d) ELSE Fail /\ Forget

----------------------------------------------------------------------------
(* The rest of a round.                                                    *)

\* build_round_retrieval_plan checks the query once more.
Plan ==
    /\ stage = "plan"
    /\ IF Accepted(query.terms, round, run.pool, run.backed, query.bare \/ run.anchorTried)
       THEN To("prf")
       ELSE Fail /\ UNCHANGED attempt
    /\ UNCHANGED <<laneFrame, round, run, query, batch, ended>>

\* The model is asked for phrases of the seed resumes; whatever goes wrong, and if none
\* of them is accepted, there is none.
PrfProposals ==
    {{}} \cup {{p} : p \in PrfPhrases(run.top, run.cards, query.terms, run.pool, run.history)}

Prf ==
    /\ stage = "prf"
    /\ \E phrase \in PrfProposals :
         query' = [query EXCEPT !.second =
                     SecondQuery(query.terms, round, run.pool, run.history, phrase)]
    /\ To("search")
    /\ UNCHANGED <<laneFrame, round, run, batch, ended>>

Search == INSTANCE RoundSearch WITH
    Targets <- {TopK}, target <- query.target, known <- run.seen, found <- batch

SearchGathers ==
    /\ stage = "search" /\ UNCHANGED <<run, query>>
    /\ batch' \in SUBSET (Resume \ run.seen) /\ ended' = ended
    /\ Search!Gather
    /\ UNCHANGED <<frame, laneFrame, attempt, round>>

SearchReturns ==
    /\ stage = "search" /\ UNCHANGED <<run, query>> /\ Search!Return
    /\ UNCHANGED <<frame, laneFrame, attempt, round>>

\* The search has raised: its error is passed on.
SearchFails == ended = "failed" /\ Raise("search")

\* What the search has brought cannot be written.
RecordFails == ended = "found" /\ Raise("search")

\* The search raises, or one of the returns it hands over cannot be recorded.
SearchBreaks ==
    /\ stage = "search" /\ UNCHANGED <<run, query>> /\ Search!Break
    /\ UNCHANGED <<frame, laneFrame, attempt, round>>

Sent == {[round |-> round, terms |-> ts, broaden |-> query.broaden] :
            ts \in {query.terms, query.second} \ {<<>>}}

\* Mutant: the resumes are entered when they are scored.
RecordLater ==
    /\ stage = "search" /\ ended = "found"
    /\ run' = [run EXCEPT !.history = @ \cup Sent]
    /\ To("score") /\ ended' = "no"
    /\ UNCHANGED <<laneFrame, round, query, batch>>

\* What the search brought is entered before anything of it is scored.
Record ==
    /\ stage = "search" /\ ended = "found"
    /\ run' = [run EXCEPT !.history = @ \cup Sent, !.seen = @ \cup batch]
    /\ To("score") /\ ended' = "no"
    /\ UNCHANGED <<laneFrame, round, query, batch>>

\* score_round: each new resume gets a scorecard, or the run fails; the top pool is
\* the best of all rounds.
Score ==
    /\ stage = "score"
    /\ LET cards == run.cards \cup batch
       IN  run' = [run EXCEPT !.cards = cards, !.top = Best(cards, TopK), !.done = @ + 1,
                              !.productive = IF batch = {} THEN @ ELSE @ + 1]
    /\ batch' = {} /\ query' = NoQuery
    /\ To("reflect")
    /\ UNCHANGED <<laneFrame, round, ended>>

\* Reflection names admitted terms to activate or to keep; it may be turned off.
Reflect ==
    /\ stage = "reflect"
    /\ \E backed \in SUBSET ((run.pool.terms \cap Admitted) \ run.pool.active) :
         run' = [run EXCEPT !.backed = backed]
    /\ IF round = MaxRounds THEN To("finalize") /\ UNCHANGED round
       ELSE To("controller") /\ round' = round + 1
    /\ UNCHANGED <<laneFrame, query, batch, ended>>

----------------------------------------------------------------------------
(* A run over several sources.                                             *)

LaneReturns ==
    /\ stage = "lanes" /\ \E s \in plan : LaneEnds(s)
    /\ UNCHANGED <<frame, locals>>

\* The identity top pool and the coverage of the plan.
Shortlisted(r) ==
    [r EXCEPT !.top = IdentityTopPool(r.seen, r.cards),
              !.reason = IF Coverage = "complete" THEN "lanes_completed" ELSE "lanes_degraded"]

\* The results are applied; with nobody in them nothing is left to score.
ApplyLanes ==
    /\ stage = "lanes" /\ AllEnded
    /\ run' = IF Applied = {} THEN Shortlisted(run) ELSE [run EXCEPT !.seen = Applied]
    /\ To(IF Applied = {} THEN "finalize" ELSE "rescore")
    /\ UNCHANGED <<laneFrame, round, query, batch, ended>>

Rescore ==
    /\ stage = "rescore"
    /\ run' = Shortlisted([run EXCEPT !.cards = run.seen])
    /\ To("finalize")
    /\ UNCHANGED <<laneFrame, round, query, batch, ended>>

----------------------------------------------------------------------------
(* The shortlist.                                                          *)

\* The finalizer's candidates are the top pool in its order, or the stage fails;
\* the result is written before the evaluation.
Finalize ==
    /\ stage = "finalize"
    /\ To("evaluate")
    /\ UNCHANGED <<laneFrame, round, run, query, batch, ended>>

Evaluate ==
    /\ stage = "evaluate" /\ Return /\ Forget

\* What the code does next.
Step == \/ (OpenRun \/ StartRun) /\ UNCHANGED <<laneFrame, locals>>
        \/ Requirements \/ Decide \/ Plan \/ Prf
        \/ SearchGathers \/ SearchReturns \/ SearchFails \/ Record \/ Score \/ Reflect
        \/ LaneReturns \/ ApplyLanes \/ Rescore
        \/ Finalize \/ Evaluate
        \/ Close /\ UNCHANGED <<laneFrame, locals>>

Trouble == \/ (OpenFails \/ StartFails) /\ UNCHANGED <<laneFrame, locals>>
           \/ ExtractAgain \/ DecideAgain \/ ReflectAgain \/ FinalizeAgain
           \/ RequirementsFail \/ ControllerFails \/ PlanFails \/ PrfFails
           \/ SearchBreaks \/ RecordFails \/ ScoringFails \/ RowsFail \/ ReflectionFails
           \/ LanesFail \/ FinalizerFails \/ EvaluationFails

Finished == stage = "over" /\ UNCHANGED vars

Next == Step \/ Trouble \/ CancelRun \/ Finished

\* Models, providers and the scorer answer within their timeouts, and everything
\* else a run awaits is a write to a file or a database.
Spec == Init /\ [][Next]_vars /\ WF_vars(Step)

----------------------------------------------------------------------------
(* Properties.                                                             *)

\* The frame, the locals of the run, and what holds between them: the shortlist is
\* drawn from scored resumes, and only a search has resumes that wait for a score.
RuntimeTypeOK ==
    /\ FrameTypeOK
    /\ attempt \in {"first", "repair", "again"} /\ (attempt # "first" => stage \in Asking)
    /\ round \in 1..MaxRounds /\ run.done \in {round - 1, round} \cup {0}
    /\ run.productive \in 0..run.done
    /\ run.pool.active \subseteq run.pool.terms /\ run.backed \subseteq run.pool.terms
    /\ run.top \subseteq run.cards /\ run.cards \subseteq run.seen /\ Cardinality(run.top) <= TopK
    /\ batch # {} => stage \in {"search", "score"}
    /\ ended # "no" => stage = "search"

\* A CTS run that the controller ends before its rounds are used up has earned it:
\* the minimum of rounds is done, and unless the budget is nearly spent the pool is
\* good or everything was tried first, the terms of the compiler, those in reserve,
\* those of the best resumes, and the anchor alone.
StopIsEarned ==
    LET poor == Cardinality(run.top) < WeakBelow \/ Cardinality(StrongFits(run.top)) < StrongStop
    IN  stage \in {"finalize", "evaluate"} /\ run.reason = "stopped" =>
          /\ run.done >= MinRounds
          /\ \/ round >= BudgetRound(MaxRounds)
             \/ /\ poor \/ (Strength(run.top) # "strong" /\ run.productive < 2)
                     => UntriedFamilies(run.pool, run.history) = {}
                /\ poor => /\ Reserves(run.pool, run.history) = {}
                           /\ \/ run.fedBack \/ ~FeedbackOn
                              \/ Cardinality(FeedbackSeeds(run.top)) < 2
                           /\ run.anchorTried /\ Broadened(run.pool, run.history)

\* build_round_retrieval_plan never refuses what the decision of the round has come
\* to: neither the controller's own query, nor one the gate or a rescue lane puts in
\* its place, nor the query that stands in for a stop that is not allowed.
ForcedPlansHold ==
    stage = "plan" =>
        Accepted(query.terms, round, run.pool, run.backed, query.bare \/ run.anchorTried)

\* A round that may not be the last because families of terms are untried sends a
\* term that no query has sent before, whatever the controller proposed.  (Its family
\* may have been tried: two spellings share one, and the generic query counts terms.)
NewTermComesNext ==
    stage = "search" /\ ended = "no" /\ Gate.status = "continue_low_quality" =>
        \E t \in ToSet(query.terms \o query.second) : t \notin SentTerms(run.history)

\* The query that stands in for a stop that is not allowed is there whenever a round
\* is decided, but for the first round of a job whose two titles are spellings of one
\* name: select_query_terms then refuses its own query and the run fails.
FallbackStands ==
    stage = "controller" =>
        \/ SelectTerms(run.pool, round) # <<>>
        \/ round = 1 /\ \E t, u \in run.pool.terms :
                          t # u /\ Title(t) /\ Title(u) /\ Family[t] = Family[u]

\* The locals of a run are what they can be; a query that the decision of a round has
\* come to, by a rescue lane or in place of a stop, is one that
\* build_round_retrieval_plan accepts, and the one for a stop is there; and a round
\* that may not be the last because terms are untried sends one nobody has sent
\* (run_async).
RoundsAreSound == RuntimeTypeOK /\ ForcedPlansHold /\ FallbackStands /\ NewTermComesNext

\* Everybody who was found has been scored, and nobody is left out of the shortlist
\* for somebody worse; a run over several sources shows each person once.
PoolIsFair ==
    LET same(r, x) == IF plan = {"cts"} THEN r = x ELSE Person[r] = Person[x]
        people == {{x \in run.cards : same(r, x)} : r \in run.cards}
    IN  stage \in {"finalize", "evaluate"} =>
          /\ run.cards = run.seen
          /\ \A r, x \in run.top : same(r, x) => r = x
          /\ Cardinality(run.top) = IF Cardinality(people) < TopK THEN Cardinality(people) ELSE TopK
          /\ \A x \in run.cards : \A y \in run.top :
               (\A r \in run.top : ~same(r, x)) =>
                   \E z \in run.cards : same(y, z) /\ Place[z] < Place[x]

\* A run that is not cancelled comes to its end, as long as models, providers and
\* the scorer answer.
RunEnds == <>(stage = "over")

=============================================================================
