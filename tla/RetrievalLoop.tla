--------------------------- MODULE RetrievalLoop ---------------------------
(***************************************************************************)
(* The search of one round: RetrievalRuntime.execute_round_search with the *)
(* location plan it follows, the fetch loop of execute_search_tool and the *)
(* CTS provider behind it.  One or two query lanes are asked in turn, city *)
(* by city and page by page, until the target is met or nothing is left.   *)
(* The code between two awaits is one action: it awaits the provider       *)
(* (stage "fetch") and the scoring of a dispatch (stage "score").          *)
(* In the CTS client the dedup key of a candidate is its resume id, so one *)
(* identifier stands for both.                                             *)
(***************************************************************************)
EXTENDS Integers, Sequences, FiniteSets, SequencesExt

CONSTANTS Candidate,       \* resumes, by resume_id
          City,            \* cities a plan may allow
          Nowhere,         \* the place of a query without a city filter
          Holding,         \* the provider's ranking for a lane type and a place
          Plans,           \* pairs <<allowed, preferred>> of city sequences
          LaneChoices,     \* query bundles: sequences of one or two lane types
          KnownChoices,    \* resumes that earlier rounds may have counted
          Targets,         \* numbers of new resumes a round may want
          MaxRound,        \* the last round considered
          MaxAttempts, MaxPages, NoProgressLimit,  \* search_* settings
          Fit,             \* resumes the scorer puts in the bucket "fit"
          MustScore,       \* must_have_match_score of a resume
          OffIntent,       \* negative signals of a resume
          NoiseFit, NoiseMust, DriftDrop, DriftOff \* QueryOutcomeThresholds

LaneType == {"exploit", "prf_probe", "generic_explore"}
Where == City \cup {Nowhere}

\* What the settings, the caller (one query per lane type, known resumes among the
\* candidates) and the provider are assumed to be.
ASSUME RetrievalAssumption ==
    /\ \A p \in Plans : p[1] \in Seq(City) /\ p[2] \in Seq(City)
    /\ \A ls \in LaneChoices : ls \in Seq(LaneType) /\ Len(ls) \in {1, 2} /\ IsInjective(ls)
    /\ KnownChoices \subseteq SUBSET Candidate
    /\ Targets \subseteq Nat \ {0} /\ MaxRound \in Nat \ {0}
    /\ MaxAttempts \in Nat \ {0} /\ MaxPages \in Nat \ {0}
    /\ NoProgressLimit \in Nat \ {0}
    /\ Fit \subseteq Candidate /\ IsFiniteSet(Candidate)
    /\ Holding \in [LaneType -> [Where -> Seq(Candidate)]]
    /\ MustScore \in [Candidate -> 0..100] /\ OffIntent \in [Candidate -> Nat]

VARIABLES
    target, known,  \* the caller's target_new and seen_resume_ids
    lanes,          \* query_states, in order
    places,         \* the location execution plan
    at,             \* where execute_round_search stands
    pass,           \* "initial" or "refill"
    progressed,     \* did a lane of this refill pass find anything?
    todo,           \* lanes of this pass still to be asked
    asked,          \* next_page and exhausted of each lane and place
    spent,          \* LogicalQueryState.exhausted of each lane
    labels,         \* latest_dispatch_outcomes: the labels that forbid a refill
    judged,         \* LaneOutcomeState.scored_candidates of each lane
    collected,      \* all_new_candidates
    call,           \* locals of collect_candidates_for_query
    tool,           \* locals of execute_search_tool
    pending,        \* provider returns not yet written
    recorded        \* provider returns handed to record_provider_return_batch

inputs == <<target, known, lanes, places>>
laneVars == <<asked, spent, labels, judged>>
retrievalVars == <<inputs, at, pass, progressed, todo, laneVars, collected, call,
          tool, pending, recorded>>

\* The elements of a sequence at some of its positions, in their order.
Picked(s, keep) ==
    LET nth(k) == CHOOSE i \in keep : Cardinality({j \in keep : j <= i}) = k
    IN  [k \in 1..Cardinality(keep) |-> s[nth(k)]]

----------------------------------------------------------------------------
(* Location plans and targets.                                             *)

Rotated(cities, offset) ==
    LET k == IF cities = <<>> THEN 0 ELSE offset % Len(cities)
    IN  SubSeq(cities, k + 1, Len(cities)) \o SubSeq(cities, 1, k)

LocationPlan(allowed, preferred, round) ==
    LET wanted == Picked(preferred, {i \in DOMAIN preferred : preferred[i] \in ToSet(allowed)})
        others == Picked(allowed, {i \in DOMAIN allowed : allowed[i] \notin ToSet(wanted)})
        offered == IF wanted = <<>> THEN allowed ELSE others
    IN  [mode |-> CASE allowed = <<>> -> "none"
                    [] Len(allowed) = 1 -> "single"
                    [] Len(allowed) > 1 /\ wanted # <<>> -> "priority_then_fallback"
                    [] OTHER -> "balanced_all",
         priority |-> IF Len(allowed) > 1 THEN wanted ELSE <<>>,
         balanced |-> IF Len(allowed) > 1 THEN Rotated(offered, round - 1) ELSE allowed]

\* An even split of a gap over cities: the first ones take the remainder, and cities
\* that are left with nothing are dropped.
BalancedTargets(cities, gap) ==
    LET n == Len(cities)
    IN  IF n = 0 \/ gap <= 0 THEN <<>>
        ELSE [i \in 1..(IF gap < n THEN gap ELSE n) |->
                 [city |-> cities[i], want |-> gap \div n + (IF i <= gap % n THEN 1 ELSE 0)]]

\* The 70/30 split of the target over the lanes of the bundle.
InitialTargets(ls, t) ==
    LET first == IF "exploit" \in ToSet(ls) THEN "exploit" ELSE ls[1]
        share == (7 * t + 9) \div 10
        second == IF t - share > 1 THEN t - share ELSE 1
        main == IF share + second > t THEN t - second ELSE share
    IN  [l \in ToSet(ls) |->
            CASE Len(ls) = 1 -> t
              [] Len(ls) = 2 /\ t <= 1 -> IF l = first THEN t ELSE 0
              [] OTHER -> IF l = first THEN main ELSE second]

----------------------------------------------------------------------------
(* The provider: offset paging over its ranking, as the CTS clients do.    *)

PageOf(lane, place, page, size) ==
    LET held == Holding[lane][place]
        from == (page - 1) * size
        last == IF from + size < Len(held) THEN from + size ELSE Len(held)
    IN  SubSeq(held, from + 1, last)

----------------------------------------------------------------------------
(* How the outcome of one dispatch is classified.                          *)

SumOf(f, s) == FoldLeft(LAMBDA acc, r : acc + f[r], 0, s)

OutcomeLabels(raw, new, exploitJudged) ==
    LET n == Len(new)
        fits == Cardinality({i \in DOMAIN new : new[i] \in Fit})
        must == SumOf(MustScore, new)
        m == Len(exploitJudged)
        base == SumOf(MustScore, exploitJudged)
    IN  {l \in {"zero_recall", "duplicate_only", "broad_noise", "drift_suspected"} :
            CASE l = "zero_recall" -> raw = 0
              [] l = "duplicate_only" -> raw > 0 /\ n = 0
              [] l = "broad_noise" -> n > 0 /\ fits * 100 <= NoiseFit * n
                                            /\ must <= NoiseMust * n
              [] l = "drift_suspected" -> n > 0 /\ m > 0
                                            /\ must * m < (base - DriftDrop * m) * n
                                            /\ SumOf(OffIntent, new) >= DriftOff}

\* A lane other than exploit is not asked again after a bad outcome.
RefillAllowed(lane, bad) == lane = "exploit" \/ bad = {}

----------------------------------------------------------------------------
(* The round.                                                              *)

Gap == target - Len(collected)
Counted == known \cup ToSet(collected)
NoCall == [lane |-> "none", want |-> 0, new |-> <<>>, first |-> <<>>, queue |-> <<>>, stop |-> FALSE]
NoTool == [city |-> Nowhere, want |-> 0, page |-> 1, attempts |-> 0, new |-> <<>>, raw |-> 0, zero |-> 0]
Untouched == [page |-> 1, done |-> FALSE]

RetrievalInit ==
    /\ target \in Targets
    /\ known \in KnownChoices
    /\ lanes \in LaneChoices
    /\ places \in {LocationPlan(p[1], p[2], r) : p \in Plans, r \in 1..MaxRound}
    /\ at = "pick" /\ pass = "initial" /\ progressed = FALSE /\ todo = lanes
    /\ asked = [l \in LaneType |-> [c \in Where |-> Untouched]]
    /\ spent = [l \in LaneType |-> FALSE]
    /\ labels = [l \in LaneType |-> {}]
    /\ judged = [l \in LaneType |-> <<>>]
    /\ collected = <<>> /\ call = NoCall /\ tool = NoTool
    /\ pending = {} /\ recorded = {}

\* Mutant: a refill asks for the whole target again.
WantedInFull(l) == IF pass = "initial" THEN InitialTargets(lanes, target)[l] ELSE target

\* What the pass asks of a lane: its share of the target, then all that is missing.
Wanted(l) == IF pass = "initial" THEN InitialTargets(lanes, target)[l] ELSE Gap

\* Lanes that have nothing to do in this pass, or may not be asked again.
Skipped(l) == \/ Wanted(l) <= 0
              \/ spent[l]
              \/ pass = "refill" /\ ~RefillAllowed(l, labels[l])

SkipLane ==
    /\ at = "pick" /\ todo # <<>> /\ Skipped(Head(todo))
    /\ todo' = Tail(todo)
    /\ UNCHANGED <<inputs, at, pass, progressed, laneVars, collected, call, tool, pending, recorded>>

\* The places asked one by one before the balanced cities are.
FirstPlaces == IF places.mode = "none" THEN <<Nowhere>>
               ELSE IF places.mode = "single" THEN places.balanced ELSE places.priority

BeginCollect ==
    /\ at = "pick" /\ todo # <<>> /\ ~Skipped(Head(todo))
    /\ call' = [NoCall EXCEPT !.lane = Head(todo), !.want = Wanted(Head(todo)),
                              !.first = FirstPlaces]
    /\ at' = "plan"
    /\ UNCHANGED <<inputs, pass, progressed, todo, laneVars, collected, tool, pending, recorded>>

\* Refill passes go on while the target is missed and the last pass found something.
EndPass ==
    /\ at = "pick" /\ todo = <<>>
    /\ IF Gap > 0 /\ (pass = "initial" \/ progressed)
       THEN todo' = lanes /\ pass' = "refill" /\ progressed' = FALSE /\ UNCHANGED at
       ELSE at' = "done" /\ UNCHANGED <<todo, pass, progressed>>
    /\ UNCHANGED <<inputs, laneVars, collected, call, tool, pending, recorded>>

----------------------------------------------------------------------------
(* One lane: collect_candidates_for_query.                                 *)

\* The next batch of dispatches: a first place for all that is missing, then
\* the gap spread over the cities that are not exhausted.
NextBatch ==
    LET gap == call.want - Len(call.new)
        active == Picked(places.balanced, {i \in DOMAIN places.balanced :
                                             ~asked[call.lane][places.balanced[i]].done})
    IN  IF call.stop \/ gap <= 0 THEN <<>>
        ELSE IF call.first # <<>> THEN <<[city |-> Head(call.first), want |-> gap]>>
        ELSE IF places.mode \in {"none", "single"} THEN <<>>
        ELSE BalancedTargets(active, gap)

SendBatch ==
    /\ at = "plan" /\ NextBatch # <<>>
    /\ call' = [call EXCEPT !.queue = NextBatch,
                            !.first = IF @ = <<>> THEN @ ELSE Tail(@)]
    /\ at' = "send"
    /\ UNCHANGED <<inputs, pass, progressed, todo, laneVars, collected, tool, pending, recorded>>

\* The lane is spent unless it met its target; only now its finds are counted.
EndCollect ==
    /\ at = "plan" /\ NextBatch = <<>>
    /\ spent' = [spent EXCEPT ![call.lane] = @ \/ Len(call.new) < call.want]
    /\ collected' = collected \o call.new
    /\ progressed' = (progressed \/ call.new # <<>>)
    /\ todo' = Tail(todo)
    /\ at' = "pick" /\ call' = NoCall /\ tool' = NoTool
    /\ UNCHANGED <<inputs, pass, asked, labels, judged, pending, recorded>>

----------------------------------------------------------------------------
(* One dispatch: _run_city_dispatch and execute_search_tool.               *)

\* A place whose pages are used up is not fetched, yet the dispatch counts.
Dispatch ==
    /\ at = "send"
    /\ LET d == Head(call.queue)
           been == asked[call.lane][d.city]
       IN  /\ tool' = [NoTool EXCEPT !.city = d.city, !.want = d.want, !.page = been.page]
           /\ IF been.page > MaxPages
              THEN /\ asked' = [asked EXCEPT ![call.lane][d.city] = [been EXCEPT !.done = TRUE]]
                   /\ at' = "score"
              ELSE at' = "fetch" /\ UNCHANGED asked
           /\ call' = [call EXCEPT !.queue = Tail(@)]
    /\ UNCHANGED <<inputs, pass, progressed, todo, spent, labels, judged, collected, pending, recorded>>

\* Mutant: only repetitions within the page are dropped.
FreshOfPage(batch, met) ==
    Picked(batch, {i \in DOMAIN batch : \A j \in 1..(i - 1) : batch[j] # batch[i]})

\* The candidates of a page that are new: not of another round, not of an
\* earlier call of this round, not met before in this dispatch.
FreshOf(batch, met) ==
    Picked(batch, {i \in DOMAIN batch : /\ batch[i] \notin met
                                        /\ \A j \in 1..(i - 1) : batch[j] # batch[i]})

\* The tool's locals after one page, asked for as many resumes as are missing.
AfterPage(batch) ==
    LET fresh == FreshOf(batch, Counted \cup ToSet(tool.new))
    IN  [tool EXCEPT !.attempts = @ + 1, !.page = @ + 1, !.raw = @ + Len(batch),
                     !.new = @ \o fresh, !.zero = IF fresh = <<>> THEN @ + 1 ELSE 0]

Page == PageOf(call.lane, tool.city, tool.page, tool.want - Len(tool.new))

\* Mutant: the limits are checked one page too late.
ToolStopsLate(t) == \/ Len(t.new) >= t.want \/ Page = <<>> \/ t.zero >= NoProgressLimit
                    \/ t.attempts > MaxAttempts \/ t.page > MaxPages + 1

ToolStops(t) == \/ Len(t.new) >= t.want \/ Page = <<>> \/ t.zero >= NoProgressLimit
                \/ t.attempts >= MaxAttempts \/ t.page > MaxPages

FetchAndGoOn ==
    /\ at = "fetch" /\ ~ToolStops(AfterPage(Page))
    /\ tool' = AfterPage(Page)
    /\ pending' = pending \cup ToSet(Page)
    /\ UNCHANGED <<inputs, at, pass, progressed, todo, laneVars, collected, call, recorded>>

\* Mutant: the provider returns of a dispatch are not written before it is scored.
FetchAndStopUnrecorded ==
    /\ at = "fetch" /\ ToolStops(AfterPage(Page))
    /\ LET t == AfterPage(Page)
       IN  /\ tool' = t
           /\ asked' = [asked EXCEPT ![call.lane][t.city] =
                            [page |-> t.page, done |-> @.done \/ Len(t.new) < t.want]]
           /\ call' = [call EXCEPT !.new = @ \o t.new]
    /\ pending' = pending \cup ToSet(Page)
    /\ at' = "score"
    /\ UNCHANGED <<inputs, pass, progressed, todo, spent, labels, judged, collected, recorded>>

\* The last page: the place is exhausted unless the dispatch met its target, and
\* the provider returns of the dispatch are written before it is scored.
FetchAndStop ==
    /\ at = "fetch" /\ ToolStops(AfterPage(Page))
    /\ LET t == AfterPage(Page)
       IN  /\ tool' = t
           /\ asked' = [asked EXCEPT ![call.lane][t.city] =
                            [page |-> t.page, done |-> @.done \/ Len(t.new) < t.want]]
           /\ call' = [call EXCEPT !.new = @ \o t.new]
    /\ recorded' = recorded \cup pending \cup ToSet(Page)
    /\ pending' = {}
    /\ at' = "score"
    /\ UNCHANGED <<inputs, pass, progressed, todo, spent, labels, judged, collected>>

\* The provider raises: the search tool and the round search raise with it.
FetchFails ==
    /\ at = "fetch"
    /\ at' = "failed"
    /\ UNCHANGED <<inputs, pass, progressed, todo, laneVars, collected, call, tool, pending, recorded>>

\* register_dispatch_outcome: a bad outcome stops a lane other than exploit.
ScoreDispatch ==
    /\ at = "score"
    /\ judged' = [judged EXCEPT ![call.lane] = @ \o tool.new]
    /\ LET bad == OutcomeLabels(tool.raw, tool.new, judged'["exploit"])
           stop == ~RefillAllowed(call.lane, bad)
       IN  /\ labels' = [labels EXCEPT ![call.lane] = bad]
           /\ call' = [call EXCEPT !.stop = stop, !.queue = IF stop THEN <<>> ELSE @]
    /\ at' = IF call'.queue = <<>> THEN "plan" ELSE "send"
    /\ tool' = NoTool
    /\ UNCHANGED <<inputs, pass, progressed, todo, asked, spent, collected, pending, recorded>>

ScoreFails ==
    /\ at = "score" /\ tool.new # <<>>
    /\ at' = "failed"
    /\ UNCHANGED <<inputs, pass, progressed, todo, laneVars, collected, call, tool, pending, recorded>>

RetrievalNext == \/ SkipLane \/ BeginCollect \/ EndPass \/ SendBatch \/ EndCollect
        \/ Dispatch \/ FetchAndGoOn \/ FetchAndStop \/ FetchFails
        \/ ScoreDispatch \/ ScoreFails

RetrievalOver == at \in {"done", "failed"} /\ UNCHANGED retrievalVars

\* Provider and scorer calls end: both have timeouts.
RetrievalSpec == RetrievalInit /\ [][RetrievalNext \/ RetrievalOver]_retrievalVars /\ WF_retrievalVars(RetrievalNext)

----------------------------------------------------------------------------
(* Properties.                                                             *)

\* Every local of execute_round_search has its type.
RetrievalTypeOK ==
    /\ target \in Targets /\ known \subseteq Candidate
    /\ at \in {"pick", "plan", "send", "fetch", "score", "done", "failed"}
    /\ pass \in {"initial", "refill"} /\ progressed \in BOOLEAN
    /\ todo \in Seq(LaneType) /\ collected \in Seq(Candidate)
    /\ asked \in [LaneType -> [Where -> [page : 1..(MaxPages + 1), done : BOOLEAN]]]
    /\ spent \in [LaneType -> BOOLEAN]
    /\ call.new \in Seq(Candidate) /\ tool.new \in Seq(Candidate)
    /\ tool.attempts \in 0..MaxAttempts
    /\ pending \subseteq Candidate /\ recorded \subseteq Candidate

\* What is being collected now: it is appended to all_new_candidates at the end of the call.
InHand == call.new \o (IF at = "fetch" THEN tool.new ELSE <<>>)

\* What a call has in hand was counted by no earlier round and no earlier call of this
\* round; one dispatch finds a resume once; and in a plan without several cities no resume
\* is counted twice at all.  With several cities it can be: the seen sets are brought up to
\* date only when collect_candidates_for_query returns, so two dispatches of one call may
\* both count a resume, which then fills two places of the target.
CountedOnce ==
    /\ ToSet(InHand) \cap Counted = {}
    /\ known \cap ToSet(collected) = {}
    /\ IsInjective(tool.new)
    /\ places.mode \in {"none", "single"} => IsInjective(collected \o InHand)

\* execute_round_search gives up short of the target only when no lane could
\* have been asked again: each is exhausted, or its last outcome forbids it.
ShortageMeansExhausted ==
    at = "done" /\ Gap > 0 =>
        \A l \in ToSet(lanes) : spent[l] \/ ~RefillAllowed(l, labels[l])

\* A candidate is scored or counted only after the provider return that brought
\* it has been handed to the corpus, whatever fails afterwards.
RecordedBeforeUse ==
    ToSet(collected \o call.new) \cup UNION {ToSet(judged[l]) : l \in LaneType}
        \subseteq recorded

\* No resume is counted twice over rounds, lane calls and pages, nor over the dispatches of
\* one call unless its plan has several cities; what a dispatch scores was recorded as
\* returned before; and a search that ends short of its target has asked every lane that
\* may still be asked (execute_round_search).
ReturnsAreAccounted ==
    RetrievalTypeOK /\ CountedOnce /\ RecordedBeforeUse /\ ShortageMeansExhausted

\* The round search is what the rounds take it for: what it finds is new, at most as
\* much as wanted, and final once it has returned or failed (execute_round_search).
Promise == INSTANCE RoundSearch WITH
    Resume <- Candidate, found <- ToSet(collected),
    ended <- CASE at = "done" -> "found" [] at = "failed" -> "failed" [] OTHER -> "no"
RoundSearchKept == Promise!Init /\ [][Promise!Next]_(Promise!searchVars)

\* It ends, as provider and scorer do (execute_round_search).
SearchEnds == <>(at \in {"done", "failed"})

=============================================================================
