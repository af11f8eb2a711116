----------------------------- MODULE QueryTerms -----------------------------
(***************************************************************************)
(* How the rounds choose what to ask for: the compiled pool of query       *)
(* terms, the queries a round may send, the second query lane, the quality *)
(* gate on stopping and the rescue lanes behind it.  No state of its own:  *)
(* a pool is a record of its terms and its active terms, and the history   *)
(* is the set of queries that were sent.                                   *)
(***************************************************************************)
EXTENDS Integers, Sequences, FiniteSets, SequencesExt

CONSTANTS Term,          \* query terms, also those only a model may propose
          Compiled,      \* the terms the compiler takes from the job description
          Phrase,        \* terms the top resumes share: feedback and PRF propose them
          Named,         \* the phrases written like a name of a technology
          Admitted,      \* terms with queryability "admitted"
          Role,          \* retrieval_role of a term
          Family,        \* family of a term
          Rank,          \* order by priority, round of addition and name
          Window,        \* ACTIVE_NON_ANCHOR_WINDOW
          Card,          \* scorecard of a resume: fit, overall, must, risk
          Mentions,      \* the phrases that stand in what is known of a resume
          WeakBelow,     \* a pool with fewer resumes is weak (5)
          FullPool,      \* the size of a strong pool (10)
          StrongPool,    \* strong fits a strong pool has (5)
          StrongStop     \* STRONG_FIT_STOP_MIN (3)

Primary(t) == t \in Admitted /\ Role[t] \in {"primary_role_anchor", "role_anchor"}
Title(t) == Primary(t) \/ (t \in Admitted /\ Role[t] = "secondary_title_anchor")
Signal(t) == CASE Role[t] = "core_skill" -> 0
               [] Role[t] = "framework_tool" -> 1
               [] Role[t] = "domain_context" -> 2
               [] OTHER -> 3

\* What compile_query_term_pool guarantees, and that two terms of one rank are one
\* term.  The families of titles begin with "role.", the others with "domain." or
\* "feedback."; two titles that are spellings of one name share a family.
ASSUME PoolAssumption ==
    /\ Compiled \cap Phrase = {} /\ Compiled \cup Phrase \subseteq Term
    /\ Named \subseteq Phrase /\ Phrase \subseteq Admitted /\ \A p \in Phrase : Role[p] = "core_skill"
    /\ \E a \in Compiled : Primary(a) /\ \A t \in Term : Primary(t) => t = a
    /\ \E t \in Compiled \cap Admitted : ~Title(t)
    /\ \A t, u \in Term : Rank[t] = Rank[u] => t = u
    /\ \A t, u \in Term : Title(t) /\ ~Title(u) => Family[t] # Family[u]
    /\ Window \in Nat \ {0}
    /\ IsFiniteSet(Term) /\ Rank \in [Term -> Int]

\* The thresholds of the gate are in their order.
ASSUME StrengthAssumption ==
    /\ {WeakBelow, FullPool, StrongPool, StrongStop} \subseteq Nat \ {0}
    /\ WeakBelow <= FullPool /\ StrongStop <= StrongPool

----------------------------------------------------------------------------
(* Orders: the least element under a key that is a sequence of numbers.    *)

Less(a, b) == \E i \in DOMAIN a : a[i] < b[i] /\ \A j \in 1..(i - 1) : a[j] = b[j]
Least(S, Key(_)) == CHOOSE x \in S : \A y \in S : ~Less(Key(y), Key(x))
First(S) == Least(S, LAMBDA t : <<Rank[t]>>)

\* The pool of a new run: the first terms that are no titles start active.
CompiledPool ==
    LET plain == {t \in Compiled \cap Admitted : ~Title(t)}
        ahead(t) == {u \in plain : Rank[u] < Rank[t]}
    IN  [terms |-> Compiled,
         active |-> {t \in Compiled : Title(t)}
                      \cup {t \in plain : Cardinality(ahead(t)) < Window}]

----------------------------------------------------------------------------
(* Queries.                                                                *)

Support(ts) == {t \in ToSet(ts) : ~Primary(t)}

\* What canonicalize_controller_query_terms lets pass.
Accepted(ts, round, pool, backed, anchorOnly) ==
    /\ IsInjective(ts) /\ ToSet(ts) \subseteq pool.terms
    /\ IF Len(ts) = 1 THEN anchorOnly /\ Primary(ts[1])
       ELSE /\ Len(ts) \in (IF round = 1 THEN {2} ELSE {2, 3})
            /\ ToSet(ts) \subseteq Admitted
            /\ \E i \in DOMAIN ts : \A k \in DOMAIN ts : Primary(ts[k]) <=> k = i
            /\ \A t \in Support(ts) :
                 /\ Title(t) \/ t \in pool.active \/ t \in backed
                 /\ round > 1 => ~Title(t)
            /\ \A t, u \in ToSet(ts) : Family[t] = Family[u] => t = u

\* An accepted query as it is sent: the anchor, then the other terms in their order.
CanonicalTerms(ts) ==
    LET i == CHOOSE i \in DOMAIN ts : Primary(ts[i])
    IN  <<ts[i]>> \o RemoveAt(ts, i)

ActiveAnchor(pool) == First({t \in pool.active : Primary(t)})

\* The query the runtime falls back on: the anchor with the best active terms, one
\* of each family; in round 1 with the second title if there is one.  <<>>: it raises.
SelectTerms(pool, round) ==
    LET anchor == ActiveAnchor(pool)
        titles == {t \in pool.active : Title(t) /\ ~Primary(t)}
        plain == {t \in pool.active \cap Admitted : ~Title(t)}
        key(t) == <<Signal(t), Rank[t]>>
        leads == {t \in plain : /\ Family[t] # Family[anchor]
                                /\ \A u \in plain : Family[u] = Family[t]
                                                      => ~Less(key(u), key(t))}
        lead == Least(leads, key)
        rest == leads \ {lead}
        support == IF round = 1 /\ titles # {} THEN <<First(titles)>>
                   ELSE IF round = 1 \/ rest = {} THEN <<lead>> ELSE <<lead, Least(rest, key)>>
        terms == <<anchor>> \o support
    IN  IF (round > 1 \/ titles = {}) /\ leads = {} THEN <<>>
        ELSE IF Accepted(terms, round, pool, {}, FALSE) THEN terms ELSE <<>>

\* How many queries have used a term.
Usage(t, history) ==
    Cardinality({<<q.round, q.terms>> : q \in {p \in history : t \in ToSet(p.terms)}})

\* The terms a generic second query may have beside the anchor, with how often they were
\* used and how many come before them: rather new, little used and well ranked ones than
\* those of the first query.
SecondTerms(exploit, pool, history) ==
    LET key(t) == <<IF t \in ToSet(Tail(exploit)) THEN 2 ELSE IF t \in pool.active THEN 0 ELSE 1,
                    Usage(t, history), Signal(t), Rank[t]>>
        keyed == {[term |-> t, key |-> key(t)] :
                    t \in {u \in pool.terms \cap Admitted : ~Title(u) /\ Family[u] # Family[exploit[1]]}}
    IN  {[term |-> k.term, used |-> k.key[2],
          place |-> Cardinality({j \in keyed : Less(j.key, k.key)})] : k \in keyed}

\* The generic second query: the anchor with one or two of them, rather a query not
\* sent yet.  Ties, which the code breaks by name, are left to CHOOSE.
ExploreTerms(exploit, pool, history) ==
    LET offers == SecondTerms(exploit, pool, history)
        own == ToSet(Tail(exploit))
        sent(c) == <<exploit[1]>> \o [i \in DOMAIN c |-> c[i].term]
        combos == {c \in {<<o>> : o \in offers} \cup (offers \X offers) :
                     /\ Len(c) = 2 => /\ c[1].place < c[2].place
                                      /\ Family[c[1].term] # Family[c[2].term]
                     /\ sent(c) # exploit}
        fresh == {c \in combos : sent(c) \notin {q.terms : q \in history}}
        total(n, c) == IF Len(c) = 1 THEN c[1][n] ELSE c[1][n] + c[2][n]
        score(c) == <<Cardinality({i \in DOMAIN c : c[i].term \in own}),
                      total("used", c), total("place", c), -Len(c)>>
    IN  IF own = {} \/ combos = {} THEN <<>>
        ELSE sent(Least(IF fresh # {} THEN fresh ELSE combos, score))

\* Mutant: without a phrase there is no second query.
SecondQueryOfPhrase(ts, round, pool, history, phrase) ==
    IF phrase = {} THEN <<>> ELSE <<ts[1], CHOOSE p \in phrase : TRUE>>

\* The second query of a round: a phrase the PRF policy accepted, or the generic one.
\* A query that is the first of its run or the anchor alone has none.
SecondQuery(ts, round, pool, history, phrase) ==
    IF round = 1 \/ Len(ts) = 1 THEN <<>>
    ELSE IF phrase # {} THEN <<ts[1], CHOOSE p \in phrase : TRUE>>
    ELSE ExploreTerms(ts, pool, history)

----------------------------------------------------------------------------
(* What has been tried.                                                    *)

SentTerms(history) == UNION {ToSet(q.terms) : q \in history}
TriedFamilies(pool, history) == {Family[t] : t \in SentTerms(history) \cap pool.terms}
UntriedFamilies(pool, history) ==
    {Family[t] : t \in {u \in pool.active \cap Admitted : ~Title(u)}}
        \ TriedFamilies(pool, history)

\* A query the runtime itself broadened, or one whose only known term is a role anchor.
Broadened(pool, history) ==
    \E q \in history :
        \/ q.broaden
        \/ LET kept == SelectSeq(q.terms, LAMBDA t : t \in pool.terms)
           IN  Len(kept) = 1 /\ kept[1] \in Admitted /\ Role[kept[1]] = "role_anchor"

\* Admitted terms of untried families, active or not; the best of them comes next.
Reserves(pool, history) ==
    {t \in pool.terms \cap Admitted : ~Title(t) /\ Family[t] \notin TriedFamilies(pool, history)}
NextReserve(pool, history) ==
    Least(Reserves(pool, history), LAMBDA t : <<IF t \in pool.active THEN 0 ELSE 1, Rank[t]>>)

----------------------------------------------------------------------------
(* The quality gate.                                                       *)

Fits(top) == {r \in top : Card[r].fit}
StrongFits(top) == {r \in Fits(top) : Card[r].overall >= 80 /\ Card[r].must >= 70 /\ Card[r].risk <= 30}

\* select_feedback_seed_resumes: the five best resumes that are good enough.
FeedbackSeeds(top) ==
    LET good == {r \in Fits(top) : Card[r].overall >= 75 /\ Card[r].must >= 70 /\ Card[r].risk <= 45}
        key(r) == <<-Card[r].overall, -Card[r].must, Card[r].risk>>
    IN  {r \in good : Cardinality({x \in good : Less(key(x), key(r))}) < 5}

Strength(top) ==
    CASE top = {} -> "empty"
      [] top # {} /\ (Cardinality(top) < WeakBelow \/ Fits(top) = {}) -> "weak"
      [] Cardinality(top) >= FullPool /\ Cardinality(StrongFits(top)) >= StrongPool -> "strong"
      [] OTHER -> "usable"

\* The round from which the budget allows a stop: 80 % of the rounds, rounded up.
BudgetRound(maxRounds) == (8 * maxRounds + 9) \div 10

\* _build_stop_guidance: the gate and whether the controller may stop.
Guidance(round, done, minRounds, maxRounds, top, productive, pool, history) ==
    LET untried == UntriedFamilies(pool, history) # {}
        poor == \/ Strength(top) \in {"empty", "weak"}
                \/ Strength(top) = "usable" /\ Cardinality(StrongFits(top)) < StrongStop
        lacking == \/ poor
                   \/ Strength(top) # "strong" /\ productive < 2
        status == IF done < minRounds THEN "pass"
                  ELSE IF round >= BudgetRound(maxRounds) THEN "budget_stop_allowed"
                  ELSE IF lacking /\ untried THEN "continue_low_quality"
                  ELSE IF ~poor THEN "pass"
                  ELSE IF Broadened(pool, history) THEN "low_quality_exhausted"
                  ELSE "broaden_required"
    IN  [status |-> status,
         canStop |-> done >= minRounds /\ status \notin {"continue_low_quality", "broaden_required"}]

\* choose_rescue_lane.
RescueLane(guidance, top, run, feedbackOn) ==
    IF guidance.status \notin {"broaden_required", "low_quality_exhausted"}
    THEN IF guidance.canStop THEN "allow_stop" ELSE "continue_controller"
    ELSE IF Reserves(run.pool, run.history) # {} THEN "reserve_broaden"
    ELSE IF feedbackOn /\ ~run.fedBack /\ Cardinality(FeedbackSeeds(top)) >= 2
         THEN "candidate_feedback"
    ELSE IF ~run.anchorTried THEN "anchor_only" ELSE "allow_stop"

----------------------------------------------------------------------------
(* Phrases of good resumes.                                                *)

Negatives(cards) == {r \in cards : ~Card[r].fit \/ Card[r].risk > 60}
Mention(rs, p) == Cardinality({r \in rs : p \in Mentions[r]})

\* Phrases that are not in the pool and were not sent, and that two seeds mention.
NewPhrases(pool, history, seeds) ==
    {p \in Phrase \ (pool.terms \cup SentTerms(history)) : Mention(seeds, p) >= 2}

\* build_feedback_decision: three negative resumes or more count against a phrase;
\* it needs a score of 8, and a phrase in the form of a name has 2 for that.
FeedbackPhrases(top, cards, pool, history) ==
    LET seeds == FeedbackSeeds(top)
        against(p) == IF Cardinality(Negatives(cards)) < 3 THEN 0 ELSE Mention(Negatives(cards), p)
        score(p) == 4 * (Mention(seeds, p) - against(p)) + (IF p \in Named THEN 2 ELSE 0)
        safe == {p \in NewPhrases(pool, history, seeds) :
                   against(p) < Mention(seeds, p) /\ score(p) >= 8}
    IN  {p \in safe : \A q \in safe : score(q) <= score(p)}

\* build_prf_policy_decision on what the model has proposed and cited correctly: not
\* a phrase of the plan, and fewer than 40 % of the negative resumes mention it.
PrfPhrases(top, cards, terms, pool, history) ==
    LET bad == Negatives(cards)
    IN  IF Cardinality(FeedbackSeeds(top)) < 2 THEN {}
        ELSE {p \in NewPhrases(pool, history, FeedbackSeeds(top)) \ ToSet(terms) :
                bad = {} \/ 10 * Mention(bad, p) < 4 * Cardinality(bad)}

=============================================================================
