---------------------------- MODULE MCRuntimeRun ----------------------------
(***************************************************************************)
(* A run of the runtime, and the search of one of its rounds in detail: a  *)
(* behaviour is one of either, and the other stays as it began.            *)
(*                                                                         *)
(* Run: a pool of an anchor, a second title, a skill that starts active    *)
(*   and a domain in reserve, and a phrase that every resume mentions;     *)
(*   four resumes: a strong fit, two fits of one person and one that is no *)
(*   fit.                                                                  *)
(* Search: fourteen resumes, three cities and the settings of the program. *)
(*   The exploit query ranks more resumes than the second lane, city c     *)
(*   holds only what a and b hold too, and the second lane finds one       *)
(*   resume of its own in b; what earlier rounds have counted ranges from  *)
(*   nothing to all.                                                       *)
(***************************************************************************)
EXTENDS RuntimeRun, RetrievalLoop, TLC

CONSTANTS A, S, c1, c2, p, s, f1, f2, u, a, b, c, nowhere

MCTerm == {A, S, c1, c2, p}
MCCompiled == {A, S, c1, c2}
MCRole == [t \in MCTerm |-> CASE t = A -> "primary_role_anchor" [] t = S -> "secondary_title_anchor"
                              [] t = c2 -> "domain_context" [] OTHER -> "core_skill"]
MCFamily == [t \in MCTerm |-> t]
MCRank == [t \in MCTerm |-> CASE t = A -> 1 [] t = S -> 2 [] t = c1 -> 3 [] t = c2 -> 4
                              [] t = p -> 5]
MCProposals == {<<A, S>>, <<A, c1>>, <<c2, A>>, <<A, p, c1>>, <<A>>}

MCResume == {s, f1, f2, u}
MCCard == [r \in MCResume |->
    CASE r = s -> [fit |-> TRUE, overall |-> 80, must |-> 70, risk |-> 30]
      [] r = u -> [fit |-> FALSE, overall |-> 40, must |-> 30, risk |-> 31]
      [] OTHER -> [fit |-> TRUE, overall |-> 75, must |-> 70, risk |-> 45]]
MCPlace == [r \in MCResume |-> CASE r = s -> 1 [] r = f1 -> 2 [] r = f2 -> 3 [] r = u -> 4]
MCStanding == [r \in MCResume |-> CASE r = s -> 4 [] r = f1 -> 2 [] r = f2 -> 3 [] r = u -> 1]
MCMentions == [r \in MCResume |-> {p}]
MCPerson == [r \in MCResume |-> IF r = f2 THEN f1 ELSE r]
MCOffers == [x \in {"cts", "liepin"} |-> IF x = "cts" THEN {s} ELSE {f1, f2, u}]

Ranked == nowhere :> <<1, 2, 3, 4, 5, 6, 7, 8, 9, 10, 11, 12>>
          @@ a :> <<1, 3, 5, 6, 7, 9>> @@ b :> <<2, 3, 4, 10, 11>> @@ c :> <<3, 5, 10>>
Second == nowhere :> <<2, 4, 13, 6, 14>> @@ a :> <<6>> @@ b :> <<4, 13>> @@ c :> <<>>
Noisy == nowhere :> <<11, 12, 1>> @@ a :> <<>> @@ b :> <<11>> @@ c :> <<3>>
MCFit == {1, 2, 3, 5, 8, 13}

MCHolding == "exploit" :> Ranked @@ "prf_probe" :> Second @@ "generic_explore" :> Noisy
MCPlans == {<< <<>>, <<>> >>, << <<a>>, <<>> >>, << <<a, b, c>>, <<>> >>,
            << <<a, b, c>>, <<b>> >>, << <<a, b>>, <<c, a>> >>}
MCLaneChoices == {<<"exploit">>, <<"exploit", "prf_probe">>, <<"exploit", "generic_explore">>}
MCKnown == {{}, {1, 2, 3, 6}, 1..12}
MCMustScore == [r \in 1..14 |-> IF r \in MCFit THEN 80 ELSE IF r < 11 THEN 50 ELSE 20]
MCOffIntent == [r \in 1..14 |-> IF r > 10 THEN 1 ELSE 0]

VARIABLE part

\* Either part begins in several ways; while the other one runs it begins in one.
PartsInit ==
    /\ part \in {"run", "search"}
    /\ Init /\ RetrievalInit
    /\ part = "run" => /\ target = 5 /\ known = {} /\ lanes = <<"exploit">>
                       /\ places = LocationPlan(<<>>, <<>>, 1)
    /\ part = "search" => plan = {"cts"}

RunStep == part = "run" /\ Step /\ UNCHANGED <<part, retrievalVars>>
RunTrouble == part = "run" /\ (Trouble \/ CancelRun \/ Finished) /\ UNCHANGED <<part, retrievalVars>>
SearchStep == part = "search" /\ RetrievalNext /\ UNCHANGED <<part, vars>>
SearchOver == part = "search" /\ RetrievalOver /\ UNCHANGED <<part, vars>>

PartsNext == RunStep \/ RunTrouble \/ SearchStep \/ SearchOver
partVars == <<part, vars, retrievalVars>>
PartsSpec == PartsInit /\ [][PartsNext]_partVars /\ WF_partVars(RunStep) /\ WF_partVars(SearchStep)

\* A run that is not cancelled and a search come to their ends, as long as models,
\* providers and the scorer answer (RuntimeRun, RetrievalLoop).
EveryRunEnds == (part = "run" => RunEnds) /\ (part = "search" => SearchEnds)

=============================================================================
