--------------------------- MODULE RecordScripts ---------------------------
(***************************************************************************)
(* The order in which a run, the dataset export and the corpus export call *)
(* the stores.  A script is a sequence of calls <<what, argument, session  *)
(* or root>>; every write of a manifest is followed by "index", the        *)
(* rewriting of the partition index.  What the searches of a run return is *)
(* given.                                                                  *)
(***************************************************************************)
EXTENDS Naturals, FiniteSets, SequencesExt

CONSTANTS
    Sent,        \* of a run: the queries of each round, in order
    Arrivals,    \* of a run: what they returned, [query, resume], in order
    Person,      \* whose resume it is: equal dedup keys
    Fits,        \* the resumes that score as fit
    TermsOf,     \* the terms of a query
    Refused      \* of a run: the expressions the PRF gate refuses

\* A call, and a call on a session that writes its manifest.
Call(what) == <<what, "-", "-">>
Save(what, x, s) == << <<what, x, s>>, Call("index") >>

RoundOf(a, q) == CHOOSE n \in DOMAIN Sent[a] : \E k \in DOMAIN Sent[a][n] : Sent[a][n][k] = q
RunQueries(a) == UNION {Range(Sent[a][n]) : n \in DOMAIN Sent[a]}
Places(a, n) == {i \in DOMAIN Arrivals[a] : RoundOf(a, Arrivals[a][i].query) = n}

\* The first arrival of a person enters the pool, with its resume.
IsNew(a, i) ==
    \A j \in 1..(i - 1) : Person[Arrivals[a][j].resume] # Person[Arrivals[a][i].resume]

\* candidate_store after a round.
Stored(a, n) ==
    {Arrivals[a][i].resume : i \in {j \in DOMAIN Arrivals[a] :
                                      IsNew(a, j) /\ RoundOf(a, Arrivals[a][j].query) <= n}}

\* Mutant: a hit keeps its snapshot hash whether or not the snapshot is stored.
HashIsEnough(r, available) == TRUE

\* Without its snapshot a hit is recorded with the reason why.
Linked(r, available) == r \in available

\* query_hit_rows_from_hits, once _write_query_resume_hits has copied the scorecards:
\* a resume that was not kept has none, and none is new when scoring broke.
HitRows(a, n, doomed, available) ==
    {LET r == Arrivals[a][i].resume
         scored == r \in Stored(a, IF doomed THEN n - 1 ELSE n)
     IN  [run |-> a, query |-> Arrivals[a][i].query, no |-> i, resume |-> r,
          snapshot |-> Linked(r, available), new |-> IsNew(a, i),
          fit |-> IF ~scored THEN "none" ELSE IF r \in Fits THEN "fit" ELSE "not_fit"]
     : i \in Places(a, n)}

QueryRows(a, n) == {[run |-> a, query |-> q] : q \in Range(Sent[a][n])}

\* _build_flywheel_term_events: the terms that were run and the refused ones.
TermEvents(a, n) ==
    (UNION {{[run |-> a, query |-> q, term |-> t] : t \in TermsOf[q]} : q \in Range(Sent[a][n])})
    \cup {[run |-> a, query |-> "none", term |-> t] : t \in Refused[a]}

\* The candidates evaluate_run is given: the shortlisted ones.
Shortlist(a) == Stored(a, Len(Sent[a])) \cap Fits

----------------------------------------------------------------------------
(* WorkflowRuntime.                                                        *)

\* RunTracer and create_root come before the try.
OpenCalls == Save("create", "-", "run") \o Save("create", "-", "corpus")

\* _start_corpus_run, _start_flywheel_run.
StartCalls ==
    << <<"corpus_ref", "input", "run">>, Call("job"), Call("link"),
       Call("task"), <<"flywheel_ref", "manifest", "run">>, Call("start_run")>>

\* One resume of the provider's batch is archived and normalized.
ResumeCalls(r) ==
    Save("payload", r, "corpus")
    \o << <<"corpus_ref", r, "corpus">>, <<"subject", r, "-">>, <<"document", r, "corpus">> >>

CountCalls == <<Call("count"), Call("collection")>>

\* record_corpus_provider_results for what one query returned.
CorpusCalls(a, q) ==
    LET got == {i \in DOMAIN Arrivals[a] : Arrivals[a][i].query = q}
        resumes == [i \in DOMAIN Arrivals[a] |->
                       IF i \in got THEN ResumeCalls(Arrivals[a][i].resume) ELSE <<>>]
        members == [i \in DOMAIN Arrivals[a] |->
                       IF i \in got THEN << <<"member", Arrivals[a][i].resume, q>> >> ELSE <<>>]
    IN  CountCalls \o FlattenSeq(resumes)
        \o (IF got = {} THEN <<>>
            ELSE << <<"observe", q, "corpus">> >> \o FlattenSeq(members) \o CountCalls)

RunTables == <<"outcomes", "judged", "events", "termOutcomes">>

\* materialize_flywheel_run_artifacts.
MaterializeCalls(s) ==
    FlattenSeq([i \in DOMAIN RunTables |->
        Save("jsonl", RunTables[i], s) \o << <<"attach", RunTables[i], s>> >>])

TermCalls(n) == << <<"events", n, "-">>, <<"term_outcomes", n, "-">> >>

\* Mutant: the term rows are recorded after the artifacts were written.
WriteThenRecord(n) == MaterializeCalls("run") \o TermCalls(n)

RecordThenWrite(n) == TermCalls(n) \o MaterializeCalls("run")

\* The finally block of a round: the hits and all that is derived from them.
RetrievalCalls(a, n) ==
    LET arrived == SetToSeq({Arrivals[a][i].resume : i \in Places(a, n)})
    IN  Save("hits_artifact", n, "run")
        \o << <<"queries", n, "-">> >>
        \o [i \in DOMAIN arrived |-> <<"snapshot", arrived[i], n>>]
        \o << <<"hits", n, "-">>, <<"outcomes", n, "-">> >>
        \o (IF Refused[a] = {} THEN <<>> ELSE << <<"flywheel_ref", "prf", "run">> >>)
        \o RecordThenWrite(n) \o <<Call("raise")>>

RoundCalls(a, n) ==
    FlattenSeq([k \in DOMAIN Sent[a][n] |-> CorpusCalls(a, Sent[a][n][k])])
    \o << <<"score", n, "-">> >> \o RetrievalCalls(a, n)

\* Mutant: the judge outcomes are recorded before the labels.
OutcomesThenLabels == <<Call("judged"), Call("labels")>>

LabelsThenOutcomes == <<Call("labels"), Call("judged")>>

\* evaluate_run.
JudgeCalls(a) ==
    LET picked == SetToSeq(Shortlist(a))
    IN  <<Call("evaluate"), Call("task")>>
        \o [i \in DOMAIN picked |-> <<"snapshot", picked[i], Len(Sent[a])>>]
        \o <<Call("cached"), Call("judge")>> \o LabelsThenOutcomes

OutputCalls ==
    << <<"adopt", "-", "evaluation">> >> \o MaterializeCalls("evaluation")
    \o << <<"move", "-", "evaluation">>, <<"adopt", "-", "evaluation">> >>
    \o Save("register", "evaluation", "evaluation") \o Save("register", "raw_resumes", "evaluation")
    \o <<Call("evaluated")>>

\* What follows an evaluation, or its absence, is written through the run's own session.
Audit == Save("register", "audit", "run")

CloseCalls ==
    Save("ingest", "-", "corpus") \o Save("finalize", "-", "corpus")
    \o <<Call("complete_run")>> \o Save("finalize", "-", "run")

RoundsOf(a) ==
    OpenCalls \o StartCalls \o FlattenSeq([n \in DOMAIN Sent[a] |-> RoundCalls(a, n)])

\* A run with evaluation, and one that has it disabled.
RunScript(a) == RoundsOf(a) \o JudgeCalls(a) \o OutputCalls \o Audit \o CloseCalls
PlainScript(a) == RoundsOf(a) \o Audit \o CloseCalls

----------------------------------------------------------------------------
(* export_query_rewriting_dataset and materialize_corpus_artifacts with    *)
(* the commands that call them.                                            *)

ExportTables ==
    Save("create", "-", "export")
    \o FlattenSeq([i \in DOMAIN RunTables |-> Save("export_jsonl", RunTables[i], "export")])

\* Mutant: the rows of the samples are read when the tables have been written.
TablesThenSources == ExportTables \o <<Call("sources")>>

SourcesThenTables == <<Call("sources")>> \o ExportTables

DatasetScript ==
    SourcesThenTables \o Save("samples_jsonl", "-", "export") \o <<Call("samples")>>
    \o Save("register", "dataset_manifest", "export") \o Save("finalize", "-", "export")
    \o << <<"flywheel_ref", "dataset_manifest", "export">>, Call("dataset_export")>>

CorpusTableNames == <<"jobs", "subjects", "documents", "observations", "links", "members">>

CorpusScript ==
    Save("create", "-", "corpus") \o CountCalls
    \o FlattenSeq([i \in DOMAIN CorpusTableNames |->
           Save("corpus_jsonl", CorpusTableNames[i], "corpus")
           \o << <<"corpus_ref", CorpusTableNames[i], "corpus">> >>])
    \o Save("corpus_manifest", "-", "corpus")
    \o << <<"corpus_ref", "corpus_manifest", "corpus">>, Call("corpus_export")>>
    \o Save("corpus_jsonl", "exports", "corpus") \o << <<"corpus_ref", "exports", "corpus">> >>
    \o Save("finalize", "-", "corpus")

=============================================================================
