----------------------------- MODULE RunRecords -----------------------------
(***************************************************************************)
(* What runs and exports leave behind: processes over one flywheel         *)
(* database, one corpus database and one artifact tree.  Each follows a    *)
(* script of RecordScripts, one step per committed transaction or written  *)
(* file, and another may step in between any two.  A step of the body may  *)
(* fail, any step may be the last; how a run closes when closing itself    *)
(* fails is the business of RunStores.                                     *)
(***************************************************************************)
EXTENDS RecordScripts, ArtifactSessions, FlywheelTables, CorpusTables

CONSTANTS
    Job,           \* the job every run answers
    Verdicts,      \* of a process: the verdicts the judge may give it, resume -> BOOLEAN
    RoleChoices,   \* the parts the processes may play together
    Faulty,        \* the processes that may meet a fault
    MaxFaults      \* how many calls fail and processes crash, at most

VARIABLES
    role,        \* "run", "plain" (a run without evaluation), "dataset" or "corpus"
    pc,          \* position in the script
    fate,        \* "going", "completed", "failed" or "crashed"
    faults,
    fly, cor,    \* the two databases
    heap         \* what a process remembers between its steps

\* Rounds send known terms, and what arrives was asked for.
ASSUME RecordsAssumption ==
    /\ \A a \in Actor : Sent[a] \in Seq(Seq(DOMAIN TermsOf))
    /\ \A a \in Actor : Arrivals[a] \in Seq([query : RunQueries(a), resume : DOMAIN Person])
    /\ RoleChoices \subseteq [Actor -> {"run", "plain", "dataset", "corpus"}]
    /\ MaxFaults \in Nat

vars == <<files, role, pc, fate, faults, fly, cor, heap>>

NoHeap == [count |-> 0, available |-> {}, doomed |-> FALSE, fresh |-> {}, verdict |-> <<>>,
           rows |-> {}, evaluating |-> FALSE]

Scripts == [run |-> [a \in Actor |-> RunScript(a)],
            plain |-> [a \in Actor |-> PlainScript(a)],
            dataset |-> [a \in Actor |-> DatasetScript],
            corpus |-> [a \in Actor |-> CorpusScript]]
Script(a) == Scripts[role[a]][a]
IsRun(a) == role[a] \in {"run", "plain"}
Ended(a) == fate[a] # "going"
Here(a) == Script(a)[pc[a]]
Doing(a, what) == Here(a)[1] = what

Init ==
    /\ FilesInit
    /\ role \in RoleChoices
    /\ pc = [a \in Actor |-> 1] /\ fate = [a \in Actor |-> "going"] /\ faults = 0
    /\ fly = NoFlywheel /\ cor = NoCorpus
    /\ heap = [a \in Actor |-> NoHeap]

\* After its last call a process has ended as it was going to.
To(a, place) ==
    /\ pc' = [pc EXCEPT ![a] = place]
    /\ UNCHANGED <<role, faults>>
Onward(a) ==
    /\ To(a, pc[a] + 1)
    /\ fate' = IF pc[a] < Len(Script(a)) \/ fate[a] # "going" THEN fate
               ELSE [fate EXCEPT ![a] = IF heap[a].doomed THEN "failed" ELSE "completed"]

\* A call that writes a database, a file, or only memory.
FlyCall(a, what, db) == Doing(a, what) /\ fly' = db /\ Onward(a) /\ UNCHANGED <<files, cor, heap>>
CorCall(a, what, db) == Doing(a, what) /\ cor' = db /\ Onward(a) /\ UNCHANGED <<files, fly, heap>>
FileCall(a, what, act) == Doing(a, what) /\ act /\ Onward(a) /\ UNCHANGED <<fly, cor, heap>>
HeapCall(a, what, h) ==
    /\ Doing(a, what) /\ heap' = [heap EXCEPT ![a] = h] /\ Onward(a)
    /\ UNCHANGED <<files, fly, cor>>

Arg(a) == Here(a)[2]
In(a) == <<a, Here(a)[3]>>

----------------------------------------------------------------------------
(* Artifacts.                                                              *)

Create(a) == FileCall(a, "create", CreateRoot(In(a)))
Index(a) == FileCall(a, "index", WriteIndex(a))
Adopt(a) == FileCall(a, "adopt", AdoptRoot(In(a)))
Payload(a) == FileCall(a, "payload", WriteArtifact(In(a), Arg(a), "payload"))
HitsArtifact(a) == FileCall(a, "hits_artifact", WriteArtifact(In(a), "hits", "hits"))
Register(a) == FileCall(a, "register", WriteArtifact(In(a), Arg(a), "content"))
Ingest(a) ==
    FileCall(a, "ingest", WriteArtifact(In(a), "ingest", session[In(a)].entries \cap DOMAIN Person))
Finalize(a) ==
    FileCall(a, "finalize",
             FinalizeSession(In(a), IF heap[a].doomed THEN "failed" ELSE "completed"))
MoveOutputs(a) == FileCall(a, "move", MoveInto(<<a, "run">>, {"evaluation", "raw_resumes"}, "content"))

\* A table without rows of the run gets neither a file nor a reference.
Materialize(a) ==
    /\ Doing(a, "jsonl")
    /\ LET rows == RowsForRun(fly, Arg(a), a) IN
       IF rows = {} THEN To(a, pc[a] + 3) /\ UNCHANGED <<files, fate>>
       ELSE WriteArtifact(In(a), Arg(a), rows) /\ Onward(a)
    /\ UNCHANGED <<fly, cor, heap>>

----------------------------------------------------------------------------
(* The corpus database.                                                    *)

CorpusRef(a) == CorCall(a, "corpus_ref", RecordCorpusRef(cor, In(a), Arg(a)))
AddJob(a) == CorCall(a, "job", UpsertJob(cor, Job))
Link(a) == CorCall(a, "link", LinkRunToJob(cor, a, Job))
Subject(a) == CorCall(a, "subject", UpsertSubject(cor, Person[Arg(a)]))
Document(a) ==
    CorCall(a, "document",
            UpsertDocument(cor, [doc |-> Arg(a), person |-> Person[Arg(a)],
                                 ref |-> <<In(a), Arg(a)>>]))
Seen(a, q, r) == [run |-> a, query |-> q, doc |-> r, ref |-> << <<a, "corpus">>, r>>]
Observe(a) ==
    CorCall(a, "observe",
            RecordObservations(cor, {Seen(a, x.query, x.resume) :
                                       x \in {y \in Range(Arrivals[a]) : y.query = Arg(a)}}))
Member(a) == CorCall(a, "member", AddMember(cor, Arg(a), Seen(a, Here(a)[3], Arg(a))))

\* ensure_default_collection counts in one statement and writes in the next.
Count(a) == HeapCall(a, "count", [heap[a] EXCEPT !.count = CountMembers(cor)])
Collection(a) ==
    /\ Doing(a, "collection")
    /\ cor' = WriteCollection(cor, heap[a].count)
    /\ heap' = [heap EXCEPT ![a].count = 0]
    /\ Onward(a)
    /\ UNCHANGED <<files, fly>>

----------------------------------------------------------------------------
(* The flywheel database during the rounds.                                *)

FlywheelRef(a) == FlyCall(a, "flywheel_ref", RecordRef(fly, Root(In(a)), Arg(a)))
Task(a) == FlyCall(a, "task", UpsertTask(fly, Job))
StartRun(a) == FlyCall(a, "start_run", StartRunRow(fly, a, Job))
\* The reference of a file is recorded and then set in the rows the file holds.
Attach(a) == FlyCall(a, "attach", AttachRef(RecordRef(fly, Root(In(a)), Arg(a)), Arg(a), a))
Queries(a) == FlyCall(a, "queries", RecordQueries(fly, QueryRows(a, Arg(a))))

\* A resume that was kept is stored; of another the store is only asked.
Snapshot(a) ==
    /\ Doing(a, "snapshot")
    /\ fly' = IF Arg(a) \in Stored(a, Here(a)[3]) THEN UpsertSnapshot(fly, Arg(a)) ELSE fly
    /\ heap' = [heap EXCEPT ![a].available =
                    IF HasSnapshot(fly', Arg(a)) /\ ~heap[a].evaluating THEN @ \cup {Arg(a)} ELSE @]
    /\ Onward(a)
    /\ UNCHANGED <<files, cor>>

Hits(a) ==
    /\ Doing(a, "hits")
    /\ fly' = RecordHits(fly, HitRows(a, Arg(a), heap[a].doomed, heap[a].available))
    /\ heap' = [heap EXCEPT ![a].available = {}]
    /\ Onward(a)
    /\ UNCHANGED <<files, cor>>

\* The committed hits are read back, and every query sent gets a row.
Outcomes(a) ==
    LET mine == {h \in HitsOf(fly, a) : RoundOf(a, h.query) = Arg(a)}
        found == OutcomesFromHits(mine)
        silent == {q \in Range(Sent[a][Arg(a)]) : \A o \in found : o.query # q}
    IN  FlyCall(a, "outcomes", RecordOutcomes(fly, found \cup {ZeroRecall(a, q) : q \in silent}))

Events(a) == FlyCall(a, "events", RecordTermEvents(fly, TermEvents(a, Arg(a))))
TermOutcomes(a) ==
    FlyCall(a, "term_outcomes",
            RecordTermOutcomes(fly, TermOutcomesOf(TermEvents(a, Arg(a)),
                                                   RowsForRun(fly, "outcomes", a))))

\* Scoring ends; when it breaks, the finally block records the round all the same.
Score(a) ==
    \/ Doing(a, "score") /\ Onward(a) /\ UNCHANGED <<files, fly, cor, heap>>
    \/ /\ Doing(a, "score") /\ a \in Faulty /\ faults < MaxFaults
       /\ heap' = [heap EXCEPT ![a].doomed = TRUE]
       /\ faults' = faults + 1 /\ pc' = [pc EXCEPT ![a] = @ + 1]
       /\ UNCHANGED <<files, role, fate, fly, cor>>

ClosePlace(a) == Len(Script(a)) - Len(CloseCalls) + 1

\* The error of the scoring goes on once its round is recorded.
Reraise(a) ==
    /\ Doing(a, "raise")
    /\ IF heap[a].doomed THEN To(a, ClosePlace(a)) ELSE To(a, pc[a] + 1)
    /\ UNCHANGED <<files, fate, fly, cor, heap>>

CompleteRun(a) ==
    FlyCall(a, "complete_run",
            CompleteRunRow(fly, a, IF heap[a].doomed THEN "failed" ELSE "completed"))

----------------------------------------------------------------------------
(* The evaluation.                                                         *)

Evaluate(a) == HeapCall(a, "evaluate", [heap[a] EXCEPT !.evaluating = TRUE])
Evaluated(a) == HeapCall(a, "evaluated", [heap[a] EXCEPT !.evaluating = FALSE, !.verdict = <<>>])

\* judge_many asks for every label before it awaits the first verdict.
Cached(a) ==
    LET known == {l \in CachedLabels(fly, Job) : l.resume \in Shortlist(a)}
    IN  HeapCall(a, "cached",
            [heap[a] EXCEPT !.verdict = [r \in {l.resume : l \in known} |->
                                            (CHOOSE l \in known : l.resume = r).positive],
                            !.fresh = Shortlist(a) \ {l.resume : l \in known}])

Judge(a) ==
    \E v \in Verdicts[a] :
        HeapCall(a, "judge", [heap[a] EXCEPT !.verdict = With(@, [r \in heap[a].fresh |-> v[r]])])

\* The labels are written one by one, in the order the verdicts came.
Label(a) ==
    /\ Doing(a, "labels")
    /\ \/ \E r \in heap[a].fresh :
            /\ fly' = RecordLabel(fly, [task |-> Job, resume |-> r, positive |-> heap[a].verdict[r]])
            /\ heap' = [heap EXCEPT ![a].fresh = @ \ {r}]
            /\ UNCHANGED <<pc, role, fate, faults>>
       \/ heap[a].fresh = {} /\ Onward(a) /\ UNCHANGED <<fly, heap>>
    /\ UNCHANGED <<files, cor>>

Judged(a) ==
    /\ Doing(a, "judged")
    /\ fly' = RecordJudged(fly, JudgedFromHits(HitsOf(fly, a), Job, heap[a].verdict))
    /\ Onward(a)
    /\ UNCHANGED <<files, cor, heap>>

----------------------------------------------------------------------------
(* The exports.                                                            *)

Sources(a) == HeapCall(a, "sources",
                  [heap[a] EXCEPT !.rows = {SampleOf(r) : r \in SourceRows(fly, Actor \ {a})}])
ExportTable(a) ==
    FileCall(a, "export_jsonl",
             WriteArtifact(In(a), Arg(a), RowsForRuns(fly, Arg(a), Actor \ {a})))
SamplesFile(a) == FileCall(a, "samples_jsonl", WriteArtifact(In(a), "samples", heap[a].rows))
Samples(a) == FlyCall(a, "samples", RecordSamples(fly, heap[a].rows))
DatasetExport(a) ==
    FlyCall(a, "dataset_export",
            RecordDatasetExport(fly, [run |-> a, count |-> Cardinality(heap[a].rows),
                                      sources |-> SourceRefs(fly, Actor \ {a})]))
CorpusTable(a) == FileCall(a, "corpus_jsonl", WriteArtifact(In(a), Arg(a), "rows"))
\* The row the export is about to add is counted with those there are.
CorpusManifest(a) ==
    FileCall(a, "corpus_manifest",
             WriteArtifact(In(a), "corpus_manifest", Cardinality(cor.exports \cup {In(a)})))
CorpusExport(a) == CorCall(a, "corpus_export", RecordCorpusExport(cor, <<a, "corpus">>))

----------------------------------------------------------------------------
(* Faults.                                                                 *)

Body(a) == /\ ~Ended(a)
           /\ IsRun(a) => pc[a] < ClosePlace(a)

\* The except block of evaluate_run removes what was moved into the root.
DropOutputs(a) ==
    disk' = [disk EXCEPT ![<<a, "run">>] =
                IF heap[a].evaluating THEN Without(@, {"evaluation", "raw_resumes"}) ELSE @]

\* A call raises: nothing of it is committed.  The stores of a run are closed
\* unless it had not yet opened them; an export just stops.
Fail(a) ==
    /\ Body(a) /\ a \in Faulty /\ faults < MaxFaults /\ Here(a)[1] \notin {"raise", "score"}
    /\ faults' = faults + 1
    /\ DropOutputs(a) /\ LetGo(a)
    /\ heap' = [heap EXCEPT ![a] = [NoHeap EXCEPT !.doomed = TRUE]]
    /\ IF IsRun(a) /\ pc[a] > Len(OpenCalls)
       THEN pc' = [pc EXCEPT ![a] = ClosePlace(a)] /\ UNCHANGED fate
       ELSE fate' = [fate EXCEPT ![a] = "failed"] /\ UNCHANGED pc
    /\ UNCHANGED <<session, manifest, index, role, fly, cor>>

Crash(a) ==
    /\ ~Ended(a) /\ a \in Faulty /\ faults < MaxFaults
    /\ faults' = faults + 1
    /\ fate' = [fate EXCEPT ![a] = "crashed"]
    /\ LetGo(a)
    /\ UNCHANGED <<session, manifest, disk, index, role, pc, fly, cor, heap>>

\* What only a run does, only its evaluation, only an export, and what several do.
RunStep(a) ==
    \/ Payload(a) \/ HitsArtifact(a) \/ Ingest(a) \/ Materialize(a)
    \/ AddJob(a) \/ Link(a) \/ Subject(a) \/ Document(a) \/ Observe(a) \/ Member(a)
    \/ Task(a) \/ StartRun(a) \/ Attach(a) \/ Queries(a) \/ Snapshot(a) \/ Hits(a)
    \/ Outcomes(a) \/ Events(a) \/ TermOutcomes(a) \/ Score(a) \/ Reraise(a) \/ CompleteRun(a)
    \/ Evaluate(a)
EvaluationStep(a) ==
    \/ Evaluated(a) \/ Cached(a) \/ Judge(a) \/ Label(a) \/ Judged(a)
    \/ Adopt(a) \/ MoveOutputs(a)
ExportStep(a) ==
    \/ Sources(a) \/ ExportTable(a) \/ SamplesFile(a) \/ Samples(a) \/ DatasetExport(a)
    \/ CorpusTable(a) \/ CorpusManifest(a) \/ CorpusExport(a)
CommonStep(a) ==
    \/ Create(a) \/ Index(a) \/ Register(a) \/ Finalize(a)
    \/ CorpusRef(a) \/ Count(a) \/ Collection(a) \/ FlywheelRef(a)

Step(a) ==
    /\ ~Ended(a)
    /\ \/ CommonStep(a)
       \/ IsRun(a) /\ RunStep(a)
       \/ heap[a].evaluating /\ EvaluationStep(a)
       \/ ~IsRun(a) /\ ExportStep(a)

Next == \E a \in Actor : Step(a) \/ Fail(a) \/ Crash(a)

Spec == Init /\ [][Next]_vars

----------------------------------------------------------------------------
Runs == {a \in Actor : IsRun(a)}

\* The stores hold what their columns hold and a process is somewhere in its script.
RecordsTypeOK ==
    /\ role \in RoleChoices
    /\ \A a \in Actor : pc[a] \in 1..(Len(Script(a)) + 1)
    /\ \A a \in Actor : fate[a] \in {"going", "completed", "failed", "crashed"}
    /\ faults \in 0..MaxFaults
    /\ \A a \in Actor : held[a].kind \in Kinds \cup {"none"}
    /\ \A k \in Kinds, a \in Actor : index[k][a] \in {"none", "running", "completed", "failed"}

\* SQLite never refuses a row for a foreign key, whichever call failed and whoever
\* stepped in between: the snapshot of every linked hit is stored, every label has its
\* task and snapshot, every member its document and observation.  And a document's
\* raw payload is a file of the root its reference names.
EveryReferenceResolves ==
    /\ FlywheelRefsHold(fly)
    /\ CorpusRefsHold(cor)
    /\ \A d \in cor.documents : d.doc \in DOMAIN disk[d.ref[1]]

\* Types and references together: the tables are well formed at every moment.
WellFormedRecords == RecordsTypeOK /\ EveryReferenceResolves

\* The row of a root in the partition index tells the status of its manifest, unless
\* its own process is between the two writes or was stopped there: two processes that
\* rewrite one index at the same time lose no row.
IndexTellsManifests ==
    \A r \in Roots :
        manifest[r].status = index[r[2]][r[1]]
        \/ held[r[1]].kind = r[2]
        \/ fate[r[1]] \in {"failed", "crashed"} \/ heap[r[1]].doomed

\* The JSONL files of a completed run hold the rows of the database (their artifact
\* reference aside), and every outcome row counts the hits that are stored.
FilesTellTheTables ==
    \A a \in Runs :
        /\ fate[a] = "completed" =>
             /\ \A i \in DOMAIN RunTables :
                    LET rows == RowsForRun(fly, RunTables[i], a) IN
                    IF rows = {} THEN RunTables[i] \notin DOMAIN disk[<<a, "run">>]
                    ELSE /\ RunTables[i] \in DOMAIN disk[<<a, "run">>]
                         /\ disk[<<a, "run">>][RunTables[i]] = rows
             /\ {o.query : o \in RowsForRun(fly, "outcomes", a)} = RunQueries(a)
        /\ \A o \in RowsForRun(fly, "outcomes", a) :
             o.returned = 0 \/ o \in OutcomesFromHits(HitsOf(fly, a))

\* A judge outcome counts labels that are stored: no reader finds a query judged whose
\* resumes have no label, not even after a failure or a crash between the two.
JudgedAreLabelled ==
    \A o \in fly.judged :
        o.judged <= Cardinality({h \in HitsOf(fly, o.run) :
            h.query = o.query /\ h.new /\ h.snapshot
            /\ \E l \in fly.labels : l.resume = h.resume /\ l.task = o.task})

\* A closed manifest of a run names only files that are there: an evaluation that fails
\* while it registers its outputs takes them away again.
ManifestsNameFiles ==
    \A a \in Runs : manifest[<<a, "run">>].status \in {"completed", "failed"} =>
        manifest[<<a, "run">>].entries \subseteq DOMAIN disk[<<a, "run">>] \cup {"runtime.logs"}

\* The index tells the manifests and a closed manifest the files of its root.
ManifestsTellTheTree == IndexTellsManifests /\ ManifestsNameFiles

\* The corpus holds what a completed run was shown: each returned resume is a document,
\* observed, a member of the collection and listed in the ingest manifest.  The count
\* of the collection may lag behind its members but never exceeds them.
CorpusCoversRuns ==
    /\ \A count \in cor.collection : count <= Cardinality(cor.members)
    /\ \A a \in Runs : fate[a] = "completed" =>
         \A x \in Range(Arrivals[a]) :
            /\ Seen(a, x.query, x.resume) \in cor.observations
            /\ \E m \in cor.members : m.doc = x.resume
            /\ x.resume \in disk[<<a, "corpus">>]["ingest"]

\* What an export of rewriting samples recorded is in the tables it exported, and the
\* count it recorded is that of its file.
ExportsAreCoherent ==
    \A x \in fly.exports :
        /\ x.count = Cardinality(disk[<<x.run, "export">>]["samples"])
        /\ \A s \in disk[<<x.run, "export">>]["samples"] :
             /\ s \in fly.samples
             /\ \E o \in disk[<<x.run, "export">>]["judged"] : o.run = s.run /\ o.query = s.query

\* What leaves the databases is what they hold: a completed run is in the corpus, and an
\* export is one state of its tables.
CollectionsAreWhole == CorpusCoversRuns /\ ExportsAreCoherent

\* docs/superpowers/specs/2026-05-06-query-rewriting-data-flywheel-store-design.md:742
\* "Evaluation outputs must always be registered in the run manifest when eval succeeds."
EvaluationIsRegistered ==
    \A a \in Runs : role[a] = "run" /\ fate[a] = "completed" => "evaluation" \in manifest[<<a, "run">>].entries

=============================================================================
