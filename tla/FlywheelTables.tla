--------------------------- MODULE FlywheelTables ---------------------------
(***************************************************************************)
(* The tables of FlywheelStore as sets of rows, one operator per method    *)
(* that writes: the database after the call.  Each call is one committed   *)
(* transaction.  A row is reduced to its key, its references and what the  *)
(* outcomes count; a resume stands for its snapshot.                       *)
(***************************************************************************)
EXTENDS Naturals, Sequences, FiniteSets

NoFlywheel ==
    [tasks |-> {}, snapshots |-> {}, refs |-> {}, runs |-> {}, queries |-> {}, hits |-> {},
     labels |-> {}, outcomes |-> {}, judged |-> {}, events |-> {}, termOutcomes |-> {},
     attached |-> {}, samples |-> {}, exports |-> {}]

\* ON CONFLICT DO UPDATE: the new rows replace those that have their keys.
Upsert(rows, new, key) == {r \in rows : \A n \in new : \E f \in key : n[f] # r[f]} \cup new

\* The keys, as names of columns.
RunKey == {"run"}
QueryKey == {"run", "query"}
HitKey == {"run", "query", "no"}
LabelKey == {"task", "resume"}
TermKey == {"run", "query", "term"}
SampleKey == {"task", "query"}
QueryOf(r) == <<r.run, r.query>>

UpsertTask(db, task) == [db EXCEPT !.tasks = @ \cup {task}]
UpsertSnapshot(db, resume) == [db EXCEPT !.snapshots = @ \cup {resume}]
RecordRef(db, root, name) == [db EXCEPT !.refs = @ \cup {<<root, name>>}]

StartRunRow(db, run, task) ==
    [db EXCEPT !.runs = Upsert(@, {[run |-> run, task |-> task, status |-> "running"]}, RunKey)]

\* An UPDATE: a run that has no row gets none.
CompleteRunRow(db, run, status) ==
    [db EXCEPT !.runs = {IF r.run = run THEN [r EXCEPT !.status = status] ELSE r : r \in @}]

RecordQueries(db, rows) == [db EXCEPT !.queries = Upsert(@, rows, QueryKey)]
RecordHits(db, rows) == [db EXCEPT !.hits = Upsert(@, rows, HitKey)]
RecordOutcomes(db, rows) == [db EXCEPT !.outcomes = Upsert(@, rows, QueryKey)]
RecordJudged(db, rows) == [db EXCEPT !.judged = Upsert(@, rows, QueryKey)]
RecordTermEvents(db, rows) == [db EXCEPT !.events = Upsert(@, rows, TermKey)]
RecordTermOutcomes(db, rows) == [db EXCEPT !.termOutcomes = Upsert(@, rows, TermKey)]
RecordLabel(db, row) == [db EXCEPT !.labels = Upsert(@, {row}, LabelKey)]
RecordSamples(db, rows) == [db EXCEPT !.samples = Upsert(@, rows, SampleKey)]
RecordDatasetExport(db, row) == [db EXCEPT !.exports = Upsert(@, {row}, RunKey)]
AttachRef(db, table, run) == [db EXCEPT !.attached = @ \cup {<<table, run>>}]

RowsForRun(db, table, run) == {r \in db[table] : r.run = run}
RowsForRuns(db, table, runs) == {r \in db[table] : r.run \in runs}
HitsOf(db, run) == {h \in db.hits : h.run = run}
HasSnapshot(db, resume) == resume \in db.snapshots
CachedLabels(db, task) == {l \in db.labels : l.task = task}

----------------------------------------------------------------------------
(* What is derived from the hits.                                          *)

\* One outcome row for each query that has hits; a query without has none here.
OutcomesFromHits(hits) ==
    {LET mine == {h \in hits : QueryOf(h) = key}
         fresh == {h \in mine : h.new}
     IN  [run |-> key[1], query |-> key[2],
          returned |-> Cardinality(mine), new |-> Cardinality(fresh),
          duplicate |-> Cardinality(mine \ fresh),
          scored |-> Cardinality({h \in fresh : h.fit # "none"}),
          fit |-> Cardinality({h \in fresh : h.fit = "fit"})]
     : key \in {QueryOf(h) : h \in hits}}

\* The row of a query the provider answered with nothing.
ZeroRecall(run, query) ==
    [run |-> run, query |-> query, returned |-> 0, new |-> 0, duplicate |-> 0,
     scored |-> 0, fit |-> 0]

\* verdict: the judged resumes, TRUE for the positive ones.
JudgedFromHits(hits, task, verdict) ==
    LET kept == {h \in hits : h.snapshot} IN
    {LET mine == {h \in kept : QueryOf(h) = key}
         known == {h \in mine : h.new /\ h.resume \in DOMAIN verdict}
     IN  [run |-> key[1], query |-> key[2], task |-> task,
          returned |-> Cardinality(mine), new |-> Cardinality({h \in mine : h.new}),
          judged |-> Cardinality(known),
          positive |-> Cardinality({h \in known : verdict[h.resume]})]
     : key \in {QueryOf(h) : h \in kept}}

\* A rejected proposal was run by no query.
TermOutcomesOf(events, outcomes) ==
    {[run |-> e.run, query |-> e.query, term |-> e.term,
      executed |-> \E o \in outcomes : QueryOf(o) = QueryOf(e)] : e \in events}

\* query_rewrite_source_rows: judge outcomes joined with their task.
SourceRows(db, runs) == {r \in db.judged : r.run \in runs /\ r.task \in db.tasks}

SampleOf(row) == [task |-> row.task, run |-> row.run, query |-> row.query,
                  select |-> row.positive > 0]

SourceRefs(db, runs) == {x \in db.attached : x[2] \in runs}

----------------------------------------------------------------------------
(* The foreign keys; SQLite refuses a row that breaks one.                 *)

RunRefs(db) == \A r \in db.runs : r.task \in db.tasks
QueryRefs(db) == \A q \in db.queries : \E r \in db.runs : r.run = q.run
HitRefs(db) ==
    \A h \in db.hits :
        /\ \E q \in db.queries : QueryOf(q) = QueryOf(h)
        /\ h.snapshot => h.resume \in db.snapshots
LabelRefs(db) == \A l \in db.labels : l.task \in db.tasks /\ l.resume \in db.snapshots
OutcomeRefs(db) == \A o \in db.outcomes : \E r \in db.runs : r.run = o.run
JudgedRefs(db) ==
    \A o \in db.judged : o.task \in db.tasks /\ \E r \in db.runs : r.run = o.run
EventRefs(db) == \A e \in db.events : \E r \in db.runs : r.run = e.run
TermOutcomeRefs(db) == \A o \in db.termOutcomes : \E r \in db.runs : r.run = o.run
SampleRefs(db) == \A s \in db.samples : s.task \in db.tasks /\ \E r \in db.runs : r.run = s.run

FlywheelRefsHold(db) ==
    RunRefs(db) /\ QueryRefs(db) /\ HitRefs(db) /\ LabelRefs(db) /\ OutcomeRefs(db)
    /\ JudgedRefs(db) /\ EventRefs(db) /\ TermOutcomeRefs(db) /\ SampleRefs(db)

=============================================================================
