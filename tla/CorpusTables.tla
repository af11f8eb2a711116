---------------------------- MODULE CorpusTables ----------------------------
(***************************************************************************)
(* The tables of CorpusStore, one operator per method that writes: the     *)
(* database after the call.  A resume stands for its document and a person *)
(* for a subject; there is one tenant, one workspace and its one default   *)
(* collection.                                                             *)
(***************************************************************************)
EXTENDS Naturals, Sequences, FiniteSets

NoCorpus ==
    [refs |-> {}, jobs |-> {}, links |-> {}, subjects |-> {}, documents |-> {},
     observations |-> {}, collection |-> {}, members |-> {}, exports |-> {}]

RecordCorpusRef(db, root, name) == [db EXCEPT !.refs = @ \cup {<<root, name>>}]
UpsertJob(db, job) == [db EXCEPT !.jobs = @ \cup {job}]
LinkRunToJob(db, run, job) == [db EXCEPT !.links = {l \in @ : l[1] # run} \cup {<<run, job>>}]
UpsertSubject(db, person) == [db EXCEPT !.subjects = @ \cup {person}]

\* The row is replaced, but for where the document was first seen, which is left out.
UpsertDocument(db, row) ==
    [db EXCEPT !.documents = {d \in @ : d.doc # row.doc} \cup {row}]

\* The rows of one call are one transaction; a repeated row changes nothing here.
RecordObservations(db, rows) == [db EXCEPT !.observations = @ \cup rows]

\* Mutant: the documents are counted, members or not.
CountDocuments(db) == Cardinality(db.documents)

CountMembers(db) == Cardinality(db.members)
WriteCollection(db, count) == [db EXCEPT !.collection = {count}]

\* The observation that added a member stays the one it was.
AddMember(db, doc, observation) ==
    [db EXCEPT !.members = IF \E m \in @ : m.doc = doc
                           THEN @ ELSE @ \cup {[doc |-> doc, by |-> observation]}]

RecordCorpusExport(db, root) == [db EXCEPT !.exports = @ \cup {root}]

----------------------------------------------------------------------------
(* The foreign keys.                                                       *)

LinkRefs(db) == \A l \in db.links : l[2] \in db.jobs
DocumentRefs(db) == \A d \in db.documents : d.person \in db.subjects /\ d.ref \in db.refs
ObservationRefs(db) ==
    \A o \in db.observations : /\ \E d \in db.documents : d.doc = o.doc
                               /\ o.ref \in db.refs
MemberRefs(db) ==
    \A m \in db.members : /\ db.collection # {}
                          /\ \E d \in db.documents : d.doc = m.doc
                          /\ m.by \in db.observations
ExportRefs(db) == \A x \in db.exports : \E r \in db.refs : r[1] = x

CorpusRefsHold(db) ==
    LinkRefs(db) /\ DocumentRefs(db) /\ ObservationRefs(db) /\ MemberRefs(db) /\ ExportRefs(db)

=============================================================================
