------------------------- MODULE RequirementTriage -------------------------
(***************************************************************************)
(* What a search is run with: the criteria a recruiter reviews and         *)
(* approves, the extraction thread that drafts them (job_runner.py,        *)
(* start_requirement_triage), edits and approvals of the page, and the     *)
(* snapshot a worker takes of the criteria when it claims a job.  It adds  *)
(* the contents of session_requirement_triage to the store of SourceRuns,  *)
(* which only knows whether there are any.                                 *)
(***************************************************************************)
EXTENDS SourceRuns

CONSTANTS Edited,      \* criteria a recruiter may save
          Extracted,   \* criteria an extraction may come up with
          NoCriteria,  \* the empty lists a session starts with
          Extractor,   \* ids of extraction threads
          NoThread

ASSUME CriteriaAssumption == /\ NoCriteria \notin Edited \cup Extracted
                             /\ NoThread \notin Extractor

VARIABLES criteria,    \* the lists of session_requirement_triage
          approved,    \* the criteria last approved (history)
          preparing,   \* prepare requests that saw no criteria, not yet at the lock
          registered,  \* _triage_threads: the thread of each session
          stage,       \* where each extraction thread is
          used         \* the snapshot each claimed job runs with

triageVars == <<criteria, approved, preparing, registered, stage, used>>
vars == <<storeVars, triageVars>>

Criteria == {NoCriteria} \cup Edited \cup Extracted
Snapshot == [criteria : Criteria, status : {"blank", "draft", "approved"}]
Unclaimed == [criteria |-> NoCriteria, status |-> "blank"]

TriageTypeOK ==
    /\ criteria \in [Session -> Criteria]
    /\ approved \in [Session -> Criteria]
    /\ preparing \subseteq Session
    /\ registered \in [Session -> Extractor \cup {NoThread}]
    /\ stage \in [Extractor -> {"dead", "reading", "extracting", "leaving"}]
    /\ used \in [Job -> Snapshot]

TriageInit ==
    /\ Init
    /\ criteria = [s \in Session |-> NoCriteria]
    /\ approved = [s \in Session |-> NoCriteria]
    /\ preparing = {}
    /\ registered = [s \in Session |-> NoThread]
    /\ stage = [x \in Extractor |-> "dead"]
    /\ used = [j \in Job |-> Unclaimed]

\* Wrong variant: an approval survives the replacement.
ReplaceApproved(s, c) ==
    /\ SessionExists(s)
    /\ triage' = [triage EXCEPT ![s] = IF c = NoCriteria THEN "blank"
                                      ELSE IF @ = "approved" THEN @ ELSE "draft"]
    /\ criteria' = [criteria EXCEPT ![s] = c]
    /\ UNCHANGED <<runStatus, runAuth, connection, jobVars, approved>>

\* update_requirement_triage: the lists are replaced whatever they were.
Replace(s, c) ==
    /\ UpdateTriage(s)
    /\ triage'[s] = (IF c = NoCriteria THEN "blank" ELSE "draft")
    /\ criteria' = [criteria EXCEPT ![s] = c]
    /\ UNCHANGED approved

-----------------------------------------------------------------------------
(* Requests of the page.                                                   *)

\* PUT .../triage.
SaveCriteria(s) ==
    /\ \E c \in Edited \cup {NoCriteria} : Replace(s, c)
    /\ UNCHANGED <<preparing, registered, stage, used>>

\* POST .../triage/approve approves what is stored, not what the page showed.
Approve(s) ==
    /\ ApproveTriage(s)
    /\ approved' = [approved EXCEPT ![s] = criteria[s]]
    /\ UNCHANGED <<criteria, preparing, registered, stage, used>>

\* POST .../triage/prepare reads the session before it takes the lock...
BeginPrepare(s) ==
    /\ SessionExists(s)
    /\ criteria[s] = NoCriteria
    /\ preparing' = preparing \cup {s}
    /\ UNCHANGED <<storeVars, criteria, approved, registered, stage, used>>

\* Wrong variant: the registry is written but not consulted.
EndPrepareUnchecked(s) ==
    /\ s \in preparing
    /\ preparing' = preparing \ {s}
    /\ \E x \in Extractor : /\ stage[x] = "dead"
                            /\ registered' = [registered EXCEPT ![s] = x]
                            /\ stage' = [stage EXCEPT ![x] = "reading"]
    /\ UNCHANGED <<storeVars, criteria, approved, used>>

\* ...under which it starts a thread unless the session has one.
EndPrepare(s) ==
    /\ s \in preparing
    /\ preparing' = preparing \ {s}
    /\ \/ registered[s] # NoThread /\ UNCHANGED <<registered, stage>>
       \/ /\ registered[s] = NoThread
          /\ \E x \in Extractor : /\ stage[x] = "dead"
                                  /\ registered' = [registered EXCEPT ![s] = x]
                                  /\ stage' = [stage EXCEPT ![x] = "reading"]
    /\ UNCHANGED <<storeVars, criteria, approved, used>>

-----------------------------------------------------------------------------
(* The extraction thread of session s: _execute_requirement_triage.         *)

At(s, where) == registered[s] # NoThread /\ stage[registered[s]] = where
Goto(s, where) == stage' = [stage EXCEPT ![registered[s]] = where]

\* It reads the session again, and has nothing to do if criteria appeared.
ReadCriteria(s) ==
    /\ At(s, "reading")
    /\ Goto(s, IF criteria[s] = NoCriteria THEN "extracting" ELSE "leaving")
    /\ UNCHANGED <<storeVars, criteria, approved, preparing, registered, used>>

\* The extraction returned, a model call later: its result is saved, without
\* another look at what is stored by now.
SaveExtraction(s) ==
    /\ At(s, "extracting")
    /\ \E c \in Extracted : Replace(s, c)
    /\ Goto(s, "leaving")
    /\ UNCHANGED <<preparing, registered, used>>

\* The extraction failed: an event and a note say so.
ExtractionFails(s) ==
    /\ At(s, "extracting")
    /\ Goto(s, "leaving")
    /\ UNCHANGED <<storeVars, criteria, approved, preparing, registered, used>>

\* The finally clause: the thread takes itself off the registry and ends.
Leave(s) ==
    /\ At(s, "leaving")
    /\ Goto(s, "dead")
    /\ registered' = [registered EXCEPT ![s] = NoThread]
    /\ UNCHANGED <<storeVars, criteria, approved, preparing, used>>

\* The process stops and starts again; the tables stay.
Restart ==
    /\ \E x \in Extractor : stage[x] # "dead"
    /\ preparing' = {}
    /\ registered' = [s \in Session |-> NoThread]
    /\ stage' = [x \in Extractor |-> "dead"]
    /\ UNCHANGED <<storeVars, criteria, approved, used>>

-----------------------------------------------------------------------------
(* Jobs.                                                                   *)

\* claim_next_source_run_job reads the triage row into the job's context, and
\* _notes_with_triage later calls it "Approved requirement triage".
ClaimWithCriteria(j) ==
    /\ Claim(j)
    /\ LET s == SessionOf[jobRun[j]] IN
       used' = [used EXCEPT ![j] = [criteria |-> criteria[s], status |-> triage[s]]]
    /\ UNCHANGED <<criteria, approved, preparing, registered, stage>>

\* The steps of the store that have nothing to do with criteria.
OtherStoreStep ==
    /\ \/ \E s \in Session : CreateSession(s)
       \/ ConnectionStep
       \/ \E r \in Run, j \in Job : StartJob(r, j)
       \/ \E j \in Job : ExtendLease(j) \/ MarkFailed(j) \/ CompleteCts(j)
       \/ \E j \in Job, lane \in LaneStatus : CompleteLiepin(j, lane)
       \/ ReconcileExpired
       \/ Tick
    /\ UNCHANGED triageVars

TriageNext ==
    \/ \E s \in Session : \/ SaveCriteria(s) \/ Approve(s) \/ BeginPrepare(s) \/ EndPrepare(s)
                          \/ ReadCriteria(s) \/ SaveExtraction(s) \/ ExtractionFails(s) \/ Leave(s)
    \/ \E j \in Job : ClaimWithCriteria(j)
    \/ OtherStoreStep
    \/ Restart

TriageSpec == TriageInit /\ [][TriageNext]_vars

-----------------------------------------------------------------------------
(* Properties.                                                             *)

\* An approval stands for the very criteria that were approved: whoever replaces
\* them, recruiter or extraction thread, withdraws it (update_requirement_triage).
ApprovalCoversContent ==
    \A s \in Session : triage[s] = "approved" => criteria[s] = approved[s] /\ criteria[s] # NoCriteria

\* A session never has two extractions at once, however its prepare requests
\* overlap with each other and with a thread that is winding down
\* (start_requirement_triage's registry of threads).
OneExtractionPerSession ==
    \A x \in Extractor : stage[x] # "dead" =>
        Cardinality({s \in Session : registered[s] = x}) = 1

\* An approval covers the criteria it was given for, and a session's criteria are taken
\* from one extraction at a time (update_requirement_triage, start_requirement_triage).
TriageIsKept == ApprovalCoversContent /\ OneExtractionPerSession

\* "Source runs should use the approved triage state, not a hidden one-off
\* extraction": every claimed job runs with criteria that were approved.
ClaimedTriageIsApproved ==
    \A j \in Job : attempts[j] > 0 => used[j].status = "approved"
=============================================================================
