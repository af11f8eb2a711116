---------------------------- MODULE SourceRuns ----------------------------
(***************************************************************************)
(* The durable state of source runs and their jobs: tables sessions,       *)
(* source_runs, source_run_jobs and source_connections of the workbench    *)
(* database (workbench_store.py), for one user with one Liepin connection. *)
(* Every method of the store runs in one BEGIN IMMEDIATE transaction that  *)
(* is rolled back when an exception leaves it, so each method is one       *)
(* action.  Here anybody may call any method at any time: JobRunner and    *)
(* RequirementTriage restrict the callers to those the program has.        *)
(***************************************************************************)
EXTENDS Naturals, FiniteSets

CONSTANTS Session,    \* recruiting sessions
          CtsRun,     \* source runs of kind "cts"
          LiepinRun,  \* source runs of kind "liepin"
          SessionOf,  \* the session of each source run
          Job,        \* job ids the runs may use up (the bound on restarts)
          NoRun,      \* the source_run_id of a job not yet inserted
          LeaseTicks  \* job_runner.LEASE_DURATION in clock ticks

Run == CtsRun \cup LiepinRun

ASSUME RunAssumption == /\ CtsRun \cap LiepinRun = {}
                        /\ NoRun \notin Run
                        /\ SessionOf \in [Run -> Session]
ASSUME LeaseAssumption == LeaseTicks \in Nat \ {0}

VARIABLES runStatus,   \* source_runs.status, "absent" before the session exists
          runAuth,     \* source_runs.auth_state
          connection,  \* source_connections.status of the user's Liepin row
          triage,      \* session_requirement_triage: "blank" is a draft without criteria
          jobStatus,   \* source_run_jobs.status, "absent" before the insert
          jobRun,      \* source_run_jobs.source_run_id
          jobError,    \* why the job failed (error_message and its event)
          leaseLeft,   \* lease_expires_at minus the clock, 0 when past or NULL
          attempts,    \* source_run_jobs.attempt_count
          persisted    \* jobs whose candidates are in the review tables

jobVars == <<jobStatus, jobRun, jobError, leaseLeft, attempts, persisted>>
storeVars == <<runStatus, runAuth, connection, triage, jobVars>>

RunStatus == {"absent", "queued", "blocked", "running", "completed", "failed"}
JobStatus == {"absent", "queued", "running", "completed", "failed"}
JobError == {"none", "runtime_failed", "lease_expired", "lane_blocked", "lane_failed"}
ConnectionStatus == {"absent", "login_required", "login_in_progress", "connected"}
LaneStatus == {"completed", "partial", "blocked", "failed", "cancelled"}
Terminal == {"completed", "failed"}

TypeOK ==
    /\ runStatus \in [Run -> RunStatus]
    /\ runAuth \in [Run -> {"not_required", "login_required"}]
    /\ connection \in ConnectionStatus
    /\ triage \in [Session -> {"blank", "draft", "approved"}]
    /\ jobStatus \in [Job -> JobStatus]
    /\ jobRun \in [Job -> Run \cup {NoRun}]
    /\ jobError \in [Job -> JobError]
    /\ leaseLeft \in [Job -> 0..LeaseTicks]
    /\ attempts \in [Job -> Nat]
    /\ persisted \subseteq Job

Init ==
    /\ runStatus = [r \in Run |-> "absent"]
    /\ runAuth = [r \in Run |-> "not_required"]
    /\ connection = "absent"
    /\ triage = [s \in Session |-> "blank"]
    /\ jobStatus = [j \in Job |-> "absent"]
    /\ jobRun = [j \in Job |-> NoRun]
    /\ jobError = [j \in Job |-> "none"]
    /\ leaseLeft = [j \in Job |-> 0]
    /\ attempts = [j \in Job |-> 0]
    /\ persisted = {}

RunsOf(s) == {r \in Run : SessionOf[r] = s}
Active(j) == jobStatus[j] \in {"queued", "running"}
HasActiveJob(r) == \E j \in Job : jobRun[j] = r /\ Active(j)
Expired == {j \in Job : jobStatus[j] = "running" /\ leaseLeft[j] = 0}

-----------------------------------------------------------------------------
(* Sessions and requirement triage.                                        *)

\* create_workbench_session: a Liepin run starts queued only if connected.
CreateSession(s) ==
    LET locked == IF connection = "connected" THEN {} ELSE RunsOf(s) \cap LiepinRun IN
    /\ \A r \in RunsOf(s) : runStatus[r] = "absent"
    /\ RunsOf(s) # {}
    /\ runStatus' = [r \in Run |-> IF r \in locked THEN "blocked"
                                   ELSE IF r \in RunsOf(s) THEN "queued" ELSE runStatus[r]]
    /\ runAuth' = [r \in Run |-> IF r \in locked THEN "login_required" ELSE runAuth[r]]
    /\ UNCHANGED <<connection, triage, jobVars>>

SessionExists(s) == \E r \in RunsOf(s) : runStatus[r] # "absent"

\* update_requirement_triage: any edit, by anybody, withdraws the approval.
UpdateTriage(s) ==
    /\ SessionExists(s)
    /\ \E content \in {"blank", "draft"} : triage' = [triage EXCEPT ![s] = content]
    /\ UNCHANGED <<runStatus, runAuth, connection, jobVars>>

\* approve_requirement_triage: refused while there is nothing to approve.
ApproveTriage(s) ==
    /\ SessionExists(s)
    /\ triage[s] # "blank"
    /\ triage' = [triage EXCEPT ![s] = "approved"]
    /\ UNCHANGED <<runStatus, runAuth, connection, jobVars>>

-----------------------------------------------------------------------------
(* The Liepin connection.                                                  *)

\* get_or_create_liepin_source_connection.
CreateConnection ==
    /\ connection = "absent"
    /\ connection' = "login_required"
    /\ UNCHANGED <<runStatus, runAuth, triage, jobVars>>

\* start_liepin_login_handoff.
StartLogin ==
    /\ connection # "absent"
    /\ connection' = "login_in_progress"
    /\ UNCHANGED <<runStatus, runAuth, triage, jobVars>>

\* The runs a connection update takes out of "blocked", without giving them a job.
Unblock(R) ==
    /\ runStatus' = [r \in Run |-> IF r \in R THEN "queued" ELSE runStatus[r]]
    /\ runAuth' = [r \in Run |-> IF r \in R THEN "not_required" ELSE runAuth[r]]

\* mark_liepin_connection_connected.
MarkConnected ==
    /\ connection # "absent"
    /\ connection' = "connected"
    /\ Unblock({r \in LiepinRun : runStatus[r] = "blocked" /\ runAuth[r] = "login_required"})
    /\ UNCHANGED <<triage, jobVars>>

\* Wrong variant: the update of the run has no "status = 'blocked'" condition.
MarkConnectedForAnyRun(r) ==
    /\ connection # "absent"
    /\ r \in LiepinRun /\ runStatus[r] # "absent"
    /\ connection' = "connected"
    /\ Unblock({r})
    /\ UNCHANGED <<triage, jobVars>>

\* mark_liepin_connection_connected_for_source_run.
MarkConnectedForRun(r) ==
    /\ connection # "absent"
    /\ r \in LiepinRun /\ runStatus[r] # "absent"
    /\ connection' = "connected"
    /\ Unblock({r} \cap {q \in LiepinRun : runStatus[q] = "blocked"})
    /\ UNCHANGED <<triage, jobVars>>

\* mark_liepin_connection_connected_without_source_runs.
MarkConnectedWithoutRuns ==
    /\ connection # "absent"
    /\ connection' = "connected"
    /\ UNCHANGED <<runStatus, runAuth, triage, jobVars>>

\* Wrong variant: a queued run with a job may be touched.
ProbeIgnoresJobs(r) == r \in LiepinRun /\ runStatus[r] \in {"queued", "blocked"}

\* May a start probe for run r still touch it?  (the early returns shared by
\* mark_liepin_connection_login_required and block_source_run_for_start_probe)
ProbeMayTouch(r) ==
    /\ r \in LiepinRun
    /\ runStatus[r] \in {"queued", "blocked"}
    /\ ~(runStatus[r] = "queued" /\ HasActiveJob(r))

\* mark_liepin_connection_login_required, as the start probe of run r calls it.
MarkLoginRequired(r) ==
    /\ connection # "absent"
    /\ ProbeMayTouch(r)
    /\ connection' = "login_required"
    /\ UNCHANGED <<runStatus, runAuth, triage, jobVars>>

\* block_source_run_for_start_probe.
BlockForProbe(r) ==
    /\ ProbeMayTouch(r)
    /\ runStatus' = [runStatus EXCEPT ![r] = "blocked"]
    /\ runAuth' = [runAuth EXCEPT ![r] = "login_required"]
    /\ UNCHANGED <<connection, triage, jobVars>>

-----------------------------------------------------------------------------
(* Jobs.                                                                   *)

\* Wrong variant: no check for a run that ended.
StartableAgain(r) ==
    /\ runStatus[r] # "absent"
    /\ r \in LiepinRun => connection = "connected"
    /\ triage[SessionOf[r]] = "approved"

Startable(r) ==
    /\ runStatus[r] \in {"queued", "blocked", "running"}
    /\ r \in LiepinRun => connection = "connected"
    /\ triage[SessionOf[r]] = "approved"

\* The statements that insert job j and queue its run.
InsertJob(r, j) ==
    /\ jobStatus[j] = "absent"
    /\ jobStatus' = [jobStatus EXCEPT ![j] = "queued"]
    /\ jobRun' = [jobRun EXCEPT ![j] = r]
    /\ runStatus' = [runStatus EXCEPT ![r] = "queued"]
    /\ runAuth' = [runAuth EXCEPT ![r] = "not_required"]
    /\ UNCHANGED <<connection, triage, jobError, leaseLeft, attempts, persisted>>

\* Wrong variant: no look for an active job before the insert.
StartJobUnchecked(r, j) == Startable(r) /\ InsertJob(r, j)

\* start_source_run_job when it inserts a job.  A run that already has an active
\* job, a terminal run and a refusal (PermissionError) change nothing: the UPDATE
\* to "blocked" that precedes the refusal is rolled back with its transaction.
StartJob(r, j) ==
    /\ Startable(r)
    /\ ~HasActiveJob(r)
    /\ InsertJob(r, j)

\* Wrong variant: the update of the job has no "status = 'queued'" condition.
ClaimUnchecked(j) ==
    /\ jobStatus[j] \in {"queued", "running"}
    /\ jobStatus' = [jobStatus EXCEPT ![j] = "running"]
    /\ leaseLeft' = [leaseLeft EXCEPT ![j] = LeaseTicks]
    /\ attempts' = [attempts EXCEPT ![j] = @ + 1]
    /\ runStatus' = [runStatus EXCEPT ![jobRun[j]] = "running"]
    /\ UNCHANGED <<runAuth, connection, triage, jobRun, jobError, persisted>>

\* claim_next_source_run_job: the oldest queued job of the lane.  created_at has
\* one-second resolution and ties are broken by a random id, so any queued job.
Claim(j) ==
    /\ jobStatus[j] = "queued"
    /\ jobStatus' = [jobStatus EXCEPT ![j] = "running"]
    /\ leaseLeft' = [leaseLeft EXCEPT ![j] = LeaseTicks]
    /\ attempts' = [attempts EXCEPT ![j] = @ + 1]
    /\ runStatus' = [runStatus EXCEPT ![jobRun[j]] = "running"]
    /\ UNCHANGED <<runAuth, connection, triage, jobRun, jobError, persisted>>

\* Wrong variant: the lease is prolonged from its old end.
ExtendLeaseFurther(j) ==
    /\ jobStatus[j] = "running"
    /\ leaseLeft' = [leaseLeft EXCEPT ![j] = @ + LeaseTicks]
    /\ UNCHANGED <<runStatus, runAuth, connection, triage,
                   jobStatus, jobRun, jobError, attempts, persisted>>

\* extend_source_run_job_lease: a lease that ran out but was not reconciled yet
\* is renewed like any other.
ExtendLease(j) ==
    /\ jobStatus[j] = "running"
    /\ leaseLeft' = [leaseLeft EXCEPT ![j] = LeaseTicks]
    /\ UNCHANGED <<runStatus, runAuth, connection, triage,
                   jobStatus, jobRun, jobError, attempts, persisted>>

\* Wrong variant: expired jobs are queued again.
ReconcileRequeues ==
    /\ Expired # {}
    /\ jobStatus' = [j \in Job |-> IF j \in Expired THEN "queued" ELSE jobStatus[j]]
    /\ runStatus' = [r \in Run |-> IF \E j \in Expired : jobRun[j] = r
                                   THEN "queued" ELSE runStatus[r]]
    /\ UNCHANGED <<runAuth, connection, triage, jobRun, jobError, leaseLeft, attempts, persisted>>

\* reconcile_expired_running_jobs.
ReconcileExpired ==
    /\ Expired # {}
    /\ jobStatus' = [j \in Job |-> IF j \in Expired THEN "failed" ELSE jobStatus[j]]
    /\ jobError' = [j \in Job |-> IF j \in Expired THEN "lease_expired" ELSE jobError[j]]
    /\ runStatus' = [r \in Run |-> IF \E j \in Expired : jobRun[j] = r
                                   THEN "failed" ELSE runStatus[r]]
    /\ UNCHANGED <<runAuth, connection, triage, jobRun, leaseLeft, attempts, persisted>>

\* The reconciliation as its callers see it: it may find nothing to do.
Reconcile == ReconcileExpired \/ (Expired = {} /\ UNCHANGED storeVars)

\* _finish_source_run_job_conn: the one place a worker's job ends.
Finish(j, status, error, run) ==
    /\ jobStatus' = [jobStatus EXCEPT ![j] = status]
    /\ jobError' = [jobError EXCEPT ![j] = error]
    /\ leaseLeft' = [leaseLeft EXCEPT ![j] = 0]
    /\ runStatus' = [runStatus EXCEPT ![jobRun[j]] = run]
    /\ UNCHANGED <<runAuth, connection, triage, jobRun, attempts>>

\* mark_source_run_failed: the worker caught an exception.
MarkFailed(j) ==
    /\ jobStatus[j] = "running"
    /\ Finish(j, "failed", "runtime_failed", "failed")
    /\ UNCHANGED persisted

\* Wrong variant: candidates are persisted before the job's status is looked at.
CompleteCtsLate(j) ==
    /\ jobStatus[j] \in {"running", "failed"}
    /\ jobRun[j] \in CtsRun
    /\ IF jobStatus[j] = "running" THEN Finish(j, "completed", "none", "completed")
       ELSE UNCHANGED <<runStatus, runAuth, connection, triage,
                        jobStatus, jobRun, jobError, leaseLeft, attempts>>
    /\ persisted' = persisted \cup {j}

\* complete_cts_source_run_with_candidate_results.
CompleteCts(j) ==
    /\ jobStatus[j] = "running"
    /\ jobRun[j] \in CtsRun
    /\ Finish(j, "completed", "none", "completed")
    /\ persisted' = persisted \cup {j}

\* How a lane result ends the job and the run (_liepin_job_status_from_lane_result,
\* _liepin_source_run_status_from_lane_result).
JobStatusOf(lane) == IF lane \in {"blocked", "failed", "cancelled"} THEN "failed" ELSE "completed"
JobErrorOf(lane) == CASE lane = "blocked" -> "lane_blocked"
                      [] lane \in {"failed", "cancelled"} -> "lane_failed"
                      [] OTHER -> "none"
RunStatusOf(lane) == CASE lane = "blocked" -> "blocked"
                       [] lane \in {"failed", "cancelled"} -> "failed"
                       [] OTHER -> "completed"

\* complete_liepin_card_source_run_with_lane_result: the candidates found are
\* persisted whatever the lane's status.
CompleteLiepin(j, lane) ==
    /\ jobStatus[j] = "running"
    /\ jobRun[j] \in LiepinRun
    /\ Finish(j, JobStatusOf(lane), JobErrorOf(lane), RunStatusOf(lane))
    /\ persisted' = persisted \cup {j}

\* Time passes for the leases of running jobs.
Tick ==
    /\ \E j \in Job : leaseLeft[j] > 0
    /\ leaseLeft' = [j \in Job |-> IF leaseLeft[j] > 0 THEN leaseLeft[j] - 1 ELSE 0]
    /\ UNCHANGED <<runStatus, runAuth, connection, triage,
                   jobStatus, jobRun, jobError, attempts, persisted>>

-----------------------------------------------------------------------------
SessionStep == \E s \in Session : CreateSession(s) \/ UpdateTriage(s) \/ ApproveTriage(s)
ConnectionStep ==
    \/ CreateConnection \/ StartLogin \/ MarkConnected \/ MarkConnectedWithoutRuns
    \/ \E r \in Run : MarkConnectedForRun(r) \/ MarkLoginRequired(r) \/ BlockForProbe(r)
JobStep ==
    \/ \E r \in Run, j \in Job : StartJob(r, j)
    \/ \E j \in Job : Claim(j) \/ ExtendLease(j) \/ MarkFailed(j) \/ CompleteCts(j)
    \/ \E j \in Job, lane \in LaneStatus : CompleteLiepin(j, lane)
    \/ ReconcileExpired

Next == SessionStep \/ ConnectionStep \/ JobStep \/ Tick

Spec == Init /\ [][Next]_storeVars

-----------------------------------------------------------------------------
(* Safety.                                                                 *)

\* A run never has two active jobs, so never two workers
\* (start_source_run_job's check against concurrent start requests).
OneActiveJob == \A j, k \in Job : Active(j) /\ Active(k) /\ jobRun[j] = jobRun[k] => j = k

\* The two tables agree: an active job's run has the job's status, a run shown
\* as running has a running job behind it, and no update of the connection or of
\* a probe moves a run away under its job.
RunMirrorsJob ==
    /\ \A j \in Job : Active(j) => runStatus[jobRun[j]] = jobStatus[j]
    /\ \A r \in Run : runStatus[r] = "running" =>
           \E j \in Job : jobRun[j] = r /\ jobStatus[j] = "running"

\* A worker whose lease was reconciled away cannot publish what it found, and a
\* completed run shows the candidates of exactly one completed job
\* (the status check of the complete_* methods).
ResultsFenced ==
    /\ \A j \in persisted : jobStatus[j] \in Terminal /\ jobError[j] \notin {"lease_expired", "runtime_failed"}
    /\ \A r \in Run : runStatus[r] = "completed" =>
           \E j \in persisted : /\ jobRun[j] = r /\ jobStatus[j] = "completed"
                                /\ \A k \in Job : jobRun[k] = r /\ jobStatus[k] = "completed" => k = j

\* A job is handed to a worker at most once, so the external work of a job is
\* never repeated by a second worker (claim_next_source_run_job).
ClaimedAtMostOnce ==
    \A j \in Job : attempts[j] = (IF jobStatus[j] \in {"absent", "queued"} THEN 0 ELSE 1)

\* A run that ended stays as it ended, whatever start, probe, login or late
\* worker comes after (start_source_run_job's terminal check).
RunEndsOnce == [][\A r \in Run : runStatus[r] \in Terminal => runStatus'[r] = runStatus[r]]_storeVars

\* What the rows of a job say together: a job belongs to an existing run from its
\* insert on, only a failed job has a reason, and a completed job has its
\* candidates persisted and its run completed with it.
JobRowsAgree ==
    \A j \in Job :
        /\ jobStatus[j] = "absent" <=> jobRun[j] = NoRun
        /\ jobStatus[j] # "absent" => runStatus[jobRun[j]] # "absent"
        /\ jobStatus[j] # "failed" => jobError[j] = "none"
        /\ jobStatus[j] = "completed" => j \in persisted /\ runStatus[jobRun[j]] = "completed"

\* The inductive invariant of the store.
StoreInv == /\ TypeOK /\ JobRowsAgree /\ OneActiveJob
            /\ RunMirrorsJob /\ ResultsFenced /\ ClaimedAtMostOnce

-----------------------------------------------------------------------------
(* The contract of a source run, in terms of the tables.                   *)

PhaseOf(r) == IF runStatus[r] \in Terminal THEN "done"
              ELSE IF \E j \in Job : jobRun[j] = r /\ jobStatus[j] = "running" THEN "working"
              ELSE IF \E j \in Job : jobRun[j] = r /\ jobStatus[j] = "queued" THEN "waiting"
              ELSE "idle"
PublishedOf(r) == IF \E j \in persisted : jobRun[j] = r /\ jobStatus[j] = "completed" THEN "final"
                  ELSE IF \E j \in persisted : jobRun[j] = r THEN "provisional"
                  ELSE "nothing"

Contract == INSTANCE SourceRunContract WITH
    phase <- [r \in Run |-> PhaseOf(r)],
    published <- [r \in Run |-> PublishedOf(r)]

\* Every history of the tables is one the contract allows.
ContractKept == Contract!Spec
=============================================================================
