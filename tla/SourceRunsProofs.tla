------------------------- MODULE SourceRunsProofs -------------------------
(***************************************************************************)
(* Proofs about SourceRuns for any number of sessions, runs and jobs: its  *)
(* safety properties hold of every reachable state (StoreInv is            *)
(* inductive), a run that ended stays as it ended, and the tables          *)
(* implement the contract of a source run.                                 *)
(***************************************************************************)
EXTENDS SourceRuns, TLAPS

\* A fresh database satisfies the invariant: no run, no job, nothing persisted.
LEMMA InitInv == Init => StoreInv
BY RunAssumption, LeaseAssumption
DEF Init, StoreInv, TypeOK, JobRowsAgree, OneActiveJob, RunMirrorsJob, ResultsFenced,
    Terminal, ClaimedAtMostOnce, Active, RunStatus, JobStatus, JobError, ConnectionStatus

\* Steps that touch neither a job nor the status of a run with an active or a
\* completed job keep the invariant.
LEMMA JobsUntouched ==
    ASSUME StoreInv, TypeOK', UNCHANGED jobVars,
           \A r \in Run : runStatus'[r] # runStatus[r] =>
               /\ runStatus[r] \in {"absent", "queued", "blocked"}
               /\ runStatus'[r] \in {"queued", "blocked"}
               /\ ~HasActiveJob(r)
    PROVE  StoreInv'
<1> USE DEF jobVars
<1>1. JobRowsAgree'
  BY DEF StoreInv, JobRowsAgree, TypeOK
<1>2. OneActiveJob'
  BY DEF StoreInv, OneActiveJob, Active
<1>3. RunMirrorsJob'
  BY DEF StoreInv, RunMirrorsJob, JobRowsAgree, HasActiveJob, Active, TypeOK, JobStatus
<1>4. ResultsFenced'
  BY DEF StoreInv, ResultsFenced, Terminal, Active, TypeOK
<1>5. ClaimedAtMostOnce'
  BY DEF StoreInv, ClaimedAtMostOnce
<1> QED
  BY <1>1, <1>2, <1>3, <1>4, <1>5 DEF StoreInv

\* Creating a session, editing and approving its triage keep the invariant.
LEMMA SessionStepInv == StoreInv /\ SessionStep => StoreInv'
<1>1. ASSUME StoreInv, NEW s \in Session, CreateSession(s) PROVE StoreInv'
  <2>1. TypeOK'
    BY <1>1 DEF StoreInv, CreateSession, TypeOK, RunStatus, jobVars
  <2>2. \A r \in Run : runStatus'[r] # runStatus[r] =>
               /\ runStatus[r] = "absent" /\ runStatus'[r] \in {"queued", "blocked"}
    BY <1>1 DEF StoreInv, CreateSession, TypeOK, RunsOf
  <2>3. \A r \in Run : runStatus[r] = "absent" => ~HasActiveJob(r)
    BY <1>1 DEF StoreInv, JobRowsAgree, HasActiveJob, Active
  <2> QED
    BY <1>1, <2>1, <2>2, <2>3, JobsUntouched DEF CreateSession
<1>2. ASSUME StoreInv, NEW s \in Session, UpdateTriage(s) \/ ApproveTriage(s) PROVE StoreInv'
  <2>1. TypeOK'
    BY <1>2 DEF StoreInv, UpdateTriage, ApproveTriage, TypeOK, jobVars
  <2> QED
    BY <1>2, <2>1, JobsUntouched DEF UpdateTriage, ApproveTriage
<1> QED
  BY <1>1, <1>2 DEF SessionStep

\* No login, probe or connection update touches a run under its active job: the
\* probe looks for a job first, and a blocked run has none.
LEMMA ConnectionStepInv == StoreInv /\ ConnectionStep => StoreInv'
<1> SUFFICES ASSUME StoreInv, ConnectionStep PROVE StoreInv'
  OBVIOUS
<1>0. \A r \in Run : runStatus[r] = "blocked" => ~HasActiveJob(r)
  BY DEF StoreInv, RunMirrorsJob, HasActiveJob, Active
<1>1. CASE CreateConnection \/ StartLogin \/ MarkConnectedWithoutRuns
           \/ \E r \in Run : MarkLoginRequired(r)
  <2>1. TypeOK'
    BY <1>1 DEF StoreInv, CreateConnection, StartLogin, MarkConnectedWithoutRuns,
                MarkLoginRequired, TypeOK, ConnectionStatus, jobVars
  <2>2. UNCHANGED <<runStatus, jobVars>>
    BY <1>1 DEF CreateConnection, StartLogin, MarkConnectedWithoutRuns, MarkLoginRequired
  <2> QED
    BY <2>1, <2>2, JobsUntouched
<1>2. CASE MarkConnected \/ \E r \in Run : MarkConnectedForRun(r)
  <2>1. TypeOK'
    BY <1>2 DEF StoreInv, MarkConnected, MarkConnectedForRun, Unblock, TypeOK,
                ConnectionStatus, RunStatus, jobVars
  <2>2. \A r \in Run : runStatus'[r] # runStatus[r] =>
               runStatus[r] = "blocked" /\ runStatus'[r] = "queued"
    BY <1>2 DEF StoreInv, MarkConnected, MarkConnectedForRun, Unblock, TypeOK
  <2> QED
    BY <1>0, <1>2, <2>1, <2>2, JobsUntouched DEF MarkConnected, MarkConnectedForRun
<1>3. ASSUME NEW r \in Run, BlockForProbe(r) PROVE StoreInv'
  <2>1. TypeOK'
    BY <1>3 DEF StoreInv, BlockForProbe, TypeOK, RunStatus, jobVars
  <2>2. \A q \in Run : runStatus'[q] # runStatus[q] => q = r /\ runStatus'[q] = "blocked"
    BY <1>3 DEF StoreInv, BlockForProbe, TypeOK
  <2>3. runStatus[r] \in {"queued", "blocked"} /\ ~HasActiveJob(r)
    BY <1>0, <1>3 DEF BlockForProbe, ProbeMayTouch
  <2> QED
    BY <1>3, <2>1, <2>2, <2>3, JobsUntouched DEF BlockForProbe
<1> QED
  BY <1>1, <1>2, <1>3 DEF ConnectionStep

-----------------------------------------------------------------------------
(* Job steps.                                                              *)

\* start_source_run_job keeps the invariant: it inserts only for a run that has no
\* active job, and queues job and run together.
LEMMA StartJobInv ==
    ASSUME StoreInv, NEW r \in Run, NEW j \in Job, StartJob(r, j)
    PROVE  StoreInv'
<1> USE DEF StartJob, InsertJob
<1>1. /\ jobStatus[j] = "absent" /\ jobRun[j] = NoRun /\ j \notin persisted
      /\ runStatus[r] \in {"queued", "blocked", "running"} /\ ~HasActiveJob(r)
  BY DEF StoreInv, TypeOK, JobRowsAgree, ResultsFenced, Terminal, Startable, ClaimedAtMostOnce,
         OneActiveJob, JobError, HasActiveJob
<1>2. TypeOK'
  BY <1>1 DEF StoreInv, TypeOK, JobStatus, RunStatus
<1>3. \A k \in Job : k # j => jobStatus'[k] = jobStatus[k] /\ jobRun'[k] = jobRun[k]
  BY DEF StoreInv, TypeOK
<1>4. jobStatus'[j] = "queued" /\ jobRun'[j] = r /\ runStatus'[r] = "queued"
  BY DEF StoreInv, TypeOK
<1>5. \A q \in Run : q # r => runStatus'[q] = runStatus[q]
  BY DEF StoreInv, TypeOK
<1>6. JobRowsAgree'
  BY <1>1, <1>3, <1>4, <1>5, RunAssumption DEF StoreInv, JobRowsAgree, TypeOK
<1>7. OneActiveJob'
  BY <1>1, <1>3, <1>4 DEF StoreInv, OneActiveJob, Active, HasActiveJob
<1>8. RunMirrorsJob'
  BY <1>1, <1>3, <1>4, <1>5 DEF StoreInv, RunMirrorsJob, JobRowsAgree, HasActiveJob, Active, TypeOK
<1>9. ResultsFenced'
  BY <1>1, <1>3, <1>4, <1>5 DEF StoreInv, ResultsFenced, Terminal, Active, TypeOK
<1>10. ClaimedAtMostOnce'
  BY <1>1, <1>3, <1>4 DEF StoreInv, ClaimedAtMostOnce
<1> QED
  BY <1>2, <1>6, <1>7, <1>8, <1>9, <1>10 DEF StoreInv

\* claim_next_source_run_job keeps the invariant: the job was queued, so it is the
\* only active one of its run and was never claimed.
LEMMA ClaimInv ==
    ASSUME StoreInv, NEW j \in Job, Claim(j)
    PROVE  StoreInv'
<1> USE DEF Claim
<1> DEFINE r == jobRun[j]
<1>1. r \in Run /\ runStatus[r] = "queued" /\ j \notin persisted /\ attempts[j] = 0
  BY RunAssumption DEF StoreInv, TypeOK, JobRowsAgree, RunMirrorsJob, Active, ResultsFenced,
                       ClaimedAtMostOnce, Terminal
<1>2. TypeOK'
  BY <1>1, LeaseAssumption DEF StoreInv, TypeOK, JobStatus, RunStatus
<1>3. \A k \in Job : k # j => jobStatus'[k] = jobStatus[k] /\ attempts'[k] = attempts[k]
  BY DEF StoreInv, TypeOK
<1>4. jobStatus'[j] = "running" /\ attempts'[j] = 1 /\ runStatus'[r] = "running"
  BY <1>1 DEF StoreInv, TypeOK
<1>5. \A q \in Run : q # r => runStatus'[q] = runStatus[q]
  BY DEF StoreInv, TypeOK
<1>6. JobRowsAgree'
  BY <1>1, <1>3, <1>4, <1>5 DEF StoreInv, JobRowsAgree, TypeOK
<1>7. OneActiveJob'
  BY <1>3, <1>4 DEF StoreInv, OneActiveJob, Active
<1>8. RunMirrorsJob'
  BY <1>1, <1>3, <1>4, <1>5 DEF StoreInv, RunMirrorsJob, OneActiveJob, Active, TypeOK
<1>9. ResultsFenced'
  BY <1>1, <1>3, <1>4, <1>5 DEF StoreInv, ResultsFenced, Terminal, Active, TypeOK
<1>10. ClaimedAtMostOnce'
  BY <1>1, <1>3, <1>4 DEF StoreInv, ClaimedAtMostOnce
<1> QED
  BY <1>2, <1>6, <1>7, <1>8, <1>9, <1>10 DEF StoreInv

\* Steps that only move the clock or a lease keep the invariant.
LEMMA LeaseStepInv ==
    ASSUME StoreInv, Tick \/ \E j \in Job : ExtendLease(j)
    PROVE  StoreInv'
<1>1. leaseLeft' \in [Job -> 0..LeaseTicks]
  BY LeaseAssumption DEF StoreInv, TypeOK, Tick, ExtendLease
<1>2. UNCHANGED <<runStatus, runAuth, connection, triage, jobStatus, jobRun, jobError,
                  attempts, persisted>>
  BY DEF Tick, ExtendLease
<1> QED
  BY <1>1, <1>2 DEF StoreInv, TypeOK, JobRowsAgree, OneActiveJob, RunMirrorsJob,
                    ResultsFenced, ClaimedAtMostOnce, Active

\* reconcile_expired_running_jobs keeps the invariant: it fails exactly the runs of
\* the jobs it fails, and leaves those of other active jobs alone.
LEMMA ReconcileInv ==
    ASSUME StoreInv, ReconcileExpired
    PROVE  StoreInv'
<1> USE DEF ReconcileExpired
<1>0. /\ \A k \in Expired : k \in Job /\ jobStatus[k] = "running" /\ jobRun[k] \in Run
      /\ \A k \in Expired : runStatus[jobRun[k]] = "running" /\ k \notin persisted
  BY RunAssumption DEF Expired, StoreInv, TypeOK, JobRowsAgree, RunMirrorsJob, ResultsFenced, Terminal, Active
<1>1. TypeOK'
  BY DEF StoreInv, TypeOK, JobStatus, RunStatus, JobError
<1>2. \A k \in Job : jobStatus'[k] = (IF k \in Expired THEN "failed" ELSE jobStatus[k])
                  /\ jobError'[k] = (IF k \in Expired THEN "lease_expired" ELSE jobError[k])
  OBVIOUS
<1>3. \A q \in Run : runStatus'[q] = (IF \E k \in Expired : jobRun[k] = q
                                      THEN "failed" ELSE runStatus[q])
  OBVIOUS
<1>4. JobRowsAgree'
  BY <1>0, <1>2, <1>3 DEF StoreInv, JobRowsAgree, TypeOK
<1>5. OneActiveJob'
  BY <1>2 DEF StoreInv, OneActiveJob, Active
<1>6. RunMirrorsJob'
  <2>1. ASSUME NEW k \in Job, Active(k)' PROVE runStatus'[jobRun'[k]] = jobStatus'[k]
    <3>1. k \notin Expired /\ jobStatus'[k] = jobStatus[k] /\ Active(k)
      BY <1>2, <2>1 DEF Active
    <3>2. jobRun[k] \in Run /\ runStatus[jobRun[k]] = jobStatus[k]
      BY <3>1, RunAssumption DEF StoreInv, TypeOK, JobRowsAgree, RunMirrorsJob, Active
    <3>3. \A e \in Expired : jobRun[e] # jobRun[k]
      BY <1>0, <3>1 DEF StoreInv, OneActiveJob, Active
    <3> QED
      BY <1>3, <3>1, <3>2, <3>3
  <2>2. ASSUME NEW q \in Run, runStatus'[q] = "running"
        PROVE  \E k \in Job : jobRun'[k] = q /\ jobStatus'[k] = "running"
    BY <1>2, <1>3, <2>2 DEF StoreInv, RunMirrorsJob
  <2> QED
    BY <2>1, <2>2 DEF RunMirrorsJob
<1>7. ResultsFenced'
  BY <1>0, <1>2, <1>3 DEF StoreInv, ResultsFenced, Terminal, Active, TypeOK
<1>8. ClaimedAtMostOnce'
  BY <1>0, <1>2 DEF StoreInv, ClaimedAtMostOnce
<1> QED
  BY <1>1, <1>4, <1>5, <1>6, <1>7, <1>8 DEF StoreInv

\* The end of a running job, by whichever method: what every completion and
\* failure has in common.
LEMMA FinishInv ==
    ASSUME StoreInv, NEW j \in Job, jobStatus[j] = "running",
           NEW status \in Terminal, NEW error \in JobError, NEW run \in {"blocked", "completed", "failed"},
           Finish(j, status, error, run),
           status = "completed" => /\ run = "completed" /\ error = "none"
                                   /\ persisted' = persisted \cup {j},
           run = "completed" => status = "completed",
           \/ persisted' = persisted
           \/ persisted' = persisted \cup {j} /\ error \notin {"lease_expired", "runtime_failed"}
    PROVE  StoreInv'
<1> USE DEF Finish
<1> DEFINE r == jobRun[j]
<1>1. r \in Run /\ runStatus[r] = "running" /\ j \notin persisted /\ attempts[j] = 1
  BY RunAssumption DEF StoreInv, TypeOK, JobRowsAgree, RunMirrorsJob, Active, ResultsFenced,
                       Terminal, ClaimedAtMostOnce
<1>2. TypeOK'
  BY <1>1, LeaseAssumption DEF StoreInv, TypeOK, JobStatus, RunStatus, Terminal
<1>3. \A k \in Job : k # j => jobStatus'[k] = jobStatus[k] /\ jobError'[k] = jobError[k]
  BY DEF StoreInv, TypeOK
<1>4. jobStatus'[j] = status /\ jobError'[j] = error /\ runStatus'[r] = run
  BY <1>1 DEF StoreInv, TypeOK
<1>5. \A q \in Run : q # r => runStatus'[q] = runStatus[q]
  BY DEF StoreInv, TypeOK
<1>6. \A k \in Job : jobRun[k] = r /\ k # j => ~Active(k) /\ jobStatus[k] # "completed"
  BY <1>1 DEF StoreInv, OneActiveJob, JobRowsAgree, Active
<1>7. JobRowsAgree'
  BY <1>1, <1>3, <1>4, <1>5, <1>6 DEF StoreInv, JobRowsAgree, TypeOK, Terminal
<1>8. OneActiveJob'
  BY <1>3, <1>4 DEF StoreInv, OneActiveJob, Active, Terminal
<1>9. RunMirrorsJob'
  BY <1>1, <1>3, <1>4, <1>5, <1>6 DEF StoreInv, RunMirrorsJob, Active, TypeOK, Terminal
<1>10. ResultsFenced'
  <2>1. \A k \in persisted' : jobStatus'[k] \in Terminal
                              /\ jobError'[k] \notin {"lease_expired", "runtime_failed"}
    BY <1>1, <1>3, <1>4 DEF StoreInv, ResultsFenced, TypeOK
  <2>2. ASSUME NEW q \in Run, runStatus'[q] = "completed"
        PROVE  \E k \in persisted' :
                  /\ jobRun'[k] = q /\ jobStatus'[k] = "completed"
                  /\ \A i \in Job : jobRun'[i] = q /\ jobStatus'[i] = "completed" => i = k
    <3>1. CASE q = r
      <4>1. status = "completed" /\ j \in persisted'
        BY <1>4, <2>2, <3>1
      <4> QED
        BY <1>3, <1>4, <1>6, <3>1, <4>1
    <3>2. CASE q # r
      <4>1. PICK k \in persisted : /\ jobRun[k] = q /\ jobStatus[k] = "completed"
                                   /\ \A i \in Job : jobRun[i] = q /\ jobStatus[i] = "completed" => i = k
        BY <1>5, <2>2, <3>2 DEF StoreInv, ResultsFenced
      <4> QED
        BY <1>3, <3>2, <4>1 DEF StoreInv, TypeOK
    <3> QED
      BY <3>1, <3>2
  <2> QED
    BY <2>1, <2>2 DEF ResultsFenced
<1>11. ClaimedAtMostOnce'
  BY <1>1, <1>3, <1>4 DEF StoreInv, ClaimedAtMostOnce, Terminal
<1> QED
  BY <1>2, <1>7, <1>8, <1>9, <1>10, <1>11 DEF StoreInv

\* Every job method keeps the invariant.
LEMMA JobStepInv == StoreInv /\ JobStep => StoreInv'
<1> SUFFICES ASSUME StoreInv, JobStep PROVE StoreInv'
  OBVIOUS
<1>1. ASSUME NEW j \in Job, MarkFailed(j) PROVE StoreInv'
  BY <1>1, FinishInv DEF MarkFailed, Terminal, JobError
<1>2. ASSUME NEW j \in Job, CompleteCts(j) PROVE StoreInv'
  BY <1>2, FinishInv DEF CompleteCts, Terminal, JobError
<1>3. ASSUME NEW j \in Job, NEW lane \in LaneStatus, CompleteLiepin(j, lane) PROVE StoreInv'
  <2>1. /\ JobStatusOf(lane) \in Terminal /\ JobErrorOf(lane) \in JobError
        /\ RunStatusOf(lane) \in {"blocked", "completed", "failed"}
        /\ JobStatusOf(lane) = "completed" <=> RunStatusOf(lane) = "completed"
        /\ JobStatusOf(lane) = "completed" => JobErrorOf(lane) = "none"
        /\ JobErrorOf(lane) \notin {"lease_expired", "runtime_failed"}
    BY DEF JobStatusOf, JobErrorOf, RunStatusOf, LaneStatus, Terminal, JobError
  <2> QED
    BY <1>3, <2>1, FinishInv DEF CompleteLiepin
<1> QED
  BY <1>1, <1>2, <1>3, StartJobInv, ClaimInv, LeaseStepInv, ReconcileInv DEF JobStep

\* Every step of the store keeps the invariant.
LEMMA NextInv == StoreInv /\ [Next]_storeVars => StoreInv'
<1>1. StoreInv /\ UNCHANGED storeVars => StoreInv'
  BY DEF StoreInv, TypeOK, JobRowsAgree, OneActiveJob, RunMirrorsJob, ResultsFenced,
         ClaimedAtMostOnce, Active, storeVars, jobVars
<1> QED
  BY <1>1, SessionStepInv, ConnectionStepInv, JobStepInv, LeaseStepInv DEF Next

-----------------------------------------------------------------------------
(* Theorems.                                                               *)

\* The store's safety properties hold in every reachable state, for any number
\* of sessions, source runs and jobs and any lease length.
THEOREM StoreInvariant == Spec => []StoreInv
BY InitInv, NextInv, PTL DEF Spec

\* Every variable of the store keeps its type.
THEOREM StoreTypeOK == Spec => []TypeOK
BY StoreInvariant, PTL DEF StoreInv

\* No interleaving of start requests, claims and completions gives a run two
\* active jobs.
THEOREM AtMostOneActiveJob == Spec => []OneActiveJob
BY StoreInvariant, PTL DEF StoreInv

\* source_runs and source_run_jobs never disagree about a live job.
THEOREM RunAndJobAgree == Spec => []RunMirrorsJob
BY StoreInvariant, PTL DEF StoreInv

\* A worker that lost its lease publishes nothing.
THEOREM LateResultsAreDropped == Spec => []ResultsFenced
BY StoreInvariant, PTL DEF StoreInv

\* No job is ever handed to two workers.
THEOREM NoJobIsClaimedTwice == Spec => []ClaimedAtMostOnce
BY StoreInvariant, PTL DEF StoreInv

-----------------------------------------------------------------------------
(* The end of a run.                                                       *)

\* The run of an active job is neither absent nor terminal.
LEMMA RunOfActiveJob ==
    ASSUME StoreInv, NEW j \in Job, Active(j)
    PROVE  /\ jobRun[j] \in Run
           /\ runStatus[jobRun[j]] = jobStatus[j]
           /\ jobStatus[j] \notin Terminal
BY RunAssumption DEF StoreInv, TypeOK, JobRowsAgree, RunMirrorsJob, Active, Terminal

\* In a state of the invariant no method moves a run out of a terminal status:
\* starts refuse it, and every other method acts on a run that is not terminal.
LEMMA TerminalRunsStay ==
    ASSUME StoreInv, Next, NEW r \in Run, runStatus[r] \in Terminal
    PROVE  runStatus'[r] = runStatus[r]
<1>1. CASE SessionStep
  BY <1>1 DEF SessionStep, CreateSession, UpdateTriage, ApproveTriage, RunsOf, Terminal, StoreInv, TypeOK
<1>2. CASE ConnectionStep
  BY <1>2 DEF ConnectionStep, CreateConnection, StartLogin, MarkConnected, MarkConnectedWithoutRuns,
              MarkConnectedForRun, MarkLoginRequired, BlockForProbe, ProbeMayTouch, Unblock,
              Terminal, StoreInv, TypeOK
<1>3. CASE \E q \in Run, j \in Job : StartJob(q, j)
  BY <1>3 DEF StartJob, InsertJob, Startable, Terminal, StoreInv, TypeOK
<1>4. ASSUME NEW j \in Job, jobStatus[j] \in {"queued", "running"},
             \A q \in Run : q # jobRun[j] => runStatus'[q] = runStatus[q]
      PROVE  runStatus'[r] = runStatus[r]
  BY <1>4, RunOfActiveJob DEF Active
<1>5. ASSUME NEW j \in Job, Claim(j) \/ ExtendLease(j) \/ MarkFailed(j) \/ CompleteCts(j)
      PROVE  runStatus'[r] = runStatus[r]
  BY <1>4, <1>5 DEF Claim, ExtendLease, MarkFailed, CompleteCts, Finish, StoreInv, TypeOK
<1>6. ASSUME NEW j \in Job, NEW lane \in LaneStatus, CompleteLiepin(j, lane)
      PROVE  runStatus'[r] = runStatus[r]
  BY <1>4, <1>6 DEF CompleteLiepin, Finish, StoreInv, TypeOK
<1>7. CASE ReconcileExpired
  BY <1>7, RunOfActiveJob DEF ReconcileExpired, Expired, Active, StoreInv, TypeOK
<1>8. CASE Tick
  BY <1>8 DEF Tick
<1> QED
  BY <1>1, <1>2, <1>3, <1>5, <1>6, <1>7, <1>8 DEF Next, JobStep

\* No start, probe, login or late worker changes how a run ended.
THEOREM EndedRunsStayEnded == Spec => RunEndsOnce
<1>1. StoreInv /\ [Next]_storeVars
      => [\A r \in Run : runStatus[r] \in Terminal => runStatus'[r] = runStatus[r]]_storeVars
  BY TerminalRunsStay
<1> QED
  BY <1>1, StoreInvariant, PTL DEF Spec, RunEndsOnce

-----------------------------------------------------------------------------
(* SourceRuns implements SourceRunContract: every step of the tables, under *)
(* the invariant StoreInv, is a step of the contract or changes nothing of  *)
(* it.                                                                      *)


\* What the job of a run says of its phase.
LEMMA PhaseOfJob ==
    ASSUME StoreInv, NEW j \in Job
    PROVE  /\ jobStatus[j] = "queued" => PhaseOf(jobRun[j]) = "waiting"
           /\ jobStatus[j] = "running" => PhaseOf(jobRun[j]) = "working"
           /\ jobStatus[j] \in {"queued", "running"} => jobRun[j] \in Run
<1>1. ASSUME jobStatus[j] \in {"queued", "running"}
      PROVE  /\ jobRun[j] \in Run /\ runStatus[jobRun[j]] \notin Terminal
             /\ \A k \in Job : Active(k) /\ jobRun[k] = jobRun[j] => k = j
  BY <1>1, RunOfActiveJob DEF Active, StoreInv, OneActiveJob
<1> QED
  BY <1>1 DEF PhaseOf, Active

\* Steps that leave the jobs alone and end no run are stutters of the contract.
LEMMA QuietStep ==
    ASSUME StoreInv, UNCHANGED <<jobStatus, jobRun, persisted>>,
           \A r \in Run : runStatus'[r] \in Terminal <=> runStatus[r] \in Terminal
    PROVE  UNCHANGED <<[r \in Run |-> PhaseOf(r)], [r \in Run |-> PublishedOf(r)]>>
<1>1. \A r \in Run : PhaseOf(r)' = PhaseOf(r) /\ PublishedOf(r)' = PublishedOf(r)
  BY DEF PhaseOf, PublishedOf
<1> QED
  BY <1>1

\* The insert of a job is the contract's Enqueue when the run had no active job.
LEMMA StartJobEnqueues ==
    ASSUME StoreInv, NEW r \in Run, NEW j \in Job, StartJob(r, j)
    PROVE  Contract!Enqueue(r)
<1>1. /\ runStatus[r] \notin Terminal /\ ~HasActiveJob(r) /\ jobStatus[j] = "absent"
      /\ jobRun[j] \notin Run /\ j \notin persisted
  BY RunAssumption DEF StartJob, InsertJob, Startable, Terminal, StoreInv, JobRowsAgree, ResultsFenced
<1>2. /\ jobStatus'[j] = "queued" /\ jobRun'[j] = r /\ runStatus'[r] = "queued"
      /\ \A k \in Job \ {j} : jobStatus'[k] = jobStatus[k] /\ jobRun'[k] = jobRun[k]
      /\ \A q \in Run \ {r} : runStatus'[q] = runStatus[q]
      /\ persisted' = persisted
  BY DEF StartJob, InsertJob, StoreInv, TypeOK
<1>3. PhaseOf(r) = "idle" /\ PhaseOf(r)' = "waiting"
  BY <1>1, <1>2 DEF PhaseOf, HasActiveJob, Active, Terminal
<1>4. \A q \in Run \ {r} : PhaseOf(q)' = PhaseOf(q)
  BY <1>1, <1>2 DEF PhaseOf
<1>5. persisted \subseteq Job
  BY DEF StoreInv, TypeOK
<1>6. \A q \in Run : PublishedOf(q)' = PublishedOf(q)
  BY <1>1, <1>2, <1>5 DEF PublishedOf
<1> QED
  BY <1>3, <1>4, <1>6 DEF Contract!Enqueue

\* A claim is the Begin of the run of the claimed job.
LEMMA ClaimBegins ==
    ASSUME StoreInv, NEW j \in Job, Claim(j), NEW r \in Run, jobRun[j] = r
    PROVE  Contract!Begin(r)
<1>1. PhaseOf(r) = "waiting" /\ j \notin persisted
  BY PhaseOfJob DEF Claim, StoreInv, ResultsFenced, Terminal
<1>2. /\ jobStatus'[j] = "running" /\ runStatus'[r] = "running"
      /\ \A k \in Job \ {j} : jobStatus'[k] = jobStatus[k]
      /\ \A q \in Run \ {r} : runStatus'[q] = runStatus[q]
      /\ persisted' = persisted /\ jobRun' = jobRun
  BY <1>1 DEF Claim, StoreInv, TypeOK
<1>3. PhaseOf(r)' = "working"
  BY <1>2 DEF PhaseOf, Terminal
<1>4. \A q \in Run \ {r} : PhaseOf(q)' = PhaseOf(q)
  BY <1>1, <1>2 DEF PhaseOf
<1>5. \A q \in Run : PublishedOf(q)' = PublishedOf(q)
  BY <1>1, <1>2 DEF PublishedOf, StoreInv, TypeOK
<1> QED
  BY <1>1, <1>3, <1>4, <1>5 DEF Contract!Begin

\* A worker's job ends: what the contract's variables become.
LEMMA FinishPhases ==
    ASSUME StoreInv, NEW j \in Job, NEW r \in Run, jobRun[j] = r, jobStatus[j] = "running",
           NEW status \in Terminal, NEW error, NEW run \in {"blocked", "completed", "failed"},
           Finish(j, status, error, run), persisted' \in {persisted, persisted \cup {j}}
    PROVE  /\ PhaseOf(r) = "working"
           /\ PhaseOf(r)' = IF run = "blocked" THEN "idle" ELSE "done"
           /\ PublishedOf(r)' = IF j \notin persisted' THEN PublishedOf(r)
                                        ELSE IF status = "completed" THEN "final" ELSE "provisional"
           /\ \A q \in Run \ {r} : PhaseOf(q)' = PhaseOf(q) /\ PublishedOf(q)' = PublishedOf(q)
<1>1. PhaseOf(r) = "working" /\ runStatus[r] = "running" /\ j \notin persisted
  <2>1. Active(j)
    BY DEF Active
  <2>2. j \notin persisted
    BY DEF StoreInv, ResultsFenced, Terminal
  <2> QED
    BY <2>1, <2>2, PhaseOfJob, RunOfActiveJob
<1>2. /\ jobStatus'[j] = status /\ runStatus'[r] = run
      /\ \A k \in Job \ {j} : jobStatus'[k] = jobStatus[k]
      /\ \A q \in Run \ {r} : runStatus'[q] = runStatus[q]
      /\ jobRun' = jobRun
  BY <1>1 DEF Finish, StoreInv, TypeOK
<1>3. \A k \in Job : k # j /\ jobRun[k] = r => jobStatus[k] \notin {"queued", "running", "completed"}
  BY <1>1 DEF StoreInv, OneActiveJob, Active, JobRowsAgree
<1>4. PhaseOf(r)' = IF run = "blocked" THEN "idle" ELSE "done"
  <2>1. \A k \in Job : jobRun[k] = r => jobStatus'[k] \notin {"queued", "running"}
    BY <1>2, <1>3 DEF Terminal
  <2> QED
    BY <1>2, <2>1 DEF PhaseOf, Terminal
<1>5. \A q \in Run \ {r} : PhaseOf(q)' = PhaseOf(q) /\ PublishedOf(q)' = PublishedOf(q)
  BY <1>1, <1>2 DEF PhaseOf, PublishedOf, StoreInv, TypeOK
<1>6. persisted \subseteq Job /\ persisted' \subseteq Job
  BY DEF StoreInv, TypeOK
<1>7. CASE j \notin persisted'
  <2>1. persisted' = persisted
    BY <1>7
  <2> QED
    BY <1>1, <1>2, <1>4, <1>5, <1>6, <1>7, <2>1 DEF PublishedOf
<1>8. CASE j \in persisted'
  <2>1. ~\E k \in persisted' : k # j /\ jobRun[k] = r /\ jobStatus'[k] = "completed"
    BY <1>2, <1>3, <1>6
  <2>2. PublishedOf(r)' = IF status = "completed" THEN "final" ELSE "provisional"
    BY <1>2, <1>8, <2>1 DEF PublishedOf
  <2> QED
    BY <1>1, <1>4, <1>5, <1>8, <2>2
<1> QED
  BY <1>7, <1>8

\* mark_source_run_failed gives up the run of one job.
LEMMA MarkFailedGivesUp ==
    ASSUME StoreInv, NEW j \in Job, NEW r \in Run, jobRun[j] = r, MarkFailed(j)
    PROVE  \E R \in SUBSET Run : Contract!GiveUp(R)
<1>1. j \notin persisted /\ persisted' = persisted
  BY DEF MarkFailed, StoreInv, ResultsFenced, Terminal
<1>2. /\ PhaseOf(r) = "working" /\ PhaseOf(r)' = "done"
      /\ PublishedOf(r)' = PublishedOf(r)
      /\ \A q \in Run \ {r} : PhaseOf(q)' = PhaseOf(q) /\ PublishedOf(q)' = PublishedOf(q)
  BY <1>1, FinishPhases DEF MarkFailed, Terminal
<1>3. Contract!GiveUp({r})
  BY <1>2 DEF Contract!GiveUp
<1> QED
  BY <1>2, <1>3

\* The completion of a job publishes its run for good, sets it aside (a blocked
\* lane) or fails it with what it found.
LEMMA CompletionDelivers ==
    ASSUME StoreInv, NEW j \in Job, NEW r \in Run, jobRun[j] = r, jobStatus[j] = "running",
           NEW lane \in LaneStatus,
           Finish(j, JobStatusOf(lane), JobErrorOf(lane), RunStatusOf(lane)),
           persisted' = persisted \cup {j}
    PROVE  \/ Contract!Deliver(r)
           \/ Contract!SetAside(r)
           \/ Contract!FailWithResults(r)
<1>1. /\ JobStatusOf(lane) \in Terminal /\ RunStatusOf(lane) \in {"blocked", "completed", "failed"}
      /\ RunStatusOf(lane) = "blocked" => JobStatusOf(lane) = "failed"
  BY DEF JobStatusOf, RunStatusOf, Terminal
<1>2. /\ PhaseOf(r) = "working"
      /\ PhaseOf(r)' = IF RunStatusOf(lane) = "blocked" THEN "idle" ELSE "done"
      /\ PublishedOf(r)' = IF JobStatusOf(lane) = "completed" THEN "final" ELSE "provisional"
      /\ \A q \in Run \ {r} : PhaseOf(q)' = PhaseOf(q) /\ PublishedOf(q)' = PublishedOf(q)
  <2>1. persisted' \in {persisted, persisted \cup {j}} /\ j \in persisted'
    OBVIOUS
  <2> QED
    BY <1>1, <2>1, FinishPhases
<1>3. CASE RunStatusOf(lane) = "blocked"
  <2>1. Contract!SetAside(r)
    BY <1>1, <1>2, <1>3 DEF Contract!SetAside
  <2> QED
    BY <1>2, <2>1
<1>4. CASE RunStatusOf(lane) # "blocked" /\ JobStatusOf(lane) = "completed"
  <2>1. Contract!Deliver(r)
    BY <1>2, <1>4 DEF Contract!Deliver
  <2> QED
    BY <1>2, <2>1
<1>5. CASE RunStatusOf(lane) # "blocked" /\ JobStatusOf(lane) # "completed"
  <2>1. Contract!FailWithResults(r)
    BY <1>2, <1>5 DEF Contract!FailWithResults
  <2> QED
    BY <1>2, <2>1
<1> QED
  BY <1>3, <1>4, <1>5

\* reconcile_expired_running_jobs gives up the runs of all expired jobs at once.
LEMMA ReconcileGivesUp ==
    ASSUME StoreInv, ReconcileExpired
    PROVE  \E R \in SUBSET Run : Contract!GiveUp(R)
<1> DEFINE R == {jobRun[j] : j \in Expired}
<1>1. \A j \in Expired : j \in Job /\ jobRun[j] \in Run /\ PhaseOf(jobRun[j]) = "working"
  BY PhaseOfJob DEF Expired
<1>2. R \in SUBSET Run /\ R # {} /\ \A r \in R : PhaseOf(r) = "working"
  BY <1>1 DEF ReconcileExpired
<1>3. \A r \in Run : runStatus'[r] = IF r \in R THEN "failed" ELSE runStatus[r]
  BY DEF ReconcileExpired
<1>4. /\ \A j \in Job : jobStatus'[j] = IF j \in Expired THEN "failed" ELSE jobStatus[j]
      /\ jobRun' = jobRun /\ persisted' = persisted
  BY DEF ReconcileExpired
<1>5. \A r \in R : PhaseOf(r)' = "done"
  BY <1>2, <1>3 DEF PhaseOf, Terminal
<1>6. \A r \in Run \ R : PhaseOf(r)' = PhaseOf(r)
  BY <1>3, <1>4 DEF PhaseOf
<1>7. \A r \in Run : PublishedOf(r)' = PublishedOf(r)
  <2>1. \A j \in persisted : jobStatus'[j] = jobStatus[j]
    BY <1>4 DEF Expired, StoreInv, TypeOK, ResultsFenced, Terminal
  <2> QED
    BY <1>4, <2>1 DEF PublishedOf
<1>8. Contract!GiveUp(R)
  BY <1>2, <1>5, <1>6, <1>7 DEF Contract!GiveUp
<1> QED
  BY <1>2, <1>8

\* Session, connection and lease steps neither end a run nor touch its jobs.
LEMMA OtherStepsAreQuiet ==
    ASSUME StoreInv, Next,
           \/ SessionStep \/ ConnectionStep \/ Tick
           \/ \E j \in Job : ExtendLease(j)
    PROVE  UNCHANGED <<[r \in Run |-> PhaseOf(r)], [r \in Run |-> PublishedOf(r)]>>
<1>1. UNCHANGED <<jobStatus, jobRun, persisted>>
  BY DEF SessionStep, CreateSession, UpdateTriage, ApproveTriage,
         ConnectionStep, CreateConnection, StartLogin, MarkConnected, MarkConnectedWithoutRuns,
         MarkConnectedForRun, MarkLoginRequired, BlockForProbe, Tick, ExtendLease, jobVars
<1>2. \A r \in Run : runStatus'[r] # runStatus[r] => runStatus'[r] \notin Terminal
  <2>1. CASE SessionStep
    BY <2>1 DEF SessionStep, CreateSession, UpdateTriage, ApproveTriage, Terminal, StoreInv, TypeOK
  <2>2. CASE ConnectionStep
    BY <2>2 DEF ConnectionStep, CreateConnection, StartLogin, MarkConnected, MarkConnectedWithoutRuns,
                MarkConnectedForRun, MarkLoginRequired, BlockForProbe, Unblock, Terminal, StoreInv, TypeOK
  <2> QED
    BY <2>1, <2>2 DEF Tick, ExtendLease
<1> QED
  BY <1>1, <1>2, TerminalRunsStay, QuietStep

\* Every step of the store is a step of the contract, or changes nothing it speaks of.
LEMMA NextImplementsContract ==
    ASSUME StoreInv, [Next]_storeVars
    PROVE  [Contract!Next]_(Contract!contractVars)
<1>1. ASSUME UNCHANGED storeVars
      PROVE  UNCHANGED <<[r \in Run |-> PhaseOf(r)], [r \in Run |-> PublishedOf(r)]>>
  BY <1>1, QuietStep DEF storeVars, jobVars
<1>2. ASSUME NEW j \in Job, Claim(j) \/ MarkFailed(j) \/ CompleteCts(j)
                              \/ \E lane \in LaneStatus : CompleteLiepin(j, lane)
      PROVE  Contract!Next
  <2>1. Active(j) /\ jobRun[j] \in Run
    BY <1>2, RunOfActiveJob DEF Claim, MarkFailed, CompleteCts, CompleteLiepin, Active
  <2>2. CASE Claim(j)
    BY <2>1, <2>2, ClaimBegins DEF Contract!Next
  <2>3. CASE MarkFailed(j)
    BY <2>1, <2>3, MarkFailedGivesUp DEF Contract!Next
  <2>4. CASE CompleteCts(j)
    <3>1. /\ JobStatusOf("completed") = "completed" /\ JobErrorOf("completed") = "none"
          /\ RunStatusOf("completed") = "completed" /\ "completed" \in LaneStatus
      BY DEF JobStatusOf, JobErrorOf, RunStatusOf, LaneStatus
    <3> QED
      BY <2>1, <2>4, <3>1, CompletionDelivers DEF CompleteCts, Contract!Next
  <2>5. ASSUME NEW lane \in LaneStatus, CompleteLiepin(j, lane)
        PROVE  Contract!Next
    BY <2>1, <2>5, CompletionDelivers DEF CompleteLiepin, Contract!Next
  <2> QED
    BY <1>2, <2>2, <2>3, <2>4, <2>5
<1>3. ASSUME NEW r \in Run, NEW j \in Job, StartJob(r, j) PROVE Contract!Next
  BY <1>3, StartJobEnqueues DEF Contract!Next
<1>4. ASSUME ReconcileExpired PROVE Contract!Next
  BY <1>4, ReconcileGivesUp DEF Contract!Next
<1> QED
  BY <1>1, <1>2, <1>3, <1>4, OtherStepsAreQuiet DEF Next, JobStep, Contract!contractVars

\* The tables start where the contract starts.
LEMMA InitImplementsContract == Init => Contract!Init
BY DEF Init, Contract!Init, PhaseOf, PublishedOf, Terminal

\* The store keeps the contract of a source run (SourceRunContract): one attempt
\* at a time, results only out of an attempt in progress, and one end.
THEOREM StoreKeepsContract == Spec => ContractKept
<1>1. StoreInv /\ [Next]_storeVars => [Contract!Next]_(Contract!contractVars)
  BY NextImplementsContract
<1> QED
  BY <1>1, InitImplementsContract, StoreInvariant, PTL DEF Spec, ContractKept, Contract!Spec
=============================================================================
