----------------------------- MODULE JobRunner -----------------------------
(***************************************************************************)
(* The process that runs source runs (job_runner.py, server.py): worker    *)
(* threads that claim jobs until none is queued and then end, a heartbeat  *)
(* thread per job, start requests that go through the runs of a session,   *)
(* probe the browser, queue jobs and wake the workers at the end, page     *)
(* reads that reconcile expired leases, failures of threads, requests and  *)
(* the process, and restarts.  It drives the store of SourceRuns and is shown *)
(* to implement it.                                                        *)
(***************************************************************************)
EXTENDS SourceRuns

CONSTANTS CtsThread,          \* thread ids for workers of the cts lane
          LiepinThread,       \* thread ids for workers of the liepin lane
          CtsWorkerCount,     \* CTS_WORKER_COUNT
          LiepinWorkerCount,  \* LIEPIN_WORKER_COUNT
          Request,            \* start requests that may be under way at once
          NoJob,              \* what a thread without a job works on
          MaxFaults           \* how many database errors and crashes may happen

Thread == CtsThread \cup LiepinThread

ASSUME ThreadAssumption ==
    /\ CtsThread \cap LiepinThread = {}
    /\ IsFiniteSet(CtsThread) /\ IsFiniteSet(LiepinThread)
    /\ NoJob \notin Job
    /\ CtsWorkerCount \in Nat /\ LiepinWorkerCount \in Nat
    /\ MaxFaults \in Nat

VARIABLES up,       \* is the server process running
          pc,       \* where each worker thread is
          working,  \* the job each worker thread executes
          beating,  \* threads whose job has a live heartbeat thread
          request,  \* what each start request is doing
          faults    \* database errors and crashes so far

runnerVars == <<up, pc, working, beating, request, faults>>
vars == <<storeVars, runnerVars>>

ThreadState == {"dead", "claiming", "starting", "searching", "failing", "idle"}

\* A start request: its step, the runs of its snapshot it has not dealt with,
\* those of them the snapshot did not show as running, and should_wake_runner.
RequestState == [step : {"none", "next", "probing", "blocking", "starting", "queueing"},
                 todo : SUBSET Run, idle : SUBSET Run, wake : BOOLEAN]
NoRequest == [step |-> "none", todo |-> {}, idle |-> {}, wake |-> FALSE]

RunnerTypeOK ==
    /\ up \in BOOLEAN
    /\ pc \in [Thread -> ThreadState]
    /\ working \in [Thread -> Job \cup {NoJob}]
    /\ beating \subseteq Thread
    /\ request \in [Request -> RequestState]
    /\ faults \in 0..MaxFaults

RunnerInit ==
    /\ Init
    /\ up = TRUE
    /\ pc = [t \in Thread |-> "dead"]
    /\ working = [t \in Thread |-> NoJob]
    /\ beating = {}
    /\ request = [q \in Request |-> NoRequest]
    /\ faults = 0

LaneOf(t) == IF t \in CtsThread THEN CtsRun ELSE LiepinRun
Executing(t) == pc[t] \in {"starting", "searching", "failing"}

\* A completion method of the store: nothing happens if job j is not running any more.
IfRunning(j, Method) == \/ jobStatus[j] = "running" /\ Method
                        \/ jobStatus[j] # "running" /\ UNCHANGED storeVars

-----------------------------------------------------------------------------
(* Worker threads: _run_until_idle and _execute.                           *)

\* Wrong variant: heartbeats are registered under the job.
TakeJobByJob(t) ==
    /\ pc[t] = "claiming"
    /\ \E j \in Job : /\ jobRun[j] \in LaneOf(t)
                      /\ Claim(j)
                      /\ working' = [working EXCEPT ![t] = j]
                      /\ beating' = beating \cup {j}
    /\ pc' = [pc EXCEPT ![t] = "starting"]
    /\ UNCHANGED <<up, request, faults>>

\* claim_next_source_run_job found a job: its heartbeat starts with it.
TakeJob(t) ==
    /\ pc[t] = "claiming"
    /\ \E j \in Job : /\ jobRun[j] \in LaneOf(t)
                      /\ Claim(j)
                      /\ working' = [working EXCEPT ![t] = j]
    /\ pc' = [pc EXCEPT ![t] = "starting"]
    /\ beating' = beating \cup {t}
    /\ UNCHANGED <<up, request, faults>>

\* It found none: the thread is about to return, but is_alive() still holds.
FindNoJob(t) ==
    /\ pc[t] = "claiming"
    /\ \A j \in Job : ~(jobStatus[j] = "queued" /\ jobRun[j] \in LaneOf(t))
    /\ pc' = [pc EXCEPT ![t] = "idle"]
    /\ UNCHANGED <<storeVars, up, working, beating, request, faults>>

Return(t) ==
    /\ pc[t] = "idle"
    /\ pc' = [pc EXCEPT ![t] = "dead"]
    /\ UNCHANGED <<storeVars, up, working, beating, request, faults>>

\* run_liepin_card_source_run reads the connection again before it searches.
StartSearch(t) ==
    /\ pc[t] = "starting"
    /\ pc' = [pc EXCEPT ![t] = IF t \in LiepinThread /\ connection # "connected"
                               THEN "failing" ELSE "searching"]
    /\ UNCHANGED <<storeVars, up, working, beating, request, faults>>

\* Any exception of the runtime, the browser or a store method.
Throw(t) ==
    /\ pc[t] \in {"starting", "searching"}
    /\ pc' = [pc EXCEPT ![t] = "failing"]
    /\ UNCHANGED <<storeVars, up, working, beating, request, faults>>

\* The finally clause of _execute, and back to the claim loop.
NextJob(t) ==
    /\ beating' = beating \ {t}
    /\ working' = [working EXCEPT ![t] = NoJob]
    /\ pc' = [pc EXCEPT ![t] = "claiming"]
    /\ UNCHANGED <<up, request, faults>>

\* The search is over: its results are handed to the store.
DeliverResults(t) ==
    /\ pc[t] = "searching"
    /\ \/ t \in CtsThread /\ IfRunning(working[t], CompleteCts(working[t]))
       \/ /\ t \in LiepinThread
          /\ \E lane \in LaneStatus : IfRunning(working[t], CompleteLiepin(working[t], lane))
    /\ NextJob(t)

\* The except clause of _execute.
ReportFailure(t) ==
    /\ pc[t] = "failing"
    /\ IfRunning(working[t], MarkFailed(working[t]))
    /\ NextJob(t)

\* _lease_heartbeat_loop: the thread ends at the first lease it cannot renew.
Heartbeat(t) ==
    /\ t \in beating
    /\ \/ ExtendLease(working[t]) /\ UNCHANGED beating
       \/ /\ jobStatus[working[t]] # "running"
          /\ beating' = beating \ {t}
          /\ UNCHANGED storeVars
    /\ UNCHANGED <<up, pc, working, request, faults>>

-----------------------------------------------------------------------------
(* Requests: start_session_source_runs, its browser probe, wake, page reads. *)

\* get_workbench_session, list_workbench_sessions: every page read reconciles.
ReadSession ==
    /\ up
    /\ ReconcileExpired
    /\ UNCHANGED runnerVars

\* The request reads the session and goes through the runs that have not ended.
BeginStart(q, s) ==
    /\ up
    /\ request[q].step = "none"
    /\ SessionExists(s) /\ triage[s] = "approved"
    /\ Reconcile
    /\ LET todo == {r \in RunsOf(s) : runStatus'[r] \notin Terminal} IN
       request' = [request EXCEPT ![q] =
           [step |-> "next", todo |-> todo, wake |-> FALSE,
            idle |-> {r \in todo : runStatus'[r] # "running"}]]
    /\ UNCHANGED <<up, pc, working, beating, faults>>

\* The run request q is at if it is in this step: the rows come with the CTS run
\* first, and a session has at most one run of a kind.
At(q, step) ==
    {r \in request[q].todo : /\ request[q].step = step
                             /\ r \in CtsRun \/ request[q].todo \cap CtsRun = {}}

\* The request goes on with its run...
GoOn(q, step) ==
    /\ request' = [request EXCEPT ![q].step = step]
    /\ UNCHANGED <<up, pc, working, beating, faults>>

\* ...or is done with it; only a job, old or new, makes it wake the workers.
DoneWith(q, r, job) ==
    /\ request' = [request EXCEPT ![q].step = "next", ![q].todo = @ \ {r}, ![q].wake = @ \/ job]
    /\ UNCHANGED <<up, pc, working, beating, faults>>

\* A Liepin run is probed first, unless the snapshot shows it running or it has a
\* job by now (has_active_source_run_job reconciles, and so does the start).
ConsiderRun(q) ==
    \E r \in At(q, "next") :
        LET mayProbe == r \in LiepinRun /\ r \in request[q].idle IN
        /\ Reconcile
        /\ \/ mayProbe /\ ~HasActiveJob(r)' /\ GoOn(q, "probing")
           \/ (mayProbe => HasActiveJob(r)') /\ GoOn(q, "queueing")

\* _ensure_liepin_browser_session_ready_for_start: awaits of any length, then the
\* connection is marked.  A run the probe may not touch any more counts as ready.
Probe(q) ==
    \E r \in At(q, "probing") :
        \/ CreateConnection /\ GoOn(q, "probing")
        \/ MarkConnectedForRun(r) /\ GoOn(q, "starting")
        \/ MarkLoginRequired(r) /\ GoOn(q, "blocking")
        \/ /\ connection # "absent" /\ ~ProbeMayTouch(r)
           /\ UNCHANGED storeVars
           /\ GoOn(q, "starting")

\* The probe failed: the run is blocked if nobody has started it meanwhile.
BlockRun(q) ==
    \E r \in At(q, "blocking") :
        /\ BlockForProbe(r) \/ (~ProbeMayTouch(r) /\ UNCHANGED storeVars)
        /\ DoneWith(q, r, FALSE)

\* start_source_run_job reconciles in a transaction of its own...
BeginJob(q) == At(q, "starting") # {} /\ Reconcile /\ GoOn(q, "queueing")

\* ...then inserts the job or answers with the active one, or it refuses.
QueueJob(q) ==
    \E r \in At(q, "queueing") :
        \/ (\E j \in Job : StartJob(r, j)) /\ DoneWith(q, r, TRUE)
        \/ Startable(r) /\ HasActiveJob(r) /\ UNCHANGED storeVars /\ DoneWith(q, r, TRUE)
        \/ ~Startable(r) /\ UNCHANGED storeVars /\ DoneWith(q, r, FALSE)

Alive(T) == {t \in T : pc[t] # "dead"}

\* Wrong variant: only threads that look for a job count.
LaneFilledIfBusy(T, count, new) ==
    LET ready == {t \in T : pc[t] = "claiming"} IN
    /\ new \subseteq T \ Alive(T)
    /\ Cardinality(new) = (IF Cardinality(ready) < count THEN count - Cardinality(ready) ELSE 0)

\* _start_lane_workers: threads that are alive count, busy or not.
LaneFilled(T, count, new) ==
    /\ new \subseteq T \ Alive(T)
    /\ Cardinality(new) = (IF Cardinality(Alive(T)) < count
                           THEN count - Cardinality(Alive(T)) ELSE 0)

Finished(q) == request[q].step = "next" /\ request[q].todo = {}
Waking(q) == Finished(q) /\ request[q].wake

\* Wrong variant: the Liepin lane is forgotten.
WakeCtsOnly(q) ==
    /\ Waking(q)
    /\ request' = [request EXCEPT ![q] = NoRequest]
    /\ \E new \in SUBSET CtsThread :
          /\ LaneFilled(CtsThread, CtsWorkerCount, new)
          /\ pc' = [t \in Thread |-> IF t \in new THEN "claiming" ELSE pc[t]]
    /\ UNCHANGED <<storeVars, up, working, beating, faults>>

Wake(q) ==
    /\ Waking(q)
    /\ request' = [request EXCEPT ![q] = NoRequest]
    /\ \E new \in SUBSET Thread :
          /\ LaneFilled(CtsThread, CtsWorkerCount, new \cap CtsThread)
          /\ LaneFilled(LiepinThread, LiepinWorkerCount, new \cap LiepinThread)
          /\ pc' = [t \in Thread |-> IF t \in new THEN "claiming" ELSE pc[t]]
    /\ UNCHANGED <<storeVars, up, working, beating, faults>>

\* Nothing was queued: the request ends without waking anybody.
EndStart(q) ==
    /\ Finished(q) /\ ~request[q].wake
    /\ request' = [request EXCEPT ![q] = NoRequest]
    /\ UNCHANGED <<storeVars, up, pc, working, beating, faults>>

\* Everything else the recruiter does to sessions, triage and the connection.
Recruit ==
    /\ up
    /\ SessionStep \/ CreateConnection \/ StartLogin \/ MarkConnectedWithoutRuns
    /\ UNCHANGED runnerVars

-----------------------------------------------------------------------------
(* Failures.                                                               *)

Fault == faults < MaxFaults /\ faults' = faults + 1

\* Wrong variant: nothing stops the heartbeat of a thread that dies.
ThreadDiesBeating(t) ==
    /\ Fault
    /\ pc[t] \in {"claiming", "failing"}
    /\ pc' = [pc EXCEPT ![t] = "dead"]
    /\ UNCHANGED <<storeVars, up, working, beating, request>>

\* A database error where nobody catches it, in the claim or in
\* mark_source_run_failed, ends the thread and stops its heartbeat.
ThreadDies(t) ==
    /\ Fault
    /\ pc[t] \in {"claiming", "failing"}
    /\ pc' = [pc EXCEPT ![t] = "dead"]
    /\ working' = [working EXCEPT ![t] = NoJob]
    /\ beating' = beating \ {t}
    /\ UNCHANGED <<storeVars, up, request>>

\* A database error in the heartbeat thread, which has no handler either.
HeartbeatDies(t) ==
    /\ Fault
    /\ t \in beating
    /\ beating' = beating \ {t}
    /\ UNCHANGED <<storeVars, up, pc, working, request>>

\* An exception for one run leaves the loop with an error response, whatever was
\* queued for the runs before it, and so does one between the loop and the wake.
RequestFails(q) ==
    /\ Fault
    /\ request[q].step # "none"
    /\ request' = [request EXCEPT ![q] = NoRequest]
    /\ UNCHANGED <<storeVars, up, pc, working, beating>>

Crash ==
    /\ Fault
    /\ up
    /\ up' = FALSE
    /\ pc' = [t \in Thread |-> "dead"]
    /\ working' = [t \in Thread |-> NoJob]
    /\ beating' = {}
    /\ request' = [q \in Request |-> NoRequest]
    /\ UNCHANGED storeVars

\* Wrong variant: the startup fails every running job, expired or not.
RestartFailsAll ==
    /\ ~up
    /\ up' = TRUE
    /\ jobStatus' = [j \in Job |-> IF jobStatus[j] = "running" THEN "failed" ELSE jobStatus[j]]
    /\ jobError' = [j \in Job |-> IF jobStatus[j] = "running" THEN "lease_expired" ELSE jobError[j]]
    /\ runStatus' = [r \in Run |-> IF runStatus[r] = "running" THEN "failed" ELSE runStatus[r]]
    /\ UNCHANGED <<runAuth, connection, triage, jobRun, leaseLeft, attempts, persisted,
                   pc, working, beating, request, faults>>

\* create_app reconciles expired leases; it starts no worker.
Restart ==
    /\ ~up
    /\ up' = TRUE
    /\ Reconcile
    /\ UNCHANGED <<pc, working, beating, request, faults>>

TimePasses == Tick /\ UNCHANGED runnerVars

-----------------------------------------------------------------------------
WorkerStep(t) == \/ TakeJob(t) \/ FindNoJob(t) \/ Return(t) \/ StartSearch(t)
                 \/ DeliverResults(t) \/ ReportFailure(t)

RequestStep(q) == \/ ConsiderRun(q) \/ Probe(q) \/ BlockRun(q) \/ BeginJob(q)
                  \/ QueueJob(q) \/ Wake(q) \/ EndStart(q)

RunnerNext ==
    \/ \E t \in Thread : WorkerStep(t) \/ Throw(t) \/ Heartbeat(t) \/ ThreadDies(t) \/ HeartbeatDies(t)
    \/ \E q \in Request : (\E s \in Session : BeginStart(q, s)) \/ RequestStep(q) \/ RequestFails(q)
    \/ ReadSession \/ Recruit \/ Crash \/ Restart \/ TimePasses

RunnerSpec == RunnerInit /\ [][RunnerNext]_vars

\* Threads are scheduled, searches end (every provider call has a timeout), the
\* clock advances, requests in flight are served, somebody keeps the page open
\* and a crashed server is started again.  Nothing obliges the recruiter to press
\* start again, so BeginStart has no fairness.
RunnerFairness ==
    /\ \A t \in Thread : WF_vars(WorkerStep(t)) /\ WF_vars(Heartbeat(t))
    /\ \A q \in Request : WF_vars(RequestStep(q))
    /\ WF_vars(ReadSession) /\ WF_vars(Restart) /\ WF_vars(TimePasses)

FairRunnerSpec == RunnerSpec /\ RunnerFairness

-----------------------------------------------------------------------------
(* Properties.                                                             *)

\* The runner only ever moves the store by the store's own methods.
StoreSpec == Init /\ [][Next]_storeVars

\* A lane never has more threads alive than workers, however many start requests
\* wake it while its threads come and go: with one Liepin worker, two jobs never
\* use the recruiter's Liepin account at the same time.
LanesBounded ==
    /\ Cardinality(Alive(CtsThread)) <= CtsWorkerCount
    /\ Cardinality(Alive(LiepinThread)) <= LiepinWorkerCount

\* No two threads, of whatever lane, work for the same run at the same time while
\* its job is live: a new job of a run starts only after the old one ended.
OneWorkerPerRun ==
    \A t, u \in Thread :
        /\ Executing(t) /\ Executing(u)
        /\ jobStatus[working[t]] = "running" /\ jobStatus[working[u]] = "running"
        /\ jobRun[working[t]] = jobRun[working[u]]
        => t = u

\* A thread executes a job exactly from its claim to the finally clause of _execute, no
\* other thread executes that job, and only such a thread has a heartbeat.
ThreadsHoldJobs ==
    /\ \A t \in Thread : Executing(t) <=> working[t] \in Job
    /\ \A t \in Thread : Executing(t) => jobStatus[working[t]] \notin {"absent", "queued"}
    /\ \A t, u \in Thread : Executing(t) /\ working[t] = working[u] => t = u
    /\ \A t \in beating : Executing(t)

\* The threads and requests are what they can be, no lane has more threads than workers,
\* every thread holds its own job, and no run has two workers (_start_lane_workers,
\* _run_until_idle, _execute).
RunnerInv == RunnerTypeOK /\ LanesBounded /\ ThreadsHoldJobs /\ OneWorkerPerRun

\* Whatever dies, no job stays running forever.
RunningJobsEnd == \A j \in Job : jobStatus[j] = "running" ~> jobStatus[j] \in Terminal

\* Every queued job reaches a worker without another start request
\* (the design of the workbench: "Long source runs are durable jobs, not long-lived
\* HTTP requests"; actions "must fail into explicit durable state").  It does not
\* hold: wake counts a worker that found no job and is about to return.
QueuedJobsAreClaimed == \A j \in Job : jobStatus[j] = "queued" ~> jobStatus[j] # "queued"

\* If start requests keep being accepted, every queued job reaches a worker,
\* through lost wakeups, dead threads and restarts.
RetriedStartsSucceed == []<>(\E q \in Request : Waking(q)) => QueuedJobsAreClaimed
=============================================================================
