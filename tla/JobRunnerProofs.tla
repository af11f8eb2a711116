-------------------------- MODULE JobRunnerProofs --------------------------
(***************************************************************************)
(* Proofs about JobRunner for any number of sessions, runs, jobs, threads, *)
(* start requests and faults: every step of the process is a step of the   *)
(* store or leaves it alone (the process implements SourceRuns), so that   *)
(* what is proved of the store holds of the program; and threads own their *)
(* jobs, lanes have no more threads than workers and runs no two workers.  *)
(***************************************************************************)
EXTENDS JobRunner, SourceRunsProofs, FiniteSetTheorems

-----------------------------------------------------------------------------
(* The steps of the store.                                                 *)

\* No method of the store makes a claimed job claimable again.
LEMMA JobsStayClaimed ==
    ASSUME StoreInv, [Next]_storeVars
    PROVE  \A j \in Job : jobStatus[j] \notin {"absent", "queued"}
                              => jobStatus'[j] \notin {"absent", "queued"}
<1>1. CASE SessionStep \/ ConnectionStep \/ Tick \/ UNCHANGED storeVars
  <2>1. UNCHANGED jobStatus
    BY <1>1 DEF SessionStep, CreateSession, UpdateTriage, ApproveTriage,
       ConnectionStep, CreateConnection, StartLogin, MarkConnected, MarkConnectedWithoutRuns,
       MarkConnectedForRun, MarkLoginRequired, BlockForProbe, Tick, storeVars, jobVars
  <2> QED
    BY <2>1
<1>2. ASSUME NEW r \in Run, NEW j \in Job, StartJob(r, j)
      PROVE  \A k \in Job : k # j => jobStatus'[k] = jobStatus[k]
  BY <1>2 DEF StartJob, InsertJob, StoreInv, TypeOK
<1>3. ASSUME NEW j \in Job, Claim(j) \/ ExtendLease(j)
      PROVE  jobStatus'[j] = "running" /\ \A k \in Job : k # j => jobStatus'[k] = jobStatus[k]
  BY <1>3 DEF Claim, ExtendLease, StoreInv, TypeOK
<1>4. ASSUME NEW j \in Job, MarkFailed(j) \/ CompleteCts(j)
                            \/ \E lane \in LaneStatus : CompleteLiepin(j, lane)
      PROVE  jobStatus'[j] \in Terminal /\ \A k \in Job : k # j => jobStatus'[k] = jobStatus[k]
  BY <1>4 DEF MarkFailed, CompleteCts, CompleteLiepin, Finish, JobStatusOf, Terminal, StoreInv, TypeOK
<1>5. ASSUME ReconcileExpired
      PROVE  \A k \in Job : jobStatus'[k] \in {"failed", jobStatus[k]}
  BY <1>5 DEF ReconcileExpired
<1>6. CASE JobStep
  <2>1. CASE \E r \in Run, j \in Job : StartJob(r, j)
    BY <1>2, <2>1 DEF StartJob, InsertJob
  <2>2. CASE \E j \in Job : Claim(j) \/ ExtendLease(j)
    BY <1>3, <2>2
  <2>3. CASE \E j \in Job : MarkFailed(j) \/ CompleteCts(j)
                            \/ \E lane \in LaneStatus : CompleteLiepin(j, lane)
    BY <1>4, <2>3 DEF Terminal
  <2>4. CASE ReconcileExpired
    BY <1>5, <2>4
  <2> QED
    BY <1>6, <2>1, <2>2, <2>3, <2>4 DEF JobStep
<1> QED
  BY <1>1, <1>6 DEF Next

\* Threads, heartbeats and requests move the store by its own methods only.
LEMMA RunnerStepsStore ==
    ASSUME RunnerTypeOK, ThreadsHoldJobs, [RunnerNext]_vars
    PROVE  [Next]_storeVars
<1> USE DEF IfRunning, Reconcile
<1>1. ASSUME NEW t \in Thread, WorkerStep(t) \/ Throw(t) \/ Heartbeat(t) \/ ThreadDies(t) \/ HeartbeatDies(t)
      PROVE  [Next]_storeVars
  <2>1. CASE TakeJob(t)
    BY <2>1 DEF TakeJob, Next, JobStep
  <2>2. CASE DeliverResults(t)
    <3>1. working[t] \in Job
      BY <2>2 DEF DeliverResults, ThreadsHoldJobs, Executing
    <3> QED
      BY <2>2, <3>1 DEF DeliverResults, Next, JobStep
  <2>3. CASE ReportFailure(t)
    <3>1. working[t] \in Job
      BY <2>3 DEF ReportFailure, ThreadsHoldJobs, Executing
    <3> QED
      BY <2>3, <3>1 DEF ReportFailure, Next, JobStep
  <2>4. CASE Heartbeat(t)
    <3>1. working[t] \in Job
      BY <2>4 DEF Heartbeat, ThreadsHoldJobs
    <3> QED
      BY <2>4, <3>1 DEF Heartbeat, Next, JobStep
  <2> QED
    BY <1>1, <2>1, <2>2, <2>3, <2>4
    DEF WorkerStep, FindNoJob, Return, StartSearch, Throw, ThreadDies, HeartbeatDies
<1>2. ASSUME NEW q \in Request, NEW s \in Session, BeginStart(q, s)
      PROVE  [Next]_storeVars
  BY <1>2 DEF BeginStart, Next, JobStep
<1>3. ASSUME NEW q \in Request, RequestStep(q) \/ RequestFails(q)
      PROVE  [Next]_storeVars
  <2>1. request[q].todo \subseteq Run
    BY DEF RunnerTypeOK, RequestState
  <2>2. CASE ConsiderRun(q) \/ BeginJob(q)
    BY <2>2 DEF ConsiderRun, BeginJob, Next, JobStep
  <2>3. CASE Probe(q) \/ BlockRun(q)
    BY <2>1, <2>3 DEF Probe, BlockRun, At, Next, ConnectionStep
  <2>4. CASE QueueJob(q)
    BY <2>1, <2>4 DEF QueueJob, At, Next, JobStep
  <2> QED
    BY <1>3, <2>2, <2>3, <2>4 DEF RequestStep, Wake, EndStart, RequestFails
<1>4. CASE ReadSession \/ Recruit \/ Crash \/ Restart \/ TimePasses
  BY <1>4 DEF ReadSession, Recruit, Crash, Restart, TimePasses, Next, JobStep, ConnectionStep
<1>5. CASE UNCHANGED vars
  BY <1>5 DEF vars
<1> QED
  BY <1>1, <1>2, <1>3, <1>4, <1>5 DEF RunnerNext

-----------------------------------------------------------------------------
(* Threads and their jobs.                                                 *)

\* The process starts without threads.
LEMMA RunnerInitInv == RunnerInit => RunnerInv
<1> SUFFICES ASSUME RunnerInit PROVE RunnerInv
  OBVIOUS
<1>1. RunnerTypeOK
  BY ThreadAssumption DEF RunnerInit, RunnerTypeOK, ThreadState, RequestState, NoRequest
<1>2. Alive(CtsThread) = {} /\ Alive(LiepinThread) = {}
  BY DEF RunnerInit, Alive, Thread
<1>3. LanesBounded
  BY <1>2, ThreadAssumption, FS_EmptySet DEF LanesBounded
<1>4. ThreadsHoldJobs /\ OneWorkerPerRun
  BY ThreadAssumption DEF RunnerInit, ThreadsHoldJobs, OneWorkerPerRun, Executing
<1> QED
  BY <1>1, <1>3, <1>4 DEF RunnerInv

\* The steps of the worker threads keep the types.
LEMMA WorkerTypes ==
    ASSUME RunnerTypeOK, NEW t \in Thread,
           WorkerStep(t) \/ Throw(t) \/ Heartbeat(t) \/ ThreadDies(t) \/ HeartbeatDies(t)
    PROVE  RunnerTypeOK'
<1> USE ThreadAssumption DEF RunnerTypeOK, ThreadState
<1>1. CASE TakeJob(t)
  BY <1>1 DEF TakeJob
<1>2. CASE FindNoJob(t) \/ Return(t) \/ StartSearch(t) \/ Throw(t)
  BY <1>2 DEF FindNoJob, Return, StartSearch, Throw
<1>3. CASE DeliverResults(t) \/ ReportFailure(t)
  <2>1. NextJob(t)
    BY <1>3 DEF DeliverResults, ReportFailure
  <2> QED
    BY <2>1 DEF NextJob
<1>4. CASE Heartbeat(t)
  BY <1>4 DEF Heartbeat
<1>5. CASE ThreadDies(t) \/ HeartbeatDies(t)
  BY <1>5 DEF ThreadDies, HeartbeatDies, Fault
<1> QED
  BY <1>1, <1>2, <1>3, <1>4, <1>5 DEF WorkerStep

\* The steps of the start requests keep the types.
LEMMA RequestTypes ==
    ASSUME RunnerTypeOK, NEW q \in Request,
           (\E s \in Session : BeginStart(q, s)) \/ RequestStep(q) \/ RequestFails(q)
    PROVE  RunnerTypeOK'
<1> USE DEF RunnerTypeOK
<1>1. CASE \E s \in Session : BeginStart(q, s)
  <2>1. PICK s \in Session : BeginStart(q, s)
    BY <1>1
  <2> DEFINE todo == {r \in RunsOf(s) : runStatus'[r] \notin Terminal}
  <2>2. /\ todo \in SUBSET Run
        /\ {r \in todo : runStatus'[r] # "running"} \in SUBSET Run
    BY DEF RunsOf
  <2>3. [step |-> "next", todo |-> todo, wake |-> FALSE,
         idle |-> {r \in todo : runStatus'[r] # "running"}] \in RequestState
    BY <2>2 DEF RequestState
  <2> QED
    BY <2>1, <2>3 DEF BeginStart
<1>2. ASSUME NEW step \in {"next", "probing", "blocking", "starting", "queueing"}, GoOn(q, step)
      PROVE  RunnerTypeOK'
  <2>1. [request[q] EXCEPT !.step = step] \in RequestState
    BY DEF RequestState
  <2> QED
    BY <1>2, <2>1 DEF GoOn
<1>3. ASSUME NEW r \in Run, NEW job \in BOOLEAN, DoneWith(q, r, job)
      PROVE  RunnerTypeOK'
  <2>1. [request[q] EXCEPT !.step = "next", !.todo = @ \ {r}, !.wake = @ \/ job] \in RequestState
    BY DEF RequestState
  <2> QED
    BY <1>3, <2>1 DEF DoneWith
<1>4. CASE ConsiderRun(q) \/ Probe(q) \/ BeginJob(q)
  <2>1. \E step \in {"next", "probing", "blocking", "starting", "queueing"} : GoOn(q, step)
    BY <1>4 DEF ConsiderRun, Probe, BeginJob
  <2> QED
    BY <1>2, <2>1
<1>5. CASE BlockRun(q) \/ QueueJob(q)
  <2>1. request[q].todo \subseteq Run
    BY DEF RequestState
  <2>2. \E r \in Run, job \in BOOLEAN : DoneWith(q, r, job)
    BY <1>5, <2>1 DEF BlockRun, QueueJob, At
  <2> QED
    BY <1>3, <2>2
<1>6. CASE Wake(q) \/ EndStart(q) \/ RequestFails(q)
  <2>1. NoRequest \in RequestState
    BY DEF NoRequest, RequestState
  <2>2. request' \in [Request -> RequestState] /\ UNCHANGED <<up, working, beating>>
    BY <1>6, <2>1 DEF Wake, EndStart, RequestFails
  <2>3. pc' \in [Thread -> ThreadState]
    BY <1>6 DEF Wake, EndStart, RequestFails, ThreadState
  <2>4. faults' \in 0..MaxFaults
    BY <1>6, ThreadAssumption DEF Wake, EndStart, RequestFails, Fault
  <2> QED
    BY <2>2, <2>3, <2>4
<1> QED
  BY <1>1, <1>4, <1>5, <1>6 DEF RequestStep

\* Every step keeps the types of threads and requests.
LEMMA RunnerTypes == RunnerTypeOK /\ [RunnerNext]_vars => RunnerTypeOK'
<1> SUFFICES ASSUME RunnerTypeOK, [RunnerNext]_vars PROVE RunnerTypeOK'
  OBVIOUS
<1>1. CASE Crash
  <2>1. NoRequest \in RequestState
    BY DEF NoRequest, RequestState
  <2>2. /\ up' = FALSE /\ pc' \in [Thread -> ThreadState] /\ beating' = {}
        /\ working' \in [Thread -> Job \cup {NoJob}] /\ request' \in [Request -> RequestState]
    BY <1>1, <2>1 DEF Crash, ThreadState
  <2>3. faults' \in 0..MaxFaults
    BY <1>1, ThreadAssumption DEF Crash, Fault, RunnerTypeOK
  <2> QED
    BY <2>2, <2>3 DEF RunnerTypeOK
<1>2. CASE ReadSession \/ Recruit \/ Restart \/ TimePasses \/ UNCHANGED vars
  BY <1>2 DEF ReadSession, Recruit, Restart, TimePasses, vars, runnerVars, RunnerTypeOK
<1> QED
  BY <1>1, <1>2, WorkerTypes, RequestTypes DEF RunnerNext

\* A step that leaves the threads alone keeps what they hold.
LEMMA ThreadsUntouched ==
    ASSUME StoreInv, RunnerTypeOK, ThreadsHoldJobs, [Next]_storeVars,
           UNCHANGED <<pc, working, beating>>
    PROVE  ThreadsHoldJobs'
BY JobsStayClaimed DEF ThreadsHoldJobs, Executing

\* A claimed job was held by no thread, and a thread gives up its job when it goes back to
\* the claim loop or dies.
LEMMA WorkersHoldJobs ==
    ASSUME StoreInv, RunnerTypeOK, ThreadsHoldJobs, [Next]_storeVars, NEW t \in Thread,
           WorkerStep(t) \/ Throw(t) \/ Heartbeat(t) \/ ThreadDies(t) \/ HeartbeatDies(t)
    PROVE  ThreadsHoldJobs'
<1> USE DEF RunnerTypeOK
<1>0. \A j \in Job : jobStatus[j] \notin {"absent", "queued"} => jobStatus'[j] \notin {"absent", "queued"}
  BY JobsStayClaimed
<1>1. CASE TakeJob(t)
  <2>1. PICK j \in Job : Claim(j) /\ working' = [working EXCEPT ![t] = j]
    BY <1>1 DEF TakeJob
  <2>2. jobStatus[j] = "queued" /\ jobStatus'[j] = "running"
    BY <2>1 DEF Claim, StoreInv, TypeOK
  <2>3. /\ pc' = [pc EXCEPT ![t] = "starting"] /\ beating' = beating \cup {t}
        /\ working'[t] = j /\ \A u \in Thread : u # t => working'[u] = working[u] /\ pc'[u] = pc[u]
    BY <1>1, <2>1 DEF TakeJob
  <2>4. \A u \in Thread : Executing(u) => working[u] # j
    BY <2>2 DEF ThreadsHoldJobs
  <2> QED
    BY <1>0, <2>2, <2>3, <2>4 DEF ThreadsHoldJobs, Executing
<1>2. CASE FindNoJob(t) \/ Return(t)
  BY <1>0, <1>2 DEF FindNoJob, Return, ThreadsHoldJobs, Executing
<1>3. CASE StartSearch(t) \/ Throw(t)
  BY <1>0, <1>3 DEF StartSearch, Throw, ThreadsHoldJobs, Executing
<1>4. CASE DeliverResults(t) \/ ReportFailure(t)
  <2>1. NextJob(t)
    BY <1>4 DEF DeliverResults, ReportFailure
  <2> QED
    BY <1>0, <2>1, ThreadAssumption DEF NextJob, ThreadsHoldJobs, Executing
<1>5. CASE Heartbeat(t) \/ HeartbeatDies(t)
  BY <1>0, <1>5 DEF Heartbeat, HeartbeatDies, ThreadsHoldJobs, Executing
<1>6. CASE ThreadDies(t)
  BY <1>0, <1>6, ThreadAssumption DEF ThreadDies, ThreadsHoldJobs, Executing
<1> QED
  BY <1>1, <1>2, <1>3, <1>4, <1>5, <1>6 DEF WorkerStep

\* Every step keeps what the threads hold.
LEMMA ThreadsKeepJobs ==
    ASSUME StoreInv, RunnerTypeOK, ThreadsHoldJobs, [RunnerNext]_vars
    PROVE  ThreadsHoldJobs'
<1>0. [Next]_storeVars
  BY RunnerStepsStore
<1>1. ASSUME NEW t \in Thread, WorkerStep(t) \/ Throw(t) \/ Heartbeat(t) \/ ThreadDies(t) \/ HeartbeatDies(t)
      PROVE  ThreadsHoldJobs'
  BY <1>0, <1>1, WorkersHoldJobs
<1>2. ASSUME NEW q \in Request,
             (\E s \in Session : BeginStart(q, s)) \/ RequestStep(q) \/ RequestFails(q)
      PROVE  ThreadsHoldJobs'
  <2>1. CASE Wake(q)
    <3>1. PICK new \in SUBSET Thread :
              /\ LaneFilled(CtsThread, CtsWorkerCount, new \cap CtsThread)
              /\ LaneFilled(LiepinThread, LiepinWorkerCount, new \cap LiepinThread)
              /\ pc' = [u \in Thread |-> IF u \in new THEN "claiming" ELSE pc[u]]
      BY <2>1 DEF Wake
    <3>2. \A u \in new : pc[u] = "dead"
      BY <3>1 DEF LaneFilled, Alive, Thread
    <3>3. UNCHANGED <<jobStatus, working, beating>>
      BY <2>1 DEF Wake, storeVars, jobVars
    <3> QED
      BY <3>1, <3>2, <3>3 DEF ThreadsHoldJobs, Executing, RunnerTypeOK
  <2>2. ~Wake(q) => UNCHANGED <<pc, working, beating>>
    BY <1>2 DEF BeginStart, RequestStep, RequestFails, ConsiderRun, Probe, BlockRun, BeginJob,
                QueueJob, EndStart, GoOn, DoneWith
  <2> QED
    BY <1>0, <2>1, <2>2, ThreadsUntouched
<1>3. CASE Crash
  BY <1>3, ThreadAssumption DEF Crash, ThreadsHoldJobs, Executing
<1>4. CASE ReadSession \/ Recruit \/ Restart \/ TimePasses \/ UNCHANGED vars
  <2>1. UNCHANGED <<pc, working, beating>>
    BY <1>4 DEF ReadSession, Recruit, Restart, TimePasses, vars, runnerVars
  <2> QED
    BY <1>0, <2>1, ThreadsUntouched
<1> QED
  BY <1>1, <1>2, <1>3, <1>4 DEF RunnerNext

-----------------------------------------------------------------------------
(* Lanes.                                                                  *)

\* A lane is filled up to its workers and never beyond, whoever is alive.
LEMMA FilledLaneIsBounded ==
    ASSUME NEW T, IsFiniteSet(T), NEW count \in Nat, NEW new, LaneFilled(T, count, new),
           Cardinality(Alive(T)) <= count
    PROVE  /\ IsFiniteSet(Alive(T) \cup new)
           /\ Cardinality(Alive(T) \cup new) <= count
<1>1. Alive(T) \subseteq T /\ new \subseteq T \ Alive(T)
  BY DEF Alive, LaneFilled
<1>2. IsFiniteSet(Alive(T)) /\ IsFiniteSet(new)
  BY <1>1, FS_Subset
<1>3. Alive(T) \cap new = {}
  BY <1>1
<1>4. Cardinality(Alive(T)) \in Nat /\ Cardinality(new) \in Nat /\ Cardinality(Alive(T) \cap new) = 0
  BY <1>2, <1>3, FS_CardinalityType, FS_EmptySet
<1>5. /\ IsFiniteSet(Alive(T) \cup new)
      /\ Cardinality(Alive(T) \cup new)
            = Cardinality(Alive(T)) + Cardinality(new) - Cardinality(Alive(T) \cap new)
  BY <1>2, FS_Union
<1> QED
  BY <1>4, <1>5 DEF LaneFilled

\* A lane whose threads alive become no more stays within its workers.
LEMMA SmallerLaneIsBounded ==
    ASSUME NEW T, IsFiniteSet(T), NEW count \in Nat, Cardinality(Alive(T)) <= count,
           NEW S, IsFiniteSet(S), Cardinality(S) <= count, Alive(T)' \subseteq S
    PROVE  Cardinality(Alive(T)') <= count
<1>1. IsFiniteSet(Alive(T)') /\ Cardinality(Alive(T)') <= Cardinality(S)
  BY FS_Subset
<1>2. Cardinality(Alive(T)') \in Nat /\ Cardinality(S) \in Nat
  BY <1>1, FS_CardinalityType
<1> QED
  BY <1>1, <1>2

\* Threads come alive only where a start request wakes a lane.
LEMMA OnlyWakeStartsThreads ==
    ASSUME RunnerTypeOK, [RunnerNext]_vars, \A q \in Request : ~Wake(q)
    PROVE  \A t \in Thread : pc[t] = "dead" => pc'[t] = "dead"
<1> USE DEF RunnerTypeOK
<1>1. ASSUME NEW t \in Thread, WorkerStep(t) \/ Throw(t) \/ Heartbeat(t) \/ ThreadDies(t) \/ HeartbeatDies(t)
      PROVE  \A u \in Thread : pc[u] = "dead" => pc'[u] = "dead"
  BY <1>1 DEF WorkerStep, TakeJob, FindNoJob, Return, StartSearch, Throw, DeliverResults, ReportFailure,
              NextJob, Heartbeat, ThreadDies, HeartbeatDies
<1>2. ASSUME NEW q \in Request,
             (\E s \in Session : BeginStart(q, s)) \/ RequestStep(q) \/ RequestFails(q)
      PROVE  UNCHANGED pc
  BY <1>2 DEF BeginStart, RequestStep, RequestFails, ConsiderRun, Probe, BlockRun, BeginJob,
              QueueJob, EndStart, GoOn, DoneWith
<1>3. CASE ReadSession \/ Recruit \/ Crash \/ Restart \/ TimePasses \/ UNCHANGED vars
  BY <1>3 DEF ReadSession, Recruit, Crash, Restart, TimePasses, vars, runnerVars
<1> QED
  BY <1>1, <1>2, <1>3 DEF RunnerNext

\* No step gives a lane more threads than it has workers.
LEMMA LanesStayBounded ==
    ASSUME RunnerTypeOK, LanesBounded, [RunnerNext]_vars
    PROVE  LanesBounded'
<1> DEFINE Kept(T, count) == Cardinality(Alive(T)') <= count
<1>0. /\ IsFiniteSet(CtsThread) /\ CtsWorkerCount \in Nat /\ IsFiniteSet(LiepinThread)
      /\ LiepinWorkerCount \in Nat
  BY ThreadAssumption
<1>1. ASSUME NEW q \in Request, Wake(q) PROVE LanesBounded'
  <2>1. PICK new \in SUBSET Thread :
            /\ LaneFilled(CtsThread, CtsWorkerCount, new \cap CtsThread)
            /\ LaneFilled(LiepinThread, LiepinWorkerCount, new \cap LiepinThread)
            /\ pc' = [t \in Thread |-> IF t \in new THEN "claiming" ELSE pc[t]]
    BY <1>1 DEF Wake
  <2>2. /\ Alive(CtsThread)' \subseteq Alive(CtsThread) \cup (new \cap CtsThread)
        /\ Alive(LiepinThread)' \subseteq Alive(LiepinThread) \cup (new \cap LiepinThread)
    BY <2>1 DEF Alive, Thread
  <2>3. Kept(CtsThread, CtsWorkerCount)
    BY <1>0, <2>1, <2>2, FilledLaneIsBounded, SmallerLaneIsBounded DEF LanesBounded
  <2>4. Kept(LiepinThread, LiepinWorkerCount)
    BY <1>0, <2>1, <2>2, FilledLaneIsBounded, SmallerLaneIsBounded DEF LanesBounded
  <2> QED
    BY <2>3, <2>4 DEF LanesBounded
<1>2. CASE \A q \in Request : ~Wake(q)
  <2>1. Alive(CtsThread)' \subseteq Alive(CtsThread) /\ Alive(LiepinThread)' \subseteq Alive(LiepinThread)
    BY <1>2, OnlyWakeStartsThreads DEF Alive, Thread
  <2>2. IsFiniteSet(Alive(CtsThread)) /\ IsFiniteSet(Alive(LiepinThread))
    BY <1>0, FS_Subset DEF Alive
  <2> QED
    BY <1>0, <2>1, <2>2, SmallerLaneIsBounded DEF LanesBounded
<1> QED
  BY <1>1, <1>2

-----------------------------------------------------------------------------
(* Theorems.                                                               *)

\* Two threads never work for one run while its job is live: they would hold two
\* active jobs of it, or one job both.
LEMMA OneWorkerFromJobs ==
    ASSUME StoreInv, ThreadsHoldJobs
    PROVE  OneWorkerPerRun
BY DEF OneWorkerPerRun, StoreInv, OneActiveJob, Active, ThreadsHoldJobs

\* Every step of the process keeps the invariants of the store and of the threads.
LEMMA RunnerNextInv == StoreInv /\ RunnerInv /\ [RunnerNext]_vars => StoreInv' /\ RunnerInv'
<1> SUFFICES ASSUME StoreInv, RunnerInv, [RunnerNext]_vars PROVE StoreInv' /\ RunnerInv'
  OBVIOUS
<1>1. RunnerTypeOK' /\ ThreadsHoldJobs' /\ LanesBounded'
  BY RunnerTypes, ThreadsKeepJobs, LanesStayBounded DEF RunnerInv
<1>2. StoreInv'
  BY RunnerStepsStore, NextInv DEF RunnerInv
<1>3. OneWorkerPerRun'
  BY <1>1, <1>2, OneWorkerFromJobs, PTL
<1> QED
  BY <1>1, <1>2, <1>3 DEF RunnerInv

\* In every reachable state of the process the tables keep their invariant, every thread
\* has its own job, no lane more threads than workers and no run two workers, whatever
\* start requests, failures and restarts come (job_runner.py, server.py).
THEOREM RunnerInvariant == RunnerSpec => [](StoreInv /\ RunnerInv)
<1>1. RunnerInit => StoreInv /\ RunnerInv
  BY InitInv, RunnerInitInv DEF RunnerInit
<1> QED
  BY <1>1, RunnerNextInv, PTL DEF RunnerSpec

\* The invariant the runs check (_start_lane_workers, _run_until_idle, _execute).
THEOREM RunnerIsSound == RunnerSpec => []RunnerInv
BY RunnerInvariant, PTL

\* The process implements the store: its threads and requests move the tables by the
\* store's methods, one transaction at a time (the calls of job_runner.py and
\* workbench_routes.py into workbench_store.py).
THEOREM RunnerImplementsStore == RunnerSpec => StoreSpec
<1>1. RunnerInit => Init
  BY DEF RunnerInit
<1>2. RunnerInv /\ [RunnerNext]_vars => [Next]_storeVars
  BY RunnerStepsStore DEF RunnerInv
<1> QED
  BY <1>1, <1>2, RunnerIsSound, PTL DEF RunnerSpec, StoreSpec

\* So a run that ended stays as it ended while workers, probes and restarts go on
\* (start_source_run_job's terminal check, the status checks of the complete_* methods).
THEOREM RunnerEndsRunsOnce == RunnerSpec => RunEndsOnce
<1>1. StoreSpec => Spec
  BY DEF StoreSpec, Spec
<1> QED
  BY <1>1, RunnerImplementsStore, EndedRunsStayEnded, PTL

\* And the whole process keeps the contract of a source run: one attempt at a time, results
\* only out of an attempt in progress, and one end, through crashes, lost heartbeats and
\* late workers (SourceRunContract).
THEOREM RunnerKeepsContract == RunnerSpec => ContractKept
<1>1. StoreSpec => Spec
  BY DEF StoreSpec, Spec
<1> QED
  BY <1>1, RunnerImplementsStore, StoreKeepsContract, PTL
=============================================================================
