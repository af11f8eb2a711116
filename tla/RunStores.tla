----------------------------- MODULE RunStores -----------------------------
(***************************************************************************)
(* The frame of WorkflowRuntime.run_async: the trace artifacts, the corpus *)
(* session and the flywheel row a run opens, the exception handler, and    *)
(* the finally block that closes the three in turn.  What happens between  *)
(* (stage "requirements" to "evaluate") is the business of RuntimeRun.     *)
(* asyncio.CancelledError is no Exception: it passes the handler by, and   *)
(* the finally block closes the stores with the status they began with.    *)
(***************************************************************************)
EXTENDS Naturals

VARIABLES
    stage,    \* where run_async stands
    store,    \* status of the corpus manifest, the flywheel row and the trace manifest
    status,   \* close_status
    outcome   \* what the caller gets

frame == <<stage, store, status, outcome>>

Parts == {"corpus", "flywheel", "trace"}
Working == {"requirements", "controller", "plan", "prf", "search", "score", "reflect",
            "lanes", "rescore", "finalize", "evaluate"}

OpenInit ==
    /\ stage = "open" /\ status = "completed" /\ outcome = "none"
    /\ store = [p \in Parts |-> "none"]

\* RunTracer and create_root write a manifest each; neither is inside the try.
OpenRun ==
    /\ stage = "open"
    /\ store' = [store EXCEPT !["trace"] = "running", !["corpus"] = "running"]
    /\ stage' = "start"
    /\ UNCHANGED <<status, outcome>>

OpenFails ==
    /\ stage = "open"
    /\ store' \in {store, [store EXCEPT !["trace"] = "running"]}
    /\ stage' = "over" /\ outcome' = "failed"
    /\ UNCHANGED status

\* _start_corpus_run, _start_flywheel_run, the preamble and the source plan.
StartRun ==
    /\ stage = "start"
    /\ store' = [store EXCEPT !["flywheel"] = "running"]
    /\ stage' = "requirements"
    /\ UNCHANGED <<status, outcome>>

StartFails ==
    /\ stage = "start"
    /\ store' \in {store, [store EXCEPT !["flywheel"] = "running"]}
    /\ stage' = "corpus" /\ status' = "failed" /\ outcome' = "failed"

\* A stage raises; the handler notes it and raises again.
Fail ==
    /\ stage' = "corpus" /\ status' = "failed" /\ outcome' = "failed"
    /\ UNCHANGED store

\* The task is cancelled while it awaits, or the interpreter is interrupted.
Cancel ==
    /\ stage \in Working \ {"plan"}
    /\ stage' = "corpus" /\ outcome' = "cancelled"
    /\ UNCHANGED <<store, status>>

\* The run's own result is ready.
Return ==
    /\ stage' = "corpus" /\ outcome' = "returned"
    /\ UNCHANGED <<store, status>>

----------------------------------------------------------------------------
(* The finally block.                                                      *)

\* An error of the corpus session turns a completed run into a failed one.
Spoiled(bad) == IF bad THEN "failed" ELSE status

\* Mutant: an error of the corpus session is only logged.
CloseCorpusQuietly ==
    /\ stage = "corpus"
    /\ \E ingested, indexed \in BOOLEAN, wrote \in {"running", "completed", "failed"} :
         /\ wrote = status \/ (~indexed /\ wrote = "running")
         /\ store' = [store EXCEPT !["corpus"] = wrote]
    /\ stage' = "close"
    /\ UNCHANGED <<status, outcome>>

\* write_corpus_ingest_manifest and corpus_session.finalize, which writes the
\* manifest and then the partition index: either can raise, and the second can
\* raise after the manifest has been written.
CloseCorpus ==
    /\ stage = "corpus"
    /\ \E ingested, indexed \in BOOLEAN, wrote \in {"running", "completed", "failed"} :
         /\ wrote = Spoiled(~ingested) \/ (~indexed /\ wrote = "running")
         /\ store' = [store EXCEPT !["corpus"] = wrote]
         /\ LET bad == ~ingested \/ ~indexed
            IN  /\ status' = Spoiled(bad)
                /\ outcome' = IF bad /\ status = "completed" THEN "failed" ELSE outcome
    /\ stage' = "close"

\* Closing the corpus database; what it raises skips the rest of the block.
CloseDatabase ==
    /\ stage = "close"
    /\ stage' = "flywheel"
    /\ UNCHANGED <<store, status, outcome>>

CloseDatabaseFails ==
    /\ stage = "close"
    /\ stage' = "over" /\ outcome' = "failed"
    /\ UNCHANGED <<store, status>>

\* complete_run, if this run has a flywheel row.
CloseFlywheel ==
    /\ stage = "flywheel"
    /\ store' = [store EXCEPT !["flywheel"] = IF @ = "running" THEN status ELSE @]
    /\ stage' = "trace"
    /\ UNCHANGED <<status, outcome>>

\* complete_run or the closing of its database raises.
CloseFlywheelFails ==
    /\ stage = "flywheel"
    /\ store' \in {store, [store EXCEPT !["flywheel"] = IF @ = "running" THEN status ELSE @]}
    /\ stage' = "over" /\ outcome' = "failed"
    /\ UNCHANGED status

\* tracer.close: manifest, then index; only now is the corpus error raised.
CloseTrace ==
    /\ stage = "trace"
    /\ store' = [store EXCEPT !["trace"] = status]
    /\ stage' = "over"
    /\ UNCHANGED <<status, outcome>>

CloseTraceFails ==
    /\ stage = "trace"
    /\ store' \in {store, [store EXCEPT !["trace"] = status]}
    /\ stage' = "over" /\ outcome' = "failed"
    /\ UNCHANGED status

Close == \/ CloseCorpus \/ CloseDatabase \/ CloseDatabaseFails
         \/ CloseFlywheel \/ CloseFlywheelFails \/ CloseTrace \/ CloseTraceFails

FrameTypeOK ==
    /\ stage \in Working \cup {"open", "start", "corpus", "close", "flywheel", "trace", "over"}
    /\ store \in [Parts -> {"none", "running", "completed", "failed"}]
    /\ status \in {"completed", "failed"}
    /\ outcome \in {"none", "returned", "failed", "cancelled"}

\* The three records of a run agree with what its caller was told: all of them
\* completed behind a returned result, none behind a run that a stage of its own
\* failed, and none before the one that is closed ahead of it.  (A run that
\* fails only in closing leaves the earlier ones completed, a cancelled one all.)
StoresTellTheRun ==
    /\ stage = "over" /\ outcome = "returned" => \A p \in Parts : store[p] = "completed"
    /\ stage = "corpus" /\ status = "failed" => \A p \in Parts : store[p] # "completed"
    /\ status = "failed" => store["flywheel"] # "completed" /\ store["trace"] # "completed"
    /\ store["trace"] = "completed" => store["flywheel"] = "completed"
    /\ store["flywheel"] = "completed" => store["corpus"] = "completed"

=============================================================================
