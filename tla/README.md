# SeekTalent: a verification project

SeekTalent (package `seektalent`, with the recruiter workbench `seektalent_ui`)
searches candidates for a job description. A recruiter creates a *session*,
reviews and approves the extracted *requirement criteria*, and starts one
*source run* per candidate source: `cts` (an HTTP search) and `liepin` (a
browser driven through the recruiter's own account). Source runs are durable jobs
in a SQLite database, executed by worker threads of the server process; each calls
the *runtime*, which searches and scores in rounds and leaves a shortlist and its
records behind. Opening a candidate's details on Liepin costs the account's daily
budget and goes through an approval queue.

This directory holds TLA+ models of that system, the TLC configurations that
check them, and TLAPS proofs. Paths below are relative to `src/src/` unless they
start with `docs/`, `tests/` or `apps/`.

## 1. Inventory

### 1.1 Workbench (`seektalent_ui`)

| component | state | operations | hard behaviours | what makes it correct |
|---|---|---|---|---|
| **Store: sessions, runs, jobs** (`workbench_store.py`) | tables `sessions`, `source_runs`, `source_run_jobs`, `source_connections`, `session_requirement_triage` | create session, edit and approve triage, login and start-probe updates, start, claim, renew lease, reconcile, complete, fail; each one `BEGIN IMMEDIATE` transaction | callers interleave between transactions; probes and logins answer late; leases expire under slow workers | one active job per run, run and job rows agree, a late worker publishes nothing, an ended run stays ended |
| **Job runner** (`job_runner.py`, `server.py:create_app`) | threads per lane, a heartbeat per job, nothing persistent | `wake`, claim loop, `_execute`, heartbeat loop, restart | dying threads and heartbeats, crash and restart, waking while a worker winds down | lanes bounded, one worker per run, no job running for ever, queued jobs eventually claimed |
| **Requirement triage** (`job_runner.py`, `workbench_store.py`) | criteria lists and status, `_triage_threads` | save, approve, prepare, extraction thread | a model call returns after edits and approvals; check and claim are minutes apart | an approval stands for what was approved; one extraction per session |
| **Note writer** (`workbench_note_writer.py`) | `workbench_note_writer_leases`, notes in `session_events` | `tick_session` from worker, heartbeat and triage threads | slow model calls outlive the lease; several processes; crash | no note twice |
| **Detail-open queue and ledger** (`workbench_store.py`) | `detail_open_requests`, `detail_open_ledger`, `external_write_intents`, counters of `source_runs`, policy mode | create, approve, reject, list, recommend on completion, reconcile | races for the last view of the day, stale clocks, midnight, repeated decisions | one lease per connection, daily budget, decision and lease are one |
| **Start route, probe, login relay** (`workbench_routes.py`) | rows of the workbench and of the provider store | probe, start, login, completion | two databases, awaits between check and write, a crash between the two | both databases name one account, and the gate is approved for it |
| **Session board** (`workbench_store.py`, `event_routes.py`, `eventStream.ts`) | `session_events`, `runtime_source_lane_latest_state`, review items, what the page shows | persist candidates and lane states, review, stream after a sequence number, read again | reordered rows, lost streams, reads that overlap events, failed reads | the page comes to rest on the tables as they are |
| **Maintenance** (`maintenance.py`) | database, log, quarantine, backups | backup, verify, restore | an error or a kill at any file operation, a log left by a killed server | the backup is in place or the original is |
| **Graph, top candidates** | - | projections of review items | merging by identity | one person once |
| **Users and login sessions** (`auth.py`, `workbench_store.py`, `workbench_routes.py`) | users, login sessions with their CSRF tokens, login attempts, the cookies of each browser | bootstrap, log in behind the lockout, who am I with a new token, log out | each request is several transactions, answers arrive late, a request fails between two of them | the newest login alone can answer, the lockout bounds guesses, a browser's token fits its session |
| **Legacy run registry** | runs in memory | - | - | not modelled, section 7 |

### 1.2 Runtime (`seektalent`)

| component | state | operations | hard behaviours | what makes it correct |
|---|---|---|---|---|
| **A run** (`runtime/orchestrator.py`, stage runtimes) | round, term pool, queries sent, resumes seen and scored, top pool | requirements, decisions behind a quality gate with four rescue lanes, plan, PRF, search, score, reflect, lanes, shortlist, evaluation | invalid model answers, a failure in every stage, cancellation | stops are earned, forced queries are valid, the shortlist is fair, the run ends |
| **Opening and closing** (`run_async`, `tracing.py`) | trace manifest, corpus manifest, flywheel row | open, handler, `finally` | errors while closing | the three records agree with what the caller was told |
| **A round's search** (`runtime/retrieval_runtime.py`, `retrieval/query_plan.py`) | lanes, cities, pages, resumes counted | targets, dispatches, fetch loop, refill passes | shrinking page size, rounding, failures of a fetch | nobody counted twice but by dispatches of one call over several cities, recorded before used, a shortage is exhaustion |
| **Source lanes and identity** (`runtime/source_lanes.py`) | lane results, people | lanes in parallel, apply, rescore | order of completion, a lane that fails | a shortlist independent of the order, one place per person |
| **Liepin provider** (`providers/liepin`, `apps/liepin-worker`) | connections, gates, detail attempts | verify sessions, card search, verified detail loop | crossed candidates, results of any status and order, unknown outcomes, account changes | a view is opened once and accounted for unless its call raises over a result or is cut short, a call keeps to its account |
| **Pi and OpenCLI** (`providers/pi_agent`) | browser tabs, tab lease, tool gate | tools, helpers, watchers, envelopes | tool calls that overlap, processes that outlive their request, a lease file without a lock | where no calls overlap, the cards are those of the query and a click goes to a page that was looked at; tabs get closed |
| **Records** (`artifacts/`, `flywheel/`, `corpus/`, `evaluation.py`) | manifests, files, partition index, two databases | every writing call of a run, an evaluation and the exports | processes interleave call by call, a failure or crash at any call | references resolve; files, index, tables and manifests agree |
| **CTS provider, model calls** | - | a fixed ranking or an error; an answer that validates or not | - | environment of the above |

### 1.3 How they interact

* A request handler calls store methods one after another, each in its own
  transaction; nothing holds across two calls. `start_source_run_job` commits a
  reconciliation before its own transaction begins.
* `wake` starts worker threads up to a count per lane; a worker claims jobs until
  none is queued and ends. Worker, heartbeat and request threads share the
  database and the runner's thread lists, nothing else.
* The runtime is called by a worker inside one job and hands its result to one
  completion method, which checks that the job is still running. Its events go to
  the session's events and the latest state of a lane, from which the page reads.
* The triage status is checked when a job is queued; the criteria are read when it
  is claimed. The detail queue is fed by the completion of a Liepin run in the same
  transaction.
* A run asks a round's search for new resumes, and its lanes for candidates of a
  source; both see the run's other state only when they are started and when they
  return.
* The Liepin account is described by two databases, the workbench's and the
  provider's; the routes write both, the calls of a run read the provider's.
* Runs and exports share two databases and the partition index of the artifact tree.

The hazards this leads to, each at its line and with the properties that cover
it, are listed in `PROJECT.json` under `hazards`.

## 2. Plan

Modelled and checked: every part of 1.1 and 1.2 but those of section 7, in this
order.

1. `SourceRunContract`, `SourceRuns`: the promise of a source run, and the store.
2. `JobRunner`, `RequirementTriage` on top of `SourceRuns`.
3. `NoteWriterLease`, `DetailOpenLedger`.
4. `RoundSearch` and `RetrievalLoop`, which implements it; `QueryTerms`,
   `SourceLanes`, `RunStores`, and `RuntimeRun` composed of them.
5. `LiepinConnections`, and `LiepinCalls` on top of it; `OpenCliSearch`.
6. `ArtifactSessions`, `FlywheelTables`, `CorpusTables`, `RecordScripts`, and
   `RunRecords` composed of them.
7. `WorkbenchMaintenance`, `SessionBoard`.
8. `LoginSessions`.

Proved (section 6): every safety property, action property and refinement the
runs check of 1 to 5, 7 and 8, and of 6 the references, the roots and the judged
labels. Left to model checking: liveness, and the files and exports of 6.

## 3. The modules

`PROJECT.json` ("map") gives, for every definition, the lines it stands for.

### SourceRuns and SourceRunContract

`SourceRuns` models the store as its callers see it: every method is one atomic
action, because each runs in one `BEGIN IMMEDIATE` transaction on one SQLite file.
`runStatus`, `runAuth`, `connection`, `triage` are columns; `jobStatus`, `jobRun`,
`jobError`, `attempts` the job table; `leaseLeft` is `lease_expires_at` minus the
clock; `persisted` is the set of jobs whose candidates reached the review tables.
The value `"absent"` is a row that does not exist yet. The module is deliberately
open: any caller may call any method at any time, so what is shown of it holds for
every runner, route and test built on the store.

Three details of the code that are easy to miss and that the model has:

* `start_source_run_job` updates a Liepin run to `blocked` and then raises. The
  exception leaves the `with` block of the connection, so the update is rolled
  back: a refusal changes nothing.
* A claim takes the oldest job by `created_at`, which has a resolution of one
  second, with ties broken by a random id. The model claims any queued job.
* A lane result `blocked` ends the job as failed and the run as `blocked`, with its
  candidates persisted; such a run can be started again.

`SourceRunContract` is what the workbench promises of a run, without tables: it is
idle, waiting, working or done; results are published only out of an attempt in
progress; a done run never changes. `SourceRuns!Contract` instantiates it with a
refinement mapping (`PhaseOf`, `PublishedOf`), and `ContractKept` says every
behaviour of the store is one of the contract.

Left out: more than one user or workspace, warnings, counters and events that no
method reads back (the page's are in `SessionBoard`), and the idempotency key of a
start, which the route never passes.

### JobRunner

Extends `SourceRuns` with the process: `pc` and `working` for each worker thread,
`beating` for heartbeat threads, `request` for each start request under way, `up`,
and `faults`. A worker step calls exactly the store method the
code calls at that point. Thread states: `claiming` (top of `_run_until_idle`),
`starting`/`searching` (inside the `try` of `_execute`), `failing` (its `except`),
`idle` (claim returned nothing, the thread is still alive), `dead`.

A start request (`start_session_source_runs`) takes a snapshot of the session's runs
and goes through those that have not ended, the CTS run first. `ConsiderRun` decides
from the snapshot and the job table whether a Liepin run is probed; `Probe` is the
whole of its awaits and the transaction that ends it; `BlockRun`, `BeginJob` and
`QueueJob` are the transactions after it; one job, new or found, is enough for `Wake`
at the end. `RequestFails` leaves the loop, or the note before the wake, with an
exception. What a probe writes to the provider store is in `LiepinConnections`; here
a probe has any outcome.

`ThreadDies` is an exception outside every handler (the claim, or
`mark_source_run_failed` in the `except` clause); the `finally` clause still stops
the heartbeat. `HeartbeatDies` is one in the heartbeat loop, which has no handler.
`Crash` ends the process; `Restart` is `create_app`, which reconciles and starts no
worker. `MaxFaults` bounds all of these together. Here a search is one step; what it
does is the business of `RuntimeRun`.

### RequirementTriage

Extends `SourceRuns` with the contents of the criteria, the last approved contents
(a history variable), prepare requests between reading the session and taking the
lock, the registry of extraction threads, and the snapshot each claimed job got.
The abstract triage status of `SourceRuns` is kept and moved by the same actions.

### NoteWriterLease

One session's lease row, the notes written (as idempotency keys), and threads of
several processes in `tick_session`: context and key, claim, model call, append,
release. The clock counts tick slots of 15 seconds; the lease of 30 seconds is two.
A restarted process is a new `Process`, as its owner id is random. Left out: a
database error in the release itself, after which the lease stays until it
expires.

### DetailOpenLedger

Requests are identified by their idempotency key. `create` and `approve` first
reconcile in one transaction (`BeginCall`) and decide in another; both read the
clock before they wait for the write lock, so `Now` admits a time one tick old.
The unique index on leased ledger rows is a guard of `MayLease`: a violation is
caught and blocks the request. `Recommend` is the part of a Liepin completion that
inserts requests, with no reconciliation before it.

### SessionBoard

What the page of one session shows: the columns of its two source runs, the latest
state of each Liepin lane, review items, events, and a page that follows the
stream. Every transaction that changes what the page shows is an action and appends
its event; the route's generator, the browser's EventSource and the query client
are a chain of steps: receive, mark the query stale, read the session, read the
lanes, show. A stream may be lost before any event and reopens after the last id;
`retry: false` leaves a failed read to the next event. `CandidateGroups` is the
merging by identity keys of `final_top_candidates.py`. Only what a reader can tell
apart is kept of a job; `SourceRuns` has it in full.

### LoginSessions

The workbench has one account. A request is a handler of `workbench_routes.py`: a
login (`BeginLogin` looks the user up, `CheckLock` counts the failures and judges the
password, `RefuseLogin` or `OpenSession` and `RecordLogin` write), `/api/auth/me`
(`RequireUser`, `RotateToken`) or a logout (`RequireUser`, `RequireToken`,
`RevokeSession`). Each step is one transaction; requests interleave between them,
`RequestFails` is an exception of any of them, and `Answer` hands the cookies to the
browser in any order. Sessions are named by their place in the table and tokens by
number; whether a password is right is a choice. Left out: `last_seen_at`, the audit
rows and the rows of successful attempts, which no handler reads, and disabled users,
whom no handler makes. Other posts check the token as a logout does.

### WorkbenchMaintenance

Files with an identity and rows: the database's main file, the log that belongs to
it, their quarantined names, the temporary copy, and the backups with their
metadata. A log counts only beside the file it was written for. Backup and restore
are one step per file operation, and at each an error may take the way of the
code's `except` and `finally` clauses, or the process be killed. The server writes
rows while it is up and may leave its log behind; `docs/ui.md` has it stopped
during a restore, and so has the model.

### RuntimeRun, RunStores, QueryTerms, SourceLanes

`RunStores` is the frame of `run_async`: what it opens, its `except` and `finally`
clauses, with an error or a cancellation possible at each. `RuntimeRun` is what
happens between: one action per stretch of code between two awaits. Models answer
anything that validates, answer invalidly (a repair, then a second try, then a
failed stage), or raise. `QueryTerms` has no state: it says which queries are
accepted, what the second lane is (a phrase the feedback policy accepted, or the
generic query: `SecondTerms` ranks what it may use, `ExploreTerms` picks one or two),
and when the gate lets a run stop or sends it to a rescue lane (reserve family,
feedback of the best resumes, broadening to the anchor). Where `select_query_terms` finds no query (`SelectTerms` is empty), the
decision fails the run. `SourceLanes` has the lanes of a run over several sources, applied in the
order of the source plan whichever ended first, and people across resumes.

A controller's queries come from `Proposals`; a resume's scorecard is fixed, as one
resume is scored once per run. The search of a round is `RoundSearch`, by its
promise only: it finds resumes no earlier round counted, at most as many as wanted,
or fails with nothing to show.

### RoundSearch and RetrievalLoop

`RetrievalLoop` is `execute_round_search` in detail and implements `RoundSearch`:
the location plan, 70/30 targets over two lanes and shares over cities, the fetch
loop with its page size, attempts and no-progress limits, refill passes, the
recording of what a provider returned before its scoring, the classification of an
outcome, and errors of a fetch or a score. `RoundSearchKept` is the refinement;
`SearchEnds` the termination a round relies on, which the run checks as its half of
`EveryRunEnds`.

### LiepinConnections and LiepinCalls

`LiepinConnections` is the account as two databases describe it. Each route is a
coroutine: what it does between two awaits is one action, except that a step
that writes both databases is two, as it holds two transactions and a crash may fall
between them. Three backends drive the browser: OpenCLI, whose sessions have no
account of their own; an agent with its own tools, which reports the account of the
browser; and the worker process with its login relay.

`LiepinCalls` adds `LiepinProviderAdapter.search`: the safety checks, a card search,
or the verified loop that opens details, transaction by transaction, with the
attempt state machine of the provider store. A worker's results come in any order
and with any status of `DetailOpenStatus`, whatever page and payload flags go with
it, as the contract allows; the `detail.ts` of this repository reports only
`completed` and `failed_after_possible_consumption`. A result the store refuses, a
completed one without a candidate, and one whose candidate cannot be mapped raise out
of the loop, at that result (`ApplyNext`). An error of `open_details` itself closes
every attempt as unknown first. `Cut` is a cancellation at an await, which the loop's
`except Exception` does not catch, or a failing transaction; it may fall anywhere. A
worker answers with the command id it was sent. `opened` is a history of what was
sent.

### OpenCliSearch

A request starts a Pi process whose model calls tools in any order, also a tool
before the last one has answered; the extension's gate (`stateReady`,
`terminalReason`, action count) decides when a call is made, and is brought up to
date when its payload arrives, whatever was called in between; a helper process for
each call runs the tool as a short program over the one browser session, one command
a step; watchers close a leased tab that went quiet. A request may end, by answer,
error or timer, with its helpers still at work. Pi, its model, OpenCLI and the pages are not
code of this repository: they may do anything the code does not rule out.
`stray`, `seen` and the fields `alone` are history: the tabs whose lease was lost,
the tab a Pi process observed since it last acted, and whether a call overlapped with
one that moves the session or its tab was closed under it. They name the exceptions
the properties state.

### ArtifactSessions, FlywheelTables, CorpusTables, RecordScripts, RunRecords

`ArtifactSessions` has manifests in memory and on disk, files, and the partition
index, whose rewriting is a step of its own under its lock. `FlywheelTables` and
`CorpusTables` give one operator per writing method: the tables after the call.
`RecordScripts` is the order of the calls of a run, its evaluation, and the dataset
and corpus exports, as sequences; `RunRecords` lets processes walk them, step by
step, one of them with a failure or a crash at any call. A run's trail at a failure
(what its `except` clauses still write) is part of the step that fails.

### MC modules

TLC's instances. `MCWorkbench` extends seven modules and `MCRuntimeRun` two that
share no state: `part` chooses one of them at the start, a behaviour is one of that
part, and the others stay as they began. This is one run per part in all but name.
The properties are checked as the modules state them, the same definitions the
theorems of section 6 name; only `EveryRunEnds` is guarded by `part`, as a part at
rest never ends.

## 4. Runs

| run | distinct states (about) | what it shows |
|---|---|---|
| `source_runs` | 38,764 | the store, called in any order: one active job per run, agreement of run and job, fenced results, single claims, terminal runs stay, and the contract is implemented |
| `job_runner` | 1,523,985 | the runner implements the store; threads hold distinct jobs, and only they have heartbeats; one live worker per run; no lane has more workers than it may |
| `job_runner_liveness` | 258,549 | whatever dies, every running job ends; queued jobs are claimed if starts are repeated |
| `lost_wakeup` | violation | a queued job may wait for ever, without any fault |
| `triage_claim` | violation | a job may be claimed with criteria nobody approved |
| `workbench_parts` | 2,021,062 | triage: an approval covers the contents, one extraction per session; notes: none twice; ledger: the daily budget, decisions and leases are one, decisions are final; accounts: only the newest login's session can answer, the lockout bounds the passwords judged in a window, a browser with one request at a time holds its session's token; maintenance: a restore leaves the backup or the original; browser: where no calls overlap, cards of the query and clicks only on a page that was looked at, tabs stay leased; board: the page comes to rest on the tables as they are |
| `restore_failure` | violation | an error in the quarantine deletes the database |
| `partial_lane` | violation | a partial lane with a recommendation is shown as completed |
| `runtime_run` | 242,159 | stops are earned; forced queries are accepted and a term nobody sent comes next while families are untried; the shortlist is fair; the records tell what became of the run; every run ends; and a round's search counts nobody twice but by dispatches of one call over several cities, records before it uses, ends short only when exhausted, and keeps the promise the rounds rely on |
| `liepin_account` | 1,879,004 | the databases name one account; a call keeps to it; views are opened once and accounted for, but for what a result that raises or a call cut short leaves open |
| `run_records` | 1,614,045 | references resolve; index, manifests, files, tables, labels, exports and the corpus agree |
| `evaluation_registered` | violation | the manifest of an evaluated run loses the evaluation |

### Bounds and why they are enough

* `source_runs`: two sessions sharing one connection, one CTS and two Liepin runs,
  three jobs, a lease of one tick. Two runs of one kind are what logins and probes
  can confuse; three jobs allow a run that is set aside and tried again beside
  another run's job. The theorems of section 6 remove these bounds.
* `job_runner`: the real worker counts (two and one), a spare Liepin thread id,
  two jobs, one start request at a time over both runs; one fault, so that every kind
  of failure is met in every state.
* `job_runner_liveness`: the Liepin lane with one worker, and two start requests, so
  that the probe of one can end after the other queued the run; one fault, which
  may hit a thread, a heartbeat, the process, or a request between its insert and
  its wake. `lost_wakeup` needs one request and no fault.
* `workbench_parts`, triage: one session with a run of each kind and one job; one
  edit and one extraction result tell whether the stored contents are the approved
  ones; a second thread id lets a new extraction start while an old one ends.
* Notes: two threads of one process and one of another; three slots, so a call can
  outlive its lease and a second owner can be in its own call; one change of facts,
  so that keys of one slot can differ.
* Ledger: three requests against a budget of two, three ticks a day and leases of
  one tick: the third request meets the limit with no lease in the way, and the
  fourth tick is a new day.
* Accounts: two browsers with a request at a time each, a lockout after two failures
  within one tick of three, four failed attempts, so that both passwords may be in
  flight after one failure; three tokens, for two logins and a rotation between. A
  behaviour has more than two failures or several tokens, not both (`FewFailures`):
  the lockout reads no session, and a session no failure.
* Maintenance: two rows tell an older backup from a newer; two restores let one
  meet the files a killed one left; two faults let a fault meet the handling of
  another (an error while the original is put back, a kill after an error).
* Browser: five quotas. Two searches of one tool each without a fault: an answer or
  the timer ends a request whose helper works on into the next. One Pi with two tools
  and a fault: a tool that is killed or fails before another. Four tools without a
  fault, none of them a search: open, look, fill, look, against a limit of three
  actions. Two searches of one Pi that may overlap; and three other calls that may:
  open, look and fill, where an observation answers after the next call has moved.
  Two tabs.
* Board: three quotas. Both runs and a decision without a fault; one run, a
  decision and one of a lost stream, a reload, a failed read or a probe without a
  login; a Liepin run that is started twice, whose lane rows compete.
* `runtime_run`: constants of the code scaled to a small pool: a weak pool has
  fewer than two resumes and a full one three, a strong pool and a strong stop have
  one strong fit, the top pool holds three and the active window one term. At most
  six rounds: the budget guard begins at round five of six, so a stop of a poor pool
  before it, after all four rescue lanes, needs six. Five terms (an anchor, a second
  title, an active skill, a domain in reserve, a phrase every resume mentions) and
  four resumes (a strong fit, two fits of one person, no fit), so that each rescue
  lane may or may not have something to offer. In the part of the search: fourteen
  resumes, three cities, the second lane with one resume of its own, five location
  plans, targets five and ten, and the attempt and page limits of the settings, so
  that pages overlap, lanes run dry at different times and refills happen.
* `liepin_account`: two calls with two candidates in either order, which is what
  crosses, and results of any status in either order; three requests, as the worker
  process needs a probe, a login and a completion to connect; a budget of two; all three backends; two accounts beside
  the connection's own hash. Calls, candidates, requests and accounts are alike and
  permuted as symmetry.
* `run_records`: two processes in three pairs of roles (two evaluated runs, a run
  and the dataset export, a run and the corpus export), one failure or crash of one
  of them. Two resumes of one person, one resume both runs see, a query without a
  result, opposite verdicts: the cases the tables treat differently.

Symmetry is used only in runs without liveness, over ids the specification never
orders; `workbench_parts` exchanges one pair of like ids in each of five parts. Deadlock is not checked where job ids, faults, the clock, quotas and thread
ids are finite in the models, or the system may simply be at rest; `runtime_run`
checks it, its ends being steps of their own.

### Fairness

* `job_runner_liveness`, `lost_wakeup` (`RunnerFairness`): weak fairness for each
  step of a worker thread and each heartbeat (the operating system schedules
  threads, and every provider call has a timeout, so a search ends), for a request
  in flight (its probe has timeouts too), for the clock, for the page read (the front end polls while the page is
  open) and for the restart of a crashed server. Nothing obliges the recruiter to
  press start again, so `BeginStart` has none; `RetriedStartsSucceed` takes repeated
  starts as its premise, and `lost_wakeup` shows that the premise is needed.
* `runtime_run`: weak fairness for the steps of a run and of a search. Each ends an
  await of a model, a provider or the scorer, which have timeouts, or is code
  without one. No fairness is given to failures, invalid answers or cancellation,
  and which answer a model gives is left open.

## 5. Disagreements found

Each is a run with expected verdict `violation` and an entry under `findings`.

* **Lost wakeup** (`job_runner.py:176`): `wake` counts a thread that is alive but
  past its last claim. A job queued in that window gets no worker, although the
  request was accepted; a restart does not start it either.
* **Claim without approval** (`workbench_store.py:1927`): the approval is checked
  when the job is queued, the criteria are read when it is claimed. An edit or a
  late extraction in between goes into the search under the label "Approved
  requirement triage".
* **A failed restore deletes the database** (`maintenance.py:1130`): an error in the
  quarantine unlinks every database file before it puts back those already moved.
* **The evaluation disappears from the manifest** (`evaluation.py:478`): two
  sessions on one artifact root, each writing the whole manifest.
* **A partial lane looks completed** (`runtime_lane.py:461`): its second event
  carries the fixed status `completed`.

Met while modelling, and not made into a finding because no document promises
otherwise or the effect is small:

* Notes: threads of one process share the lease owner id, so two of them may call
  the model for one session at once, although
  `docs/superpowers/specs/2026-05-12-workbench-live-notes-graph-and-resume-coverage-design.md:276`
  wants overlapping calls prevented "not only inside one Python process". No note
  appears twice.
* Liepin: the detail loop reads the daily count before it reserves, and attempts in
  progress do not count, so two loops may exceed the budget together. A result whose
  status the store refuses, a completed one without a candidate
  (`verified_loop.py:301-312`) and one that cannot be mapped raise and leave the
  attempts of all later results `started` for ever, though their views may be spent,
  and the first and the last kind leave their own attempt open too. Candidates in
  crossed order leave attempts started that were never sent. So do a cancellation
  and a crash, of attempts that were sent, which
  `docs/superpowers/specs/2026-05-07-liepin-cloud-connector-design.md:402` wants
  marked `possibly_consumed`. A crash between creating a connection and storing its
  gate makes every later probe fail on the unique key. A completion sent before its
  handoff was stored connects the workbench's row while the provider's is pending.
  The legacy relay beside an agent stores the connection's own hash, and every later
  probe reports an account mismatch. After its check, an agent's search runs on
  whatever account the browser has then.
* A round's search: the seen sets are brought up to date when
  `collect_candidates_for_query` returns (`retrieval_runtime.py`), so two dispatches of
  one call over several cities may both count one resume, which then fills two places
  of the round's target. `CountedOnce` is what holds.
* Runs: a cancelled run closes its records as completed; a run that fails in closing
  may leave a corpus that says completed.
* Browser: a tab whose close failed, whose watcher was not started, or whose lease
  the next search took over may stay open for good; a `state` call that fails lifts
  a hard stop, which
  `docs/superpowers/specs/2026-05-20-pi-macos-action-backend-liepin-card-search-design.md`
  wants to block what follows; opening a tab resets the action count, so the limit
  is one per tab and not per task; a page that has not rendered gives a successful
  search without cards. Tool calls of one Pi process may overlap
  (`seektalent_opencli_browser.ts:90-176` has no lock): a `state` payload that arrives
  after a later `open`, or after a fill that was called meanwhile, sets `stateReady`
  for a tab nobody looked at since, and a search may read what another call put into
  the selected tab.
* Queries: a round that may not be the last because families of terms are untried
  sends a term nobody has sent, but perhaps not of an untried family: the generic
  second query counts terms (`query_plan.py:196-216`), and a new spelling of a tried
  family may win. `NewTermComesNext` is what the code does. Two title anchors that
  are spellings of one name share a family (`query_compiler.py:82-181` does not compare
  families): a controller that wants to stop in round 1 is then answered by
  `select_query_terms`, whose query of both is refused, and the run fails.
* Records: the manifests of corpus and export roots list trace files that are never
  written there; two evaluations of one job each judge, and the last label wins; the outcomes
  per term are not derived again after an evaluation; the row count of the
  collection may lag.
* Maintenance: an error while the quarantine is deleted reports a failure although
  the restore is in place; a kill between the quarantine renames leaves no database,
  and a server started then creates an empty one; the audit rows of later backups
  are lost by restoring an earlier one.
* Board: the page takes the last lane row of a source in the order of random ids
  (`workbench_routes.py:1751`), so after a retry it may show the earlier job's lane;
  a login completed outside the session unblocks its run without an event of the
  session, and so does the link to a runtime run (`PageIsCurrent` names both).
* Start route: an exception for one run of a session (`workbench_routes.py:1033`)
  skips the wake for runs already queued; `RequestFails` is that step, and
  `RetriedStartsSucceed` shows that the next start that wakes makes up for it.

## 6. Proofs

The theorems hold for every value of the constants that satisfies the assumptions
named with them; the runs above are instances. In each part the checked property is
not inductive by itself, and the inductive invariant says what the code relies on
without checking it. Every such invariant was checked by TLC on the part's run
before it was proved.

| module | assumes | proves |
|---|---|---|
| `SourceRunsProofs` | `RunAssumption` (kinds of runs are disjoint, every run has a session), `LeaseAssumption` (a lease lasts a tick or more) | `TypeOK`, `OneActiveJob`, `RunMirrorsJob`, `ResultsFenced`, `ClaimedAtMostOnce`, `RunEndsOnce`; the store implements the contract (`ContractKept`) |
| `JobRunnerProofs` | the same, and `ThreadAssumption` (finitely many thread ids, lanes apart) | the process implements the store (`StoreSpec`), `RunnerInv`, and so `RunEndsOnce` and `ContractKept` of the process |
| `WorkbenchPartsProofs`, notes | `NoteAssumption` (every thread belongs to a process) | `NoNoteTwice` |
| detail-open ledger | `LedgerAssumption` (finitely many requests, a day has a tick or more) | `DailyBudgetKept`, `DecisionsHoldLeases`, `DecisionsAreFinal` |
| maintenance | `MaintenanceAssumption` (the bounds are numbers) | `RestoreKeepsADatabase` |
| session board | `BoardAssumption` (a lane's job is not the CTS run's) | `PageIsCurrent` |
| logins | `LoginAssumption` (finitely many requests in flight, a lockout limit above zero) | `LoginTypeOK`, `NewestLoginHolds`, `TokenFitsSession`, `GuessesAreBounded` |
| triage | as for the store, and `CriteriaAssumption` (empty criteria are nobody's edit) | `TriageIsKept`; triage implements the store |
| `LiepinCallsProofs` | `CallAssumption` (finitely many candidates, orders are sequences of them), `AccountAssumption` (a connection's own hash is an account) | `LiepinTypeOK`, `DatabasesAgree`, `CallsUseApprovedAccount`, `ViewsAreAccounted` |
| `OpenCliSearchProofs` | `SearchAssumption` (a query is told from what else a tab shows) | `SearchTypes`, `OpenTabsAreLeased`, `CardsAreOfTheQuery`, `ActsOnSeenTab` |
| `RetrievalLoopProofs` | `RetrievalAssumption` (one or two lanes of different types, finitely many candidates, limits above zero) | `ReturnsAreAccounted`; a search implements `RoundSearch` (`RoundSearchKept`) |
| `RuntimeRunProofs` | `PoolAssumption` (what `compile_query_term_pool` guarantees, which is not that titles have different families; and ranks without ties), `StrengthAssumption` (thresholds in their order), `RunAssumption` (rounds, finitely many resumes, orders without ties) | `StoresTellTheRun`, `RuntimeTypeOK`, `StopIsEarned`, `PoolIsFair`, `RoundsAreSound` |
| `RunRecordsProofs` | `RecordsAssumption` (rounds send sequences of queries with known terms, arrivals are of queries that were sent and of known resumes) | `ManifestsTellTheTree`, `WellFormedRecords`, `JudgedAreLabelled` |

### The store and its contract

`StoreInv` adds `JobRowsAgree` to the checked properties. That a completion keeps
`RunMirrorsJob` needs `OneActiveJob` (no other active job of the run is left
behind); that a late completion is refused needs the job's status to be terminal
once its run is (`RunMirrorsJob`); that the completed run has a persisted job
survives a later start only because a job row never loses its run (`JobRowsAgree`).
The proof goes method by method. `JobsUntouched` disposes of session, triage and
connection methods at once: a step that leaves the jobs alone and moves only runs
without an active job keeps the invariant. `FinishInv` covers everything that ends a
worker's job, and claim, start and reconciliation have a lemma each. `RunEndsOnce`
follows from `RunOfActiveJob`: every method that sets a run's status acts on an
active job, or checks the status itself.

The refinement proof shows for each method which contract action it is
(`StartJobEnqueues`, `ClaimBegins`, `CompletionDelivers`, `MarkFailedGivesUp`,
`ReconcileGivesUp`), and `QuietStep` that all others are stutters. The
reconciliation may give up several runs in one step, which is why the contract's
`GiveUp` takes a set.

### The process

`RunnerImplementsStore` carries the theorems of the store over to the program: a
step of a thread, a heartbeat, a request or a restart is a method of the store on
the job it holds, or leaves the store alone. For this a thread that executes must
hold a job (`ThreadsHoldJobs`), or a completion would have none to complete. That no
run has two workers (`OneWorkerPerRun`) then follows from the store's `OneActiveJob`
once no two threads hold one job, which needs a claim to choose a job nobody was
given (`JobsStayClaimed`). `LanesBounded` counts a finite set of threads across the
loop of `wake`.

### Triage and notes

An approval covers the criteria because every writer but the approval itself moves
the status away from approved, and the approval is refused when there is nothing to
approve (`BlankMeansNone`). One extraction per session needs registry and threads to
name each other exactly (`RegistryIsExact`): a thread that ends removes the entry
that names it, and a start that finds a live entry begins none.

`NoNoteTwice` rests on the store's own look at the idempotency key as it appends.
The lease plays no part in the proof, and could not: it runs out under slow calls.

### The detail-open ledger

`LedgerInv` ties each request to its ledger row. The budget survives stale clocks
because the transaction counts the views of the day it is about to charge
(`UsedOn`), and reconciliation only releases rows of requests it decides. That a
decision is final follows from the same tie: a decided request holds its row, and
every decision begins with a request that is still pending.

### The Liepin account

Nothing in a probe looks at the gate before it approves it. That it never approves
a second account follows from what each request read before it had to wait
(`RequestsAreOfTheRow`), from the rows naming only accounts somebody can sign in to
(`TablesNameAccounts`), and from one handler at a time writing the provider store
(`OneHolds`). `DatabasesAgree` holds even between the two transactions of a route;
an approved gate keeps its account, and with it every call that passed its check
(`CallsUseApprovedAccount`).

`ViewsAreAccounted` needs to know how far a call is with its items
(`ItemsAreHandled`): while it starts, the handled ones are started and its own; while
it applies results or gives up, those before the current one are final, the current
one is where the results applied so far leave it, and those after it are started.
So a call that raises over a result has only that one and the ones behind it open,
and `OpenedAreItems` carries this to the calls that ended. Giving up never raises, as
`unknown` is allowed after `started`; and a second call that was given the same
reservation fails where it starts the attempt, before it sends anything.

### Login sessions

`NewestLoginHolds` is kept by one transaction that revokes what was open and inserts
the new session. The token needs more: no session is referred to from two browsers
(`OneBrowserPerSession`), by a cookie or by a request, and the one request of a
browser is for the browser's session and carries the token the row has, unless the
session was revoked meanwhile (`AnswersFit`). The lockout reads the failures before a
password is judged and records it after, so the bound is on recorded failures and
passwords judged wrong and not recorded yet, together (`GuessesInFlight`): checking
the lock adds to the second only when the first is below the limit, and recording
moves one from the second to the first.

### Backups and restores

`FilesInv` follows the files through a restore. `RestorePhase` says, for each step,
where the rows of the original and of the backup are: with the log still beside the
main file, in quarantine, half moved, or replaced by the copy; and for each step of
the undoing, from which step the error came (`command.failed`), as the same clause
runs with different files in place. `AtWork` keeps the server and a restore apart.
Files are told apart by their identity, so a log never counts beside a file it was
not written for; that every identity in use is one already given out
(`EveryFile`) makes a new file nobody's.

### The session page

`PageIsCurrent` is about a page that has handled every event. `ReadIsCurrent` goes
one step further back: unless an event is still ahead or a change told nobody, what
a request has read *so far* is as the tables are now. Every store method that
changes a table the page shows appends an event, which puts it ahead of the page, or
is one of the two the property names; every step of the page keeps the rest.

### The browser

`SearchTypes` says which program a helper is in the middle of. From it,
`OpenTabsAreLeased` is nearly inductive: a tab is opened, selected and leased by one
program, a killed helper's tab is in `stray`, and a lease is dropped with its tab.
The other two need what a call that has the session to itself finds (`Seeing`):
between two commands of a search the selected tab is its own, shows the form until
the click and then its query or nothing (`SearchSees`); a fill or click not yet done
goes to the tab that was seen (`CallSees`); and a gate that is ready has seen the
selected tab, with nothing on its way that would leave it (`GateSees`), which is what
a call that overlaps breaks. Each step is looked at twice, for the call that takes it
and for all others: to those it is invisible, or they are no longer `alone`.

### A round's search

`RetrievalInv` has five parts. `SearchTyped` says what a call and a dispatch are at
each stage. `NewInHand`: nobody held was counted by an earlier call; what makes the filter
of a page enough is that within a dispatch only it adds anybody, and that a plan
without several cities has one dispatch in a call.
`ReturnsOnRecord`: what is in hand is pending or recorded, so a score finds it
recorded. `FruitlessPass`: a refill pass without progress has passed only lanes that
may not be asked again, so its end means exhaustion. `NeverTooMany`: shares and
targets add up; a queue of dispatches has `p` that want `q + 1` and the rest `q`,
which with what is in hand is at most what the call wants, and the calls to come
want at most the gap. For the refinement, the end of a collection is `Gather` or a
stutter, the end of the last pass is `Return`, and an error is `Break`.

### A run

*Stores.* `StoresInv` needs to know only which steps touch the stores
(`FrameStep`): all others are of one kind. A run that works has all three rows
running, so a closing step finds what the status promises.

*Stops.* `RunInv` (`LocalsTypeOK`, `LaneTypeOK`, `RunShape`, `RoundsCounted`,
`PoolsKept`) says what the counters the gate reads mean at each stage. The gate's
answer `allowed` then means what `StopIsEarned` says (`GateMeaning`), and a rescue
lane not yet used would have been chosen before the stop.

*Fairness of the shortlist.* A finite set under a key without ties has a first
element and ranks without gaps (`RankIsBijection`); the first `k` by rank are `k` or
all, and hold everybody ahead of one of them. Over several sources the best card of
each person is ranked, and a bijection from people to their best cards carries the
count over.

*Queries.* `PlansKept` says that the pool always has an active anchor and another
active term, that the plan of a decision is accepted, and that where the gate wants
a new term the plan sends one or leaves room for a second query that does. Every way
a decision can go (the controller's own query, the reserve family, feedback, the
anchor alone, the query in place of a refused stop) ends in the anchor alone or with
one or two other terms, and each form is accepted (`GoodPlan`). There is a query in
place of a refused stop except in round 1 of a pool with two titles of one name
(`SelectIs`, `TitleTwins`), where the decision fails the run. The second query is
the least of all combinations under a key of four numbers; such a least one exists
and, if an active term is unsent, contains one (`ExploreIs`). That the anchor may be
moved to the front of an accepted query and it stays accepted is `CanonicalIs`.

### The records of runs and exports

A process of `RunRecords` walks a script, a concatenation whose length depends on
its rounds, queries and resumes. The proof first reads the scripts
(`ScriptsAreLaid`): a piece *fits* (`Fit`) when each of its calls finds what it
needs among the calls before it, `Prepared` says what that is for each kind of call
(a hit its query row, a label the snapshots of the shortlist, a document its payload,
reference and subject, and so on), and fitting pieces join to fitting scripts
(`FitJoin`, `FitFlatten`). A concatenation of any number of pieces is taken apart
by a least counterexample over the numbers (`LeastNat`), not by induction over
sequences, and `CorpusCalls` is written with a piece for every arrival for that.

`RecordsHold` is the inductive invariant. `Trail` says that what the calls of a
script up to the present one leave behind is in the tables, until the run closes:
a run that fails in a round goes straight to its closing and never makes the calls
in between, and the closing refers to none of them. With the script laid out this
gives each call the rows it refers to (`Ready`), and since keys are only added
(`FlyGrows`, `CorGrows`) no other process can take them away. `MemoryHolds` relates
what a process read earlier to the tables. `VerdictHolds` says that a verdict is for
a resume with a stored label, or one judged just now whose label is the next call;
`JudgedHolds` that an outcome is counted only after the last hit of its run was
written, so that later hits cannot change it. For the files, `LockHolds` says that
what a process read of the index under the lock is still what the index holds, and
`OwnRoot` that a run's own session never names the outputs an evaluation moves in
and a failure takes away.

### Left to TLC

Liveness under fairness (`RunningJobsEnd`, `RetriedStartsSucceed`, `EveryRunEnds`)
and `ENABLED` are out of the prover's reach. Of `RunRecords`,
`FilesTellTheTables` and `CollectionsAreWhole` are model-checked. The first equates
each file of a completed run with the rows of its tables, which takes an invariant
over the whole content of the files between the call that reads and the end of the
run. The second holds of one dataset export beside runs, as in the run that checks
it, and not for every choice of roles: a sample row is keyed by task and query, so a
later export replaces the row of an earlier one when another run sent the same query.
No module declares a `RECURSIVE` operator.

## 7. Not modelled

* **Legacy run registry** (`server.py:89`): runs in memory, one thread each, every
  record under a lock; nothing persistent and nothing shared between runs.
* **Retention, purge and readiness reports** of `maintenance.py`: one transaction
  each on a database whose server is stopped.
* **Applying an approved detail lane to a finished run**
  (`orchestrator.py:425-480`): only tests call it. The evidence lists behind an
  identity, which only that would read, are left out with it.
* **Language models**: what a valid answer says is arbitrary wherever it enters. The
  exact-match cache of answers and the cache of scorecards are left out, as a hit
  is one of the answers a call may give.
* **Text**: the phrases found in resumes, filters, fingerprints, what a page's text
  means, notes, and all wording.
* **Progress events and the commentary on a round**, whose errors are swallowed, and
  the lane events a bridge makes up when its runtime sent none.
* **The rest of the command line, the TUI and the front ends**: the environment that
  sends requests. `apps/liepin-worker` is modelled where the Python side meets it.
* **Trace contents, snapshots of model calls, database migrations**: nothing reads
  them back while a run is going on.
* **Of the records**: the references to `artifact_ref` rows (`flywheel/store.py:119`,
  `155`, `259`), which are null until a run's closing records the reference and then
  attaches it (`flywheel/runtime.py:78-87`), and the table `corpus_collections`
  (`corpus/runtime.py:23`), whose one row per workspace is written before anything
  else of a batch or an export.
* **Of the logins**: an answer that is lost after `rotate_session_csrf` has committed;
  `RequestFails` fails before it.

## 8. Running the checks

    tlc -workers 2 -config MCSourceRuns.cfg MCSourceRuns
    tlapm SourceRunsProofs.tla

and likewise for every run of `PROJECT.json` and every module of section 6.
`workbench_parts` and `runtime_run` take the longest of the runs (some minutes),
`WorkbenchPartsProofs`, `RunRecordsProofs`, `RuntimeRunProofs` and `LiepinCallsProofs`
the longest of the proofs.
