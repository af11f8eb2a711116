---------------------------- MODULE SessionBoard ----------------------------
(***************************************************************************)
(* What a recruiter sees of one session: the columns of its two source     *)
(* runs, the latest state of each Liepin lane, the review items, the       *)
(* session's events, and a page that follows the event stream and reads    *)
(* the tables again whenever an event arrives.  SourceRuns models the jobs *)
(* in full; here they are kept to what the page can tell apart.            *)
(*                                                                         *)
(* Every transaction appends its events before it commits, so one entry of *)
(* events stands for all of a transaction's.  A lane's id is made from its *)
(* job's id, which is random: which job of LaneJob a start takes is open.  *)
(***************************************************************************)
EXTENDS Naturals, Sequences, SequencesExt, FiniteSetsExt

CONSTANTS LaneJob,    \* jobs the Liepin run may use, numbers in the order of their ids
          Item,       \* candidates a run may find, each with its evidence
          SourceOf,   \* the kind of the run that finds an item
          KeysOf,     \* identity keys of an item
          BoardQuotas \* bounds, one set of them for a behaviour: the jobs that may be
                      \* used up, the recruiter's decisions, and the lost streams,
                      \* reloads, failed requests and probes without a login

\* A lane's job is not the CTS run's, and a behaviour has a number of each thing.
ASSUME BoardAssumption ==
    /\ 0 \notin LaneJob
    /\ \A q \in BoardQuotas : q.reviews \in Nat /\ q.faults \in Nat

Kind == {"cts", "liepin"}
CtsJob == 0
AnyJob == LaneJob \cup {CtsJob}
NoLane == [seq |-> 0, status |-> "no lane"]

VARIABLES
    run,     \* source_runs: status, auth_state and warning_code
    linked,  \* is runtime_run_id of the CTS run set?
    job,     \* source_run_jobs.status; "ended" is completed or failed
    lane,    \* runtime_source_lane_latest_state by job
    items,   \* candidate_review_items: review_status of those that exist
    events,  \* session_events: does an event name the session?
    page,    \* the browser: its stream, its last event id and its query
    reading, \* what the query's request has read, what is shown when none is under way
    shown,   \* what the page shows
    untold,  \* did a change that no event of the session tells follow the last request?
    reviews, mishaps \* how many the quota leaves

boardStoreVars == <<run, linked, job, lane, items, events>>
pageVars == <<page, reading, shown>>
boardVars == <<boardStoreVars, pageVars, untold, reviews, mishaps>>

Tables == [run |-> run, linked |-> linked, lane |-> lane, items |-> items]

BoardTypeOK ==
    /\ run \in [Kind -> [status : {"queued", "blocked", "running", "completed", "failed"},
                         auth : {"not_required", "login_required"},
                         warning : {"none", "login", "blocked", "partial", "failed"}]]
    /\ linked \in BOOLEAN /\ untold \in BOOLEAN
    /\ job \in [AnyJob -> {"never", "absent", "queued", "running", "ended"}]
    /\ lane \in [LaneJob -> {NoLane} \cup
                   [seq : 1..2, status : {"completed", "partial", "blocked"}]]
    /\ DOMAIN items \subseteq Item
    /\ \A i \in DOMAIN items : items[i] \in {"new", "promising", "rejected"}
    /\ events \in Seq({"session", "no session"})
    /\ page.open \in BOOLEAN /\ page.at \in 0..Len(events)
    /\ page.query \in {"idle", "asked", "half", "read", "failed"}
    /\ reviews \in Nat /\ mishaps \in Nat

BoardInit ==
    /\ run = [k \in Kind |-> [status |-> "queued", auth |-> "not_required", warning |-> "none"]]
    /\ linked = FALSE
    /\ \E q \in BoardQuotas :
           /\ job = [j \in AnyJob |-> IF j \in q.jobs THEN "absent" ELSE "never"]
           /\ reviews = q.reviews /\ mishaps = q.faults
    /\ lane = [j \in LaneJob |-> NoLane]
    /\ items = <<>>
    /\ events = <<>>
    /\ page = [open |-> TRUE, at |-> 0, query |-> "asked"]
    /\ reading = Tables /\ shown = Tables
    /\ untold = FALSE

----------------------------------------------------------------------------
(* What the routes make of the tables.                                     *)

\* latest_by_source: the last row in the order of the lanes' ids wins.
LatestLane(t) ==
    LET known == {j \in LaneJob : t.lane[j] # NoLane}
    IN  IF known = {} THEN NoLane ELSE t.lane[Max(known)]

\* The status of a source: its lane's, and without a lane its run's.
SourceStatus(t, k) ==
    LET status == IF k = "liepin" /\ LatestLane(t) # NoLane THEN LatestLane(t).status
                  ELSE t.run[k].status
    IN  IF status = "queued" THEN "pending" ELSE status

Coverage(t) ==
    LET statuses == {SourceStatus(t, k) : k \in Kind}
    IN  CASE statuses \cap {"running", "pending"} # {} \/
             \E k \in Kind : t.run[k].status = "queued" -> "pending"
          [] statuses = {"completed"} -> IF DOMAIN t.items # {} THEN "complete" ELSE "empty"
          [] OTHER -> "degraded"

\* A row of the shortlist: the items that identity keys connect.  One more item
\* joins the rows it shares a key with into one.
AddToRows(i, rows) ==
    LET met == {row \in rows : \E o \in row : KeysOf[o] \cap KeysOf[i] # {}}
    IN  (rows \ met) \cup {(UNION met) \cup {i}}
ShortlistRows(t) == FoldSet(AddToRows, {}, DOMAIN t.items)

View(t) == [sources |-> [k \in Kind |-> SourceStatus(t, k)], coverage |-> Coverage(t),
            rows |-> ShortlistRows(t), reviews |-> t.items, rounds |-> t.linked]

----------------------------------------------------------------------------
(* Events, lanes and items.                                                *)

\* An event of the session, and one that names none: the session's stream skips it.
Tell == events' = Append(events, "session") /\ UNCHANGED untold
TellNobodyHere == events' = Append(events, "no session") /\ untold' = TRUE

\* A lane event replaces the lane's row unless the row is of a later event.
AfterEvent(row, e) == IF row.seq > e.seq THEN row ELSE e

\* The events of a card lane: its end and, when details are worth opening, a second
\* event that is "completed" whatever the lane's own status.
LaneEvents(status, recommends) ==
    LET end == [seq |-> 1, status |-> status]
    IN  IF recommends THEN <<end, [seq |-> 2, status |-> "completed"]>> ELSE <<end>>

\* The row once the events of a lane are appended, one after the other.
AfterEvents(row, es) ==
    LET first == AfterEvent(row, es[1])
    IN  IF Len(es) = 1 THEN first ELSE AfterEvent(first, es[2])

\* Items found: the upsert keeps the review status of a row that exists.
WithFound(found) ==
    [i \in DOMAIN items \cup found |-> IF i \in DOMAIN items THEN items[i] ELSE "new"]

Found(k) == {S \in SUBSET Item : \A i \in S : SourceOf[i] = k}

----------------------------------------------------------------------------
(* The store, as the routes and the job runner call it.                    *)

HasBoardJob(k) ==
    \E j \in IF k = "cts" THEN {CtsJob} ELSE LaneJob : job[j] \in {"queued", "running"}

KindOf(j) == IF j = CtsJob THEN "cts" ELSE "liepin"

StartRun(j) ==
    LET k == KindOf(j) IN
    /\ job[j] = "absent" /\ ~HasBoardJob(k)
    /\ run[k].status \in {"queued", "blocked"}
    /\ job' = [job EXCEPT ![j] = "queued"]
    /\ run' = [run EXCEPT ![k] = [status |-> "queued", auth |-> "not_required", warning |-> "none"]]
    /\ Tell
    /\ UNCHANGED <<linked, lane, items, pageVars, reviews, mishaps>>

ClaimJob(j) ==
    /\ job[j] = "queued"
    /\ job' = [job EXCEPT ![j] = "running"]
    /\ run' = [run EXCEPT ![KindOf(j)].status = "running"]
    /\ Tell
    /\ UNCHANGED <<linked, lane, items, pageVars, reviews, mishaps>>

\* runtime_start_callback: no event tells that the run's rounds can now be shown.
AttachRuntime ==
    /\ job[CtsJob] \in {"running", "ended"} /\ ~linked
    /\ linked' = TRUE
    /\ untold' = TRUE
    /\ UNCHANGED <<run, job, lane, items, events, pageVars, reviews, mishaps>>

EndRun(j, status, warning) ==
    /\ job' = [job EXCEPT ![j] = "ended"]
    /\ run' = [run EXCEPT ![KindOf(j)].status = status, ![KindOf(j)].warning = warning]

\* A worker's exception or an expired lease.
FailJob(j) ==
    /\ job[j] = "running"
    /\ EndRun(j, "failed", "failed")
    /\ Tell
    /\ UNCHANGED <<linked, lane, items, pageVars, reviews, mishaps>>

CompleteCtsRun ==
    /\ job[CtsJob] = "running"
    /\ \E found \in Found("cts") : items' = WithFound(found)
    /\ linked' = TRUE
    /\ EndRun(CtsJob, "completed", "none")
    /\ Tell
    /\ UNCHANGED <<lane, pageVars, reviews, mishaps>>

\* A blocked lane brings no cards; details are recommended of cards it brings.
CompleteLane(j) ==
    /\ job[j] = "running"
    /\ \E status \in {"completed", "partial", "blocked"}, found \in Found("liepin"),
          recommends \in BOOLEAN :
          /\ status = "blocked" => found = {}
          /\ recommends => found # {}
          /\ items' = WithFound(found)
          /\ lane' = [lane EXCEPT ![j] = AfterEvents(@, LaneEvents(status, recommends))]
          /\ CASE status = "blocked" -> EndRun(j, "blocked", "blocked")
               [] status = "partial" -> EndRun(j, "completed", "partial")
               [] OTHER -> EndRun(j, "completed", "none")
    /\ Tell
    /\ UNCHANGED <<linked, pageVars, reviews, mishaps>>

\* A start probe that finds no login.
BlockBoardForProbe ==
    /\ run["liepin"].status \in {"queued", "blocked"} /\ ~HasBoardJob("liepin")
    /\ mishaps > 0 /\ mishaps' = mishaps - 1
    /\ run' = [run EXCEPT !["liepin"] =
                  [status |-> "blocked", auth |-> "login_required", warning |-> "login"]]
    /\ Tell
    /\ UNCHANGED <<linked, job, lane, items, pageVars, reviews>>

\* A login completed outside the session: its event names no session.
MarkBoardConnected ==
    /\ run["liepin"].status = "blocked" /\ run["liepin"].auth = "login_required"
    /\ run' = [run EXCEPT !["liepin"] =
                  [status |-> "queued", auth |-> "not_required", warning |-> "none"]]
    /\ TellNobodyHere
    /\ UNCHANGED <<linked, job, lane, items, pageVars, reviews, mishaps>>

\* update_candidate_review_item; an update that changes nothing tells nobody.
Review(i) ==
    /\ i \in DOMAIN items
    /\ reviews > 0 /\ reviews' = reviews - 1
    /\ \E status \in {"promising", "rejected"} \ {items[i]} : items' = [items EXCEPT ![i] = status]
    /\ Tell
    /\ UNCHANGED <<run, linked, job, lane, pageVars, mishaps>>

----------------------------------------------------------------------------
(* The page.                                                               *)

\* invalidateQueries: the query asks again and drops an answer under way.
AskTables(p) == page' = [p EXCEPT !.query = "asked"] /\ reading' = shown /\ untold' = FALSE

\* The next event of the session after the page's last one.  It arrives as two frames
\* with one id; the page listens to the first, and either one is its last event id.
NextEvent == SelectInSubSeq(events, page.at + 1, Len(events), LAMBDA scope : scope = "session")

ReceiveEvent ==
    /\ page.open /\ NextEvent # 0
    /\ AskTables([page EXCEPT !.at = NextEvent])
    /\ UNCHANGED <<boardStoreVars, shown, reviews, mishaps>>

\* The stream is lost: the browser reports an error and asks again.
LoseStream ==
    /\ page.open
    /\ mishaps > 0 /\ mishaps' = mishaps - 1
    /\ AskTables([page EXCEPT !.open = FALSE])
    /\ UNCHANGED <<boardStoreVars, shown, reviews>>

\* Wrong variant: a stream opened again starts with the events to come.
ReopenAtTheEnd ==
    /\ ~page.open
    /\ page' = [page EXCEPT !.open = TRUE, !.at = Len(events)]
    /\ UNCHANGED <<boardStoreVars, reading, shown, untold, reviews, mishaps>>

\* The browser connects again and sends Last-Event-ID.
Reopen ==
    /\ ~page.open
    /\ page' = [page EXCEPT !.open = TRUE]
    /\ UNCHANGED <<boardStoreVars, reading, shown, untold, reviews, mishaps>>

\* A page opened afresh reads the tables and the events from the first one.
Reload ==
    /\ mishaps > 0 /\ mishaps' = mishaps - 1
    /\ AskTables([page EXCEPT !.open = TRUE, !.at = 0])
    /\ UNCHANGED <<boardStoreVars, shown, reviews>>

\* The route reads the session and then, in a second connection, items and lanes.
ReadSession ==
    /\ page.query = "asked"
    /\ page' = [page EXCEPT !.query = "half"]
    /\ reading' = [Tables EXCEPT !.lane = shown.lane, !.items = shown.items]
    /\ UNCHANGED <<boardStoreVars, shown, untold, reviews, mishaps>>

ReadLanes ==
    /\ page.query = "half"
    /\ page' = [page EXCEPT !.query = "read"]
    /\ reading' = [reading EXCEPT !.lane = lane, !.items = items]
    /\ UNCHANGED <<boardStoreVars, shown, untold, reviews, mishaps>>

Show ==
    /\ page.query = "read"
    /\ page' = [page EXCEPT !.query = "idle"]
    /\ shown' = reading
    /\ UNCHANGED <<boardStoreVars, reading, untold, reviews, mishaps>>

\* A request fails and is not sent again: the page says so.
FailRequest ==
    /\ page.query \in {"asked", "half", "read"}
    /\ mishaps > 0 /\ mishaps' = mishaps - 1
    /\ page' = [page EXCEPT !.query = "failed"]
    /\ reading' = shown
    /\ UNCHANGED <<boardStoreVars, shown, untold, reviews>>

BoardNext ==
    \/ \E j \in AnyJob : StartRun(j) \/ ClaimJob(j) \/ FailJob(j)
    \/ AttachRuntime \/ CompleteCtsRun \/ \E j \in LaneJob : CompleteLane(j)
    \/ BlockBoardForProbe \/ MarkBoardConnected \/ \E i \in Item : Review(i)
    \/ ReceiveEvent \/ LoseStream \/ Reopen \/ Reload
    \/ ReadSession \/ ReadLanes \/ Show \/ FailRequest

BoardSpec == BoardInit /\ [][BoardNext]_boardVars

----------------------------------------------------------------------------
\* An open page that has handled every event of its session and whose query is answered
\* shows the tables as they are, however reads, events and lost streams interleave.  Two
\* changes stay unseen, as no event of the session tells them: a login completed outside
\* the session that unblocks its run, and the link to a runtime run.
PageIsCurrent ==
    /\ BoardTypeOK
    /\ page.open /\ NextEvent = 0 /\ page.query = "idle" /\ ~untold => View(shown) = View(Tables)

\* The design of the source display: "partial Liepin results must remain visibly partial
\* even if the source-run job itself has finished."
PartialStaysVisible ==
    run["liepin"].warning = "partial" => SourceStatus(Tables, "liepin") = "partial"
=============================================================================
