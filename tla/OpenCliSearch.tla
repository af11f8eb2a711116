---------------------------- MODULE OpenCliSearch ----------------------------
(***************************************************************************)
(* Card searches through a Pi agent and OpenCLI.  A request starts a Pi    *)
(* process; the model in it calls tools; an extension of Pi gates them and *)
(* runs each in a helper process, several at once if they are called so;   *)
(* helpers drive the one browser session there is, command by command.  A  *)
(* lease file names the tab to be closed once nothing touches it, by       *)
(* watcher processes that outlive everything.                              *)
(*                                                                         *)
(* Pi, its model, OpenCLI and the pages are not code of the repository:    *)
(* the model calls any tool in any order, and every command may fail.      *)
(* find, get_url, wait_time and scroll change nothing a search depends on. *)
(***************************************************************************)
EXTENDS Naturals, Sequences

CONSTANTS
    CardRequest, \* searches asked for, one after the other
    Call,        \* the helper processes there may be at once
    CallerOf,    \* the request whose Pi process runs each
    Query,       \* keyword queries
    QueryOf,     \* the query of each request
    Page,        \* tabs, by page id
    MaxActions,  \* SEEKTALENT_LIEPIN_OPENCLI_MAX_ACTIONS_PER_TASK
    SearchQuotas, \* bounds: how many and which tools a request calls, how many at once; faults
    NoPage, NoQuery

\* A query is told from what else a tab shows.
ASSUME SearchAssumption ==
    /\ NoPage \notin Page /\ NoQuery \notin Query /\ MaxActions \in Nat
    /\ Query \cap {"unborn", "form", "stop", "closed"} = {}
    /\ QueryOf \in [CardRequest -> Query] /\ CallerOf \in [Call -> CardRequest]
    /\ \A q \in SearchQuotas : q.tools \in [CardRequest -> Nat] /\ q.calls \subseteq Call /\ q.faults \in Nat

VARIABLES
    face,      \* what each tab shows; the results of a query are the query
    typed,     \* what is in its search box
    selected,  \* the tab of the session
    tabLease,  \* the lease file
    watcher,   \* the watcher launched with each tab, and the tab it will close
    request,   \* the caller's side of each request
    gate,      \* the extension's terminalReason, stateReady and actionCount
    helper,    \* the helper processes
    envelope,  \* the last envelope among the events of the Pi process
    stray,     \* history: tabs whose lease was lost to another one
    seen,      \* history: the tab a Pi process observed since it last acted
    quota,     \* the bounds of this behaviour
    troubles   \* errors, kills, hard stops and tabs closed by hand

tabVars == <<face, typed, selected>>
leaseVars == <<tabLease, watcher, stray>>
agentVars == <<request, gate, envelope>>
searchVars == <<tabVars, leaseVars, agentVars, helper, seen, quota, troubles>>

Tool == {"search", "open", "state", "fill", "click"}
Mutating == {"fill", "click"}
\* All but an observation select a tab or change what it shows.
Moving == Tool \ {"state"}

\* The browser commands of a tool.
Program(tool) ==
    CASE tool = "search" -> <<"new", "select", "lease", "look", "fill", "click", "read">>
      [] tool = "open"   -> <<"new", "select", "lease">>
      [] tool = "state"  -> <<"read">>
      [] OTHER           -> <<tool>>

NoTabLease == [page |-> NoPage, quiet |-> FALSE]
\* alone (history): no call that moves the session overlapped with it, and the
\* selected tab was not closed meanwhile.
NoHelper == [tool |-> "none", text |-> NoQuery, todo |-> <<>>, page |-> NoPage,
             copy |-> NoTabLease, touching |-> FALSE, read |-> NoQuery, alone |-> TRUE]
NewGate == [stop |-> FALSE, ready |-> FALSE, count |-> 0]
NewRequest == [step |-> "new", attempt |-> 1, tools |-> 0, result |-> "none", cards |-> NoQuery,
               alone |-> TRUE]
NoEnvelope == [status |-> "none", query |-> NoQuery, cards |-> NoQuery, alone |-> TRUE]
NothingSeen == [page |-> NoPage, alone |-> TRUE]

SearchInit ==
    /\ face = [p \in Page |-> "unborn"] /\ typed = [p \in Page |-> NoQuery] /\ selected = NoPage
    /\ tabLease = NoTabLease /\ watcher = [p \in Page |-> [step |-> "none", page |-> NoPage]]
    /\ request = [r \in CardRequest |-> NewRequest]
    /\ gate = [r \in CardRequest |-> NewGate]
    /\ helper = [k \in Call |-> NoHelper]
    /\ envelope = [r \in CardRequest |-> NoEnvelope]
    /\ stray = {} /\ seen = [r \in CardRequest |-> NothingSeen]
    /\ quota \in SearchQuotas /\ troubles = 0

Open(p) == p # NoPage /\ face[p] \notin {"unborn", "closed"}
Running(k) == helper[k].tool # "none"
CallsOf(r) == {k \in Call : CallerOf[k] = r /\ Running(k)}
Fault == troubles < quota.faults /\ troubles' = troubles + 1
Asking(r) == request[r].step = "asking"
Heard(k) == Asking(CallerOf[k])
Doing(k, command) ==
    ~helper[k].touching /\ helper[k].todo # <<>> /\ Head(helper[k].todo) = command

----------------------------------------------------------------------------
(* The request: search_cards, run_json_task_result and the Pi process.     *)

AskCards(r) ==
    /\ request[r].step = "new" /\ quota.tools[r] > 0 /\ \A q \in CardRequest : ~Asking(q)
    /\ request' = [request EXCEPT ![r].step = "asking"]
    /\ UNCHANGED <<tabVars, leaseVars, gate, envelope, helper, seen, troubles>>

\* An answer without cards.
Said(what) == [result |-> what, cards |-> NoQuery, alone |-> TRUE]

\* Wrong variant: whatever envelope there is counts.
AnswerToAny(e, q) == [result |-> e.status, cards |-> e.cards, alone |-> e.alone]

\* _validate_card_envelope and what becomes of the result.
AnswerTo(e, q) ==
    IF e.query = q THEN [result |-> e.status, cards |-> e.cards, alone |-> e.alone] ELSE Said("failed")

PiIsNew(r) == /\ gate' = [gate EXCEPT ![r] = NewGate]
              /\ envelope' = [envelope EXCEPT ![r] = NoEnvelope]
              /\ seen' = [seen EXCEPT ![r] = NothingSeen]

\* The Pi process goes with its gate and its events.
Answered(r, a) ==
    /\ request' = [request EXCEPT ![r] = [NewRequest EXCEPT !.step = "done", !.result = a.result,
                                                            !.cards = a.cards, !.alone = a.alone]]
    /\ PiIsNew(r)

\* agent_end, when every call has its answer.  Without an envelope of the tool the model's last words count, which may
\* be no JSON: then Pi is asked once more.
AgentEnds(r) ==
    /\ Asking(r) /\ CallsOf(r) = {}
    /\ \/ /\ envelope[r] # NoEnvelope
          /\ Answered(r, AnswerTo(envelope[r], QueryOf[r]))
       \/ /\ envelope[r] = NoEnvelope
          /\ \E said \in {"own words", "failed"} : Answered(r, Said(said))
       \/ /\ envelope[r] = NoEnvelope /\ request[r].attempt = 1
          /\ request' = [request EXCEPT ![r].attempt = 2]
          /\ PiIsNew(r)
    /\ UNCHANGED <<tabVars, leaseVars, helper, troubles>>

\* A tab without a lease yet, when its helper goes.
Unleased(k) == IF Running(k) /\ Open(helper[k].page) /\ helper[k].todo # <<>>
                  /\ Head(helper[k].todo) \in {"select", "lease"}
               THEN {helper[k].page} ELSE {}

\* Pi exits, asks for a user or is past its deadline, and is stopped; its helpers may be
\* left behind.  What the tool had answered counts.
PiIsStopped(r) ==
    /\ Asking(r) /\ Fault
    /\ IF envelope[r] # NoEnvelope THEN Answered(r, AnswerTo(envelope[r], QueryOf[r]))
       ELSE \E said \in {"blocked", "failed"} : Answered(r, Said(said))
    /\ \E gone \in SUBSET CallsOf(r) :
          /\ helper' = [k \in Call |-> IF k \in gone THEN NoHelper ELSE helper[k]]
          /\ stray' = stray \cup UNION {Unleased(k) : k \in gone}
    /\ UNCHANGED <<tabVars, tabLease, watcher>>

----------------------------------------------------------------------------
(* The extension: runAction.                                               *)

Reset(tool) == tool \in {"open", "search"}

Opened(g, tool) == IF Reset(tool) THEN NewGate ELSE g

\* Wrong variant: an observation serves any number of actions.
PassedOften(g, tool) ==
    LET o == Opened(g, tool) IN
    IF tool = "search" THEN o ELSE [o EXCEPT !.count = @ + 1]

\* What a call that goes through leaves: it is counted, and an action uses up the state.
Passed(g, tool) ==
    LET o == Opened(g, tool) IN
    IF tool = "search" THEN o
    ELSE [o EXCEPT !.count = @ + 1, !.ready = @ /\ tool \notin Mutating]

\* A terminal reason stops everything but looking and searching, actions need a fresh
\* state, and there is a number of actions.  A call refused changes nothing here.
Passes(g, tool) ==
    LET o == Opened(g, tool) IN
    /\ tool \in {"state", "search"} \/ ~o.stop
    /\ tool \in Mutating => o.ready
    /\ tool = "search" \/ o.count < MaxActions

\* Nothing keeps a call from starting while others of its request are in flight.
Joined(k, tool) ==
    [j \in Call |-> IF tool \in Moving /\ Running(j) THEN [helper[j] EXCEPT !.alone = FALSE] ELSE helper[j]]

CallTool(k, tool, text) ==
    LET r == CallerOf[k] IN
    /\ request[r].tools < quota.tools[r] /\ tool \in quota.kinds /\ k \in quota.calls
    /\ Heard(k) /\ ~Running(k)
    /\ Passes(gate[r], tool)
    /\ request' = [request EXCEPT ![r].tools = @ + 1]
    /\ gate' = [gate EXCEPT ![r] = Passed(gate[r], tool)]
    /\ helper' = [Joined(k, tool) EXCEPT ![k] =
                     [NoHelper EXCEPT !.tool = tool, !.text = text, !.todo = Program(tool),
                                      !.alone = \A j \in Call : helper[j].tool \notin Moving]]
    /\ seen' = IF Reset(tool) THEN [seen EXCEPT ![r] = NothingSeen] ELSE seen
    /\ UNCHANGED <<tabVars, leaseVars, envelope, troubles>>

\* updateStateFromPayload, for a helper that ended well, with a terminal observation, or
\* in an error, whatever was called since it started.  Nobody hears a helper left behind.
Payload(k, end) ==
    LET h == helper[k]
        r == CallerOf[k] IN
    /\ helper' = [helper EXCEPT ![k] = NoHelper]
    /\ gate' = IF Heard(k) /\ h.tool \in {"open", "state"}
               THEN [gate EXCEPT ![r].ready = h.tool = "state" /\ end = "ok",
                                 ![r].stop = h.tool = "state" /\ end = "terminal"]
               ELSE gate
    /\ envelope' = IF Heard(k) /\ h.tool = "search" /\ end # "killed"
                   THEN [envelope EXCEPT ![r] =
                            IF end = "ok" THEN [status |-> "cards", query |-> h.text, cards |-> h.read,
                                                alone |-> h.alone]
                            ELSE [NoEnvelope EXCEPT !.status = "blocked", !.query = h.text]]
                   ELSE envelope
    /\ seen' = IF Heard(k) /\ h.tool = "state" /\ end = "ok"
               THEN [seen EXCEPT ![r] = [page |-> h.page, alone |-> h.alone]] ELSE seen

\* The timer of the extension, or too much output: the helper is killed.
KillHelper(k) ==
    /\ Heard(k) /\ Running(k) /\ Fault
    /\ Payload(k, "killed")
    /\ stray' = stray \cup Unleased(k)
    /\ UNCHANGED <<tabVars, tabLease, watcher, request>>

----------------------------------------------------------------------------
(* The helper: OpenCliBrowserRunner.                                       *)

Then(k, h) == helper' = [helper EXCEPT ![k] = h]
Done(k) == [helper[k] EXCEPT !.todo = Tail(@)]
\* A command is followed by a touch of the lease: it is read, and written back.
Touching(h) == [h EXCEPT !.touching = TRUE, !.copy = tabLease]

\* unbind and tab new.
NewTab(k) ==
    /\ Doing(k, "new")
    /\ \E p \in Page :
          /\ face[p] = "unborn" /\ \A q \in Page : q < p => face[q] # "unborn"
          /\ face' = [face EXCEPT ![p] = "form"]
          /\ Then(k, [Done(k) EXCEPT !.page = p])
    /\ UNCHANGED <<typed, selected, leaseVars, agentVars, seen, troubles>>

SelectTab(k) ==
    /\ Doing(k, "select") /\ Open(helper[k].page)
    /\ selected' = helper[k].page
    /\ Then(k, Done(k))
    /\ UNCHANGED <<face, typed, leaseVars, agentVars, seen, troubles>>

\* The lease is another tab's now; the launch of the watcher may fail, unnoticed.
Lost(page) == IF tabLease.page \in {NoPage, page} THEN {} ELSE {tabLease.page}

WriteLease(k) ==
    /\ Doing(k, "lease")
    /\ LET p == helper[k].page IN
       /\ tabLease' = [page |-> p, quiet |-> FALSE]
       /\ stray' = (stray \cup Lost(p)) \ {p}
       /\ \/ watcher' = [watcher EXCEPT ![p].step = "watching"] /\ UNCHANGED troubles
          \/ Fault /\ UNCHANGED watcher
    /\ Then(k, Done(k))
    /\ UNCHANGED <<tabVars, agentVars, seen>>

OnTab == Open(selected) /\ face[selected] # "stop"

\* state, with the wait before it; a search closes a known modal.
Look(k) ==
    /\ OnTab
    /\ \/ Doing(k, "look") /\ Then(k, Touching(Done(k)))
       \/ Doing(k, "read") /\ Then(k, Touching([Done(k) EXCEPT
                                  !.read = IF face[selected] \in Query THEN face[selected] ELSE NoQuery,
                                  !.page = selected]))
    /\ UNCHANGED <<tabVars, leaseVars, agentVars, seen, troubles>>

\* A click shows the results of what is typed, sooner or later.
Act(k) ==
    /\ OnTab
    /\ \/ Doing(k, "fill") /\ typed' = [typed EXCEPT ![selected] = helper[k].text] /\ UNCHANGED face
       \/ Doing(k, "click") /\ typed[selected] # NoQuery
          /\ face' = [face EXCEPT ![selected] = typed[selected]]
          /\ typed' = [typed EXCEPT ![selected] = NoQuery]
       \/ Doing(k, "click") /\ UNCHANGED <<face, typed>>
    /\ Then(k, Touching(Done(k)))
    /\ seen' = [seen EXCEPT ![CallerOf[k]] = [page |-> NoPage, alone |-> @.alone /\ helper[k].alone]]
    /\ UNCHANGED <<selected, leaseVars, agentVars, troubles>>

\* Without a lease there is nothing to touch; otherwise what was read is written back.
TouchLease(k) ==
    /\ helper[k].touching
    /\ LET copy == helper[k].copy IN
       IF copy = NoTabLease THEN UNCHANGED leaseVars
       ELSE /\ tabLease' = [copy EXCEPT !.quiet = FALSE]
            /\ stray' = (stray \cup Lost(copy.page)) \ {copy.page}
            /\ UNCHANGED watcher
    /\ Then(k, [helper[k] EXCEPT !.touching = FALSE, !.copy = NoTabLease])
    /\ UNCHANGED <<tabVars, agentVars, seen, troubles>>

\* The state is terminal: a search ends blocked.
TerminalState(k) ==
    /\ Doing(k, "look") \/ Doing(k, "read")
    /\ Open(selected) /\ face[selected] = "stop"
    /\ Payload(k, "terminal")
    /\ UNCHANGED <<tabVars, leaseVars, request, troubles>>

\* A command that needs its tab, or a page that lets it act.
Stuck(k) == CASE Head(helper[k].todo) = "select"                   -> ~Open(helper[k].page)
              [] Head(helper[k].todo) \in {"look", "read"}        -> ~Open(selected)
              [] Head(helper[k].todo) \in Mutating -> ~OnTab
              [] OTHER                                            -> FALSE

\* OpenCliBrowserError: a command failed or timed out.
CommandFails(k) ==
    /\ ~helper[k].touching /\ helper[k].todo # <<>>
    /\ IF Stuck(k) THEN UNCHANGED troubles ELSE Fault
    /\ Payload(k, "error")
    /\ stray' = stray \cup Unleased(k)
    /\ UNCHANGED <<tabVars, tabLease, watcher, request>>

HelperEnds(k) ==
    /\ ~helper[k].touching /\ helper[k].todo = <<>>
    /\ Payload(k, "ok")
    /\ UNCHANGED <<tabVars, leaseVars, request, troubles>>

----------------------------------------------------------------------------
(* The watchers.                                                           *)

WatchTo(w, step) == watcher' = [watcher EXCEPT ![w].step = step]
WatchEnds(w) == watcher' = [watcher EXCEPT ![w] = [step |-> "ended", page |-> NoPage]]

\* watch_idle_lease sleeps on while the lease is not idle.
Watch(w) ==
    /\ watcher[w].step = "watching"
    /\ \/ tabLease = NoTabLease /\ WatchEnds(w)
       \/ tabLease.quiet /\ WatchTo(w, "cleaning")
    /\ UNCHANGED <<tabVars, tabLease, stray, agentVars, helper, seen, troubles>>

\* cleanup_idle_lease(force=True) reads the lease again.
Clean(w) ==
    /\ watcher[w].step = "cleaning"
    /\ IF tabLease = NoTabLease THEN WatchEnds(w)
       ELSE watcher' = [watcher EXCEPT ![w] = [step |-> "closing", page |-> tabLease.page]]
    /\ UNCHANGED <<tabVars, tabLease, stray, agentVars, helper, seen, troubles>>

\* A session whose tab is closed goes on in another one, or in none.
Closed(p) ==
    /\ Open(p)
    /\ face' = [face EXCEPT ![p] = "closed"]
    /\ IF selected = p
       THEN /\ selected' \in {NoPage} \cup {q \in Page \ {p} : Open(q)}
            /\ helper' = [k \in Call |-> IF Running(k) THEN [helper[k] EXCEPT !.alone = FALSE] ELSE helper[k]]
            /\ seen' = [r \in CardRequest |-> [seen[r] EXCEPT !.alone = FALSE]]
       ELSE UNCHANGED <<selected, helper, seen>>
    /\ UNCHANGED typed

\* Wrong variant: the lease goes whether or not the tab was closed.
CloseOrForget(w) ==
    /\ watcher[w].step = "closing"
    /\ \/ Closed(watcher[w].page) /\ WatchTo(w, "deleting") /\ UNCHANGED <<tabLease, troubles>>
       \/ /\ IF Open(watcher[w].page) THEN Fault ELSE UNCHANGED troubles
          /\ tabLease' = NoTabLease /\ WatchEnds(w) /\ UNCHANGED <<tabVars, helper, seen>>
    /\ UNCHANGED <<stray, agentVars>>

\* tab close; its error ends the watcher and leaves the lease.
Close(w) ==
    /\ watcher[w].step = "closing"
    /\ \/ Closed(watcher[w].page) /\ WatchTo(w, "deleting") /\ UNCHANGED troubles
       \/ /\ IF Open(watcher[w].page) THEN Fault ELSE UNCHANGED troubles
          /\ WatchEnds(w) /\ UNCHANGED <<tabVars, helper, seen>>
    /\ UNCHANGED <<tabLease, stray, agentVars>>

\* The file is unlinked whosever lease it is by now.
DeleteLease(w) ==
    /\ watcher[w].step = "deleting"
    /\ tabLease' = NoTabLease
    /\ stray' = stray \cup Lost(watcher[w].page)
    /\ WatchEnds(w)
    /\ UNCHANGED <<tabVars, agentVars, helper, seen, troubles>>

----------------------------------------------------------------------------
(* Time, the recruiter and the pages.                                      *)

\* idle_close_seconds are more than a search spends between two touches of its lease.
LeaseGoesQuiet ==
    /\ tabLease # NoTabLease /\ ~tabLease.quiet
    /\ \A k \in Call : helper[k].tool = "search" =>
          helper[k].todo # <<>> /\ Head(helper[k].todo) \in {"new", "select", "lease"}
    /\ tabLease' = [tabLease EXCEPT !.quiet = TRUE]
    /\ UNCHANGED <<tabVars, watcher, stray, agentVars, helper, seen, troubles>>

\* The site asks for a login or a verification, and the recruiter goes through it.
PageChanges ==
    /\ Open(selected)
    /\ IF face[selected] = "stop" THEN UNCHANGED troubles ELSE Fault
    /\ face' = [face EXCEPT ![selected] = IF @ = "stop" THEN "form" ELSE "stop"]
    /\ UNCHANGED <<typed, selected, leaseVars, agentVars, helper, seen>>

ClosedByHand ==
    /\ Fault /\ \E p \in Page : Closed(p)
    /\ UNCHANGED <<leaseVars, agentVars>>

AgentStep ==
    \/ \E r \in CardRequest : AskCards(r) \/ AgentEnds(r) \/ PiIsStopped(r)
    \/ \E k \in Call :
          \/ KillHelper(k)
          \/ \E text \in Query : CallTool(k, "search", text)
          \/ \E tool \in Tool \ {"search"} :
                CallTool(k, tool, IF tool = "fill" THEN QueryOf[CallerOf[k]] ELSE NoQuery)
HelperStep ==
    \E k \in Call :
        /\ Running(k)
        /\ \/ NewTab(k) \/ SelectTab(k) \/ WriteLease(k) \/ Look(k) \/ Act(k) \/ TouchLease(k)
           \/ TerminalState(k) \/ CommandFails(k) \/ HelperEnds(k)
WatcherStep == \E w \in Page : Watch(w) \/ Clean(w) \/ Close(w) \/ DeleteLease(w)
World == LeaseGoesQuiet \/ PageChanges \/ ClosedByHand

SearchNext == (AgentStep \/ HelperStep \/ WatcherStep \/ World) /\ UNCHANGED quota

SearchSpec == SearchInit /\ [][SearchNext]_searchVars

----------------------------------------------------------------------------
Results == {"none", "cards", "blocked", "failed", "own words"}
Pages == Page \cup {NoPage}
Texts == Query \cup {NoQuery}
Leases == [page : Pages, quiet : BOOLEAN]

\* Tabs, processes and files are what they can be, and only a tab that was opened is
\* selected, leased or watched.
SessionTypeOK ==
    /\ face \in [Page -> {"unborn", "form", "stop", "closed"} \cup Query]
    /\ typed \in [Page -> Texts] /\ selected \in Pages /\ tabLease \in Leases
    /\ \A p \in Page : watcher[p].page \in Pages
    /\ \A r \in CardRequest :
          /\ request[r].result \in Results /\ request[r].cards \in Texts
          /\ request[r].tools \in 0..quota.tools[r] /\ request[r].attempt \in 1..2
          /\ gate[r].count \in 0..MaxActions /\ ~(gate[r].ready /\ gate[r].stop)
          /\ seen[r].page \in Pages
    /\ \A k \in Call : helper[k].copy \in Leases /\ helper[k].text \in Texts
    /\ \A p \in Page : face[p] = "unborn" =>
          p \notin {selected, tabLease.page} /\ watcher[p].step = "none"

\* The cards a search returns are those of its own query, or none: it works in a tab of
\* its own, and an envelope for another query is refused (search_liepin_cards,
\* _validate_card_envelope), whatever the calls before and after it did.  The exceptions
\* are a call that overlaps with it, of its own Pi process or of a helper left behind by
\* another one, and its tab closed under it: nothing of the code keeps these apart.
CardsAreOfTheQuery ==
    /\ SessionTypeOK
    /\ \A r \in CardRequest : request[r].result = "cards" /\ request[r].alone =>
          request[r].cards \in {QueryOf[r], NoQuery}

\* A fill or click acts in a tab Pi has observed, not terminal, since it last acted or
\* opened a tab (stateReady of the extension), whatever it called, lost to the timer or
\* overlapped before that observation.  An act, or an observation, that overlaps with a
\* call that moves the session is the exception: its late answer makes stateReady true of
\* a tab Pi has left.
ActsOnSeenTab ==
    \A k \in Call :
        /\ Heard(k) /\ helper[k].alone /\ seen[CallerOf[k]].alone
        /\ helper[k].tool \in Mutating /\ (Doing(k, "fill") \/ Doing(k, "click"))
        => seen[CallerOf[k]].page = selected

\* Every tab stays leased, and so will be closed, from when it is opened until it is
\* closed: a close that fails keeps the lease.  The exceptions are those of the code: the
\* next search takes the lease, a helper ends between opening and leasing, a touch or a
\* deletion hits the lease another process wrote meanwhile.
OpenTabsAreLeased ==
    \A p \in Page : Open(p) =>
        \/ tabLease.page = p
        \/ p \in stray
        \/ \E k \in Call : p \in Unleased(k)

=============================================================================
