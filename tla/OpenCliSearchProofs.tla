------------------------- MODULE OpenCliSearchProofs -------------------------
(***************************************************************************)
(* Proofs about OpenCliSearch for any requests, queries, tabs and bounds:  *)
(* the cards of a search are of its own query, Pi acts only in a tab it    *)
(* has seen since it last acted, and no open tab loses its lease but in    *)
(* the races the module names.                                             *)
(***************************************************************************)
EXTENDS OpenCliSearch, Integers, TLAPS

Shows == {"unborn", "form", "stop", "closed"} \cup Query

\* What is left of a program: of a search, of an opening, and of a single command.
ToRead == <<"read">>
ToClick == <<"click", "read">>
ToFill == <<"fill", "click", "read">>
ToLook == <<"look", "fill", "click", "read">>
ToLease == <<"lease", "look", "fill", "click", "read">>
ToSelect == <<"select", "lease", "look", "fill", "click", "read">>
ToSearch == <<"new", "select", "lease", "look", "fill", "click", "read">>
JustLease == <<"lease">>
JustSelect == <<"select", "lease">>
JustOpen == <<"new", "select", "lease">>
JustFill == <<"fill">>
JustClick == <<"click">>
AllDone == <<>>

Left(tool) ==
    CASE tool = "search" -> {ToSearch, ToSelect, ToLease, ToLook, ToFill, ToClick, ToRead, AllDone}
      [] tool = "open"   -> {JustOpen, JustSelect, JustLease, AllDone}
      [] tool = "state"  -> {ToRead, AllDone}
      [] tool = "fill"   -> {JustFill, AllDone}
      [] tool = "click"  -> {JustClick, AllDone}
      [] OTHER           -> {AllDone}
Todos == UNION {Left(tool) : tool \in Tool}

Helpers == [tool : Tool \cup {"none"}, text : Texts, todo : Todos, page : Pages, copy : Leases,
            touching : BOOLEAN, read : Texts, alone : BOOLEAN]
Gates == [stop : BOOLEAN, ready : BOOLEAN, count : Nat]
Requests == [step : {"new", "asking", "done"}, attempt : 1..2, tools : Nat, result : Results, cards : Texts,
             alone : BOOLEAN]
Envelopes == [status : {"none", "cards", "blocked"}, query : Texts, cards : Texts, alone : BOOLEAN]
Observations == [page : Pages, alone : BOOLEAN]
Watchers == [step : {"none", "watching", "cleaning", "closing", "deleting", "ended"}, page : Pages]

\* A tab that has been opened.
Born(p) == p \in Page /\ face[p] # "unborn"

TabTypes ==
    /\ face \in [Page -> Shows] /\ typed \in [Page -> Texts]
    /\ selected = NoPage \/ Born(selected)
    /\ \A p \in Page : face[p] = "unborn" => typed[p] = NoQuery
LeaseTypes ==
    /\ tabLease \in Leases /\ watcher \in [Page -> Watchers]
    /\ tabLease.page = NoPage \/ Born(tabLease.page)
    /\ \A p \in Page : watcher[p].step # "none" => Born(p)
    /\ \A p \in Page : watcher[p].step = "deleting" =>
          watcher[p].page \in Page /\ face[watcher[p].page] = "closed"
ProcessTypes ==
    /\ request \in [CardRequest -> Requests] /\ gate \in [CardRequest -> Gates]
    /\ helper \in [Call -> Helpers] /\ envelope \in [CardRequest -> Envelopes]
    /\ seen \in [CardRequest -> Observations]

\* A program that has opened its tab and not leased it yet.
Waiting == {ToSelect, ToLease, JustSelect, JustLease}
\* A helper has done part of its tool, and its tab has been opened.
HelperOK(k) ==
    /\ helper[k].todo \in Left(helper[k].tool)
    /\ helper[k].page = NoPage \/ Born(helper[k].page)
    /\ helper[k].todo \in Waiting => helper[k].page # NoPage
    /\ helper[k].copy.page = NoPage \/ Born(helper[k].copy.page)
GateOK(r) == gate[r].count \in 0..MaxActions /\ ~(gate[r].ready /\ gate[r].stop)
RequestOK(r) ==
    /\ request[r].tools \in 0..quota.tools[r]
    /\ request[r].step = "new" => gate[r] = NewGate /\ envelope[r] = NoEnvelope
    /\ request[r].step # "done" => request[r].result = "none"
AgentOK(r) == GateOK(r) /\ RequestOK(r)

\* The invariant of the types, but for the bounds.
AgentsTyped == ProcessTypes /\ (\A r \in CardRequest : AgentOK(r)) /\ (\A k \in Call : HelperOK(k))
Typed == TabTypes /\ LeaseTypes /\ AgentsTyped
SearchTypes == Typed /\ quota \in SearchQuotas

----------------------------------------------------------------------------
(* Programs.                                                               *)

LEMMA Tails ==
    /\ Head(ToSearch) = "new" /\ Tail(ToSearch) = ToSelect
    /\ Head(ToSelect) = "select" /\ Tail(ToSelect) = ToLease
    /\ Head(ToLease) = "lease" /\ Tail(ToLease) = ToLook
    /\ Head(ToLook) = "look" /\ Tail(ToLook) = ToFill
    /\ Head(ToFill) = "fill" /\ Tail(ToFill) = ToClick
    /\ Head(ToClick) = "click" /\ Tail(ToClick) = ToRead
    /\ Head(ToRead) = "read" /\ Tail(ToRead) = AllDone
    /\ Head(JustOpen) = "new" /\ Tail(JustOpen) = JustSelect
    /\ Head(JustSelect) = "select" /\ Tail(JustSelect) = JustLease
    /\ Head(JustLease) = "lease" /\ Tail(JustLease) = AllDone
    /\ Head(JustFill) = "fill" /\ Tail(JustFill) = AllDone
    /\ Head(JustClick) = "click" /\ Tail(JustClick) = AllDone
  BY DEF ToSearch, ToSelect, ToLease, ToLook, ToFill, ToClick, ToRead, JustOpen, JustSelect,
         JustLease, JustFill, JustClick, AllDone
LEMMA Apart ==
    /\ ToSearch # AllDone /\ ToSelect # AllDone /\ ToLease # AllDone /\ ToLook # AllDone
    /\ ToFill # AllDone /\ ToClick # AllDone /\ ToRead # AllDone /\ JustOpen # AllDone
    /\ JustSelect # AllDone /\ JustLease # AllDone /\ JustFill # AllDone /\ JustClick # AllDone
    /\ ToSelect # JustSelect /\ ToLease # JustLease /\ ToFill # JustFill /\ ToClick # JustClick
  BY DEF ToSearch, ToSelect, ToLease, ToLook, ToFill, ToClick, ToRead, JustOpen, JustSelect,
         JustLease, JustFill, JustClick, AllDone
\* A command that is due, and what it leaves.
LEMMA NextCommand ==
    ASSUME NEW tool \in Tool \cup {"none"}, NEW todo \in Left(tool), todo # <<>>
    PROVE  /\ Tail(todo) \in Left(tool)
           /\ Head(todo) = "new" => \/ tool = "search" /\ todo = ToSearch /\ Tail(todo) = ToSelect
                                    \/ tool = "open" /\ todo = JustOpen /\ Tail(todo) = JustSelect
           /\ Head(todo) = "select" => \/ tool = "search" /\ todo = ToSelect /\ Tail(todo) = ToLease
                                       \/ tool = "open" /\ todo = JustSelect /\ Tail(todo) = JustLease
           /\ Head(todo) = "lease" => \/ tool = "search" /\ todo = ToLease /\ Tail(todo) = ToLook
                                      \/ tool = "open" /\ todo = JustLease /\ Tail(todo) = AllDone
           /\ Head(todo) = "look" => tool = "search" /\ todo = ToLook /\ Tail(todo) = ToFill
           /\ Head(todo) = "fill" => \/ tool = "search" /\ todo = ToFill /\ Tail(todo) = ToClick
                                     \/ tool = "fill" /\ todo = JustFill /\ Tail(todo) = AllDone
           /\ Head(todo) = "click" => \/ tool = "search" /\ todo = ToClick /\ Tail(todo) = ToRead
                                      \/ tool = "click" /\ todo = JustClick /\ Tail(todo) = AllDone
           /\ Head(todo) = "read" => \/ tool = "search" /\ todo = ToRead /\ Tail(todo) = AllDone
                                     \/ tool = "state" /\ todo = ToRead /\ Tail(todo) = AllDone
  <1>1. AllDone = <<>> BY DEF AllDone
  <1> QED BY <1>1, Tails, Apart DEF Left, Tool
LEMMA Programs ==
    /\ Program("search") = ToSearch /\ Program("open") = JustOpen /\ Program("state") = ToRead
    /\ Program("fill") = JustFill /\ Program("click") = JustClick
    /\ \A tool \in Tool : Program(tool) \in Left(tool)
  <1>1. Program("search") = ToSearch BY DEF Program, ToSearch
  <1>2. Program("open") = JustOpen BY DEF Program, JustOpen
  <1>3. Program("state") = ToRead BY DEF Program, ToRead
  <1>4. Program("fill") = JustFill BY DEF Program, JustFill
  <1>5. Program("click") = JustClick BY DEF Program, JustClick
  <1> QED BY <1>1, <1>2, <1>3, <1>4, <1>5 DEF Left, Tool

----------------------------------------------------------------------------
(* Updates.                                                                *)

LEMMA PutOne ==
    ASSUME NEW S, NEW T, NEW f \in [S -> T], NEW s \in S, NEW v \in T
    PROVE  /\ [f EXCEPT ![s] = v] \in [S -> T] /\ [f EXCEPT ![s] = v][s] = v
           /\ \A t \in S \ {s} : [f EXCEPT ![s] = v][t] = f[t]
  OBVIOUS
LEMMA HelperFields ==
    ASSUME NEW h \in Helpers
    PROVE  /\ h.tool \in Tool \cup {"none"} /\ h.text \in Texts /\ h.todo \in Todos /\ h.page \in Pages
           /\ h.copy \in Leases /\ h.read \in Texts /\ h.alone \in BOOLEAN
  BY DEF Helpers
LEMMA SetTodo ==
    ASSUME NEW h \in Helpers, NEW g, g = [h EXCEPT !.todo = Tail(@)], Tail(h.todo) \in Todos
    PROVE  /\ g \in Helpers /\ g.todo = Tail(h.todo) /\ g.tool = h.tool /\ g.text = h.text
           /\ g.page = h.page /\ g.copy = h.copy /\ g.read = h.read /\ g.touching = h.touching
           /\ g.alone = h.alone
  BY DEF Helpers
LEMMA SetPage ==
    ASSUME NEW h \in Helpers, NEW p \in Pages, NEW g, g = [h EXCEPT !.page = p]
    PROVE  /\ g \in Helpers /\ g.page = p /\ g.tool = h.tool /\ g.text = h.text
           /\ g.todo = h.todo /\ g.copy = h.copy /\ g.read = h.read /\ g.touching = h.touching
           /\ g.alone = h.alone
  BY DEF Helpers
LEMMA NotAlone ==
    ASSUME NEW h \in Helpers, NEW g, g = [h EXCEPT !.alone = FALSE]
    PROVE  /\ g \in Helpers /\ g.tool = h.tool /\ g.text = h.text /\ g.todo = h.todo /\ g.page = h.page
           /\ g.copy = h.copy /\ g.read = h.read /\ g.touching = h.touching /\ g.alone = FALSE
  BY DEF Helpers
LEMMA NoHelperIsOne ==
    /\ NoHelper \in Helpers /\ NoHelper.tool = "none" /\ NoHelper.todo = AllDone /\ NoHelper.page = NoPage
    /\ NoHelper.copy = NoTabLease /\ NoHelper.touching = FALSE /\ NoHelper.text = NoQuery
    /\ NoHelper.read = NoQuery /\ NoTabLease \in Leases /\ NoTabLease.page = NoPage
  <1>1. AllDone \in Todos BY DEF Todos, Left, Tool
  <1>2. NoTabLease \in Leases /\ NoTabLease.page = NoPage BY DEF NoTabLease, Leases, Pages
  <1>3. NoHelper.todo = AllDone BY DEF NoHelper, AllDone
  <1> QED BY <1>1, <1>2, <1>3 DEF NoHelper, Helpers, Texts, Pages
LEMMA NewGateIsOne == NewGate \in Gates /\ NewGate.ready = FALSE /\ NewGate.stop = FALSE /\ NewGate.count = 0
  BY DEF NewGate, Gates
LEMMA NoEnvelopeIsOne == NoEnvelope \in Envelopes /\ NoEnvelope.status = "none"
  BY DEF NoEnvelope, Envelopes, Texts
LEMMA NothingSeenIsOne == NothingSeen \in Observations
  BY DEF NothingSeen, Observations, Pages

----------------------------------------------------------------------------
(* What a step leaves alone.                                               *)

\* No tab goes back to before it was opened, and none comes back from being closed.
FaceMoves == \A p \in Page : /\ face[p] # "unborn" => face'[p] # "unborn"
                             /\ face[p] = "closed" => face'[p] = "closed"
StaysBorn(p) == p \in Page /\ face'[p] # "unborn"
\* A helper that at most stops being alone.
Like(k) ==
    /\ helper'[k].tool = helper[k].tool /\ helper'[k].text = helper[k].text
    /\ helper'[k].todo = helper[k].todo /\ helper'[k].page = helper[k].page
    /\ helper'[k].copy = helper[k].copy /\ helper'[k].read = helper[k].read
    /\ helper'[k].alone \in {helper[k].alone, FALSE}
Same(r) == request'[r] = request[r] /\ gate'[r] = gate[r] /\ envelope'[r] = envelope[r]

LEMMA TabsStay == ASSUME TabTypes, UNCHANGED tabVars PROVE TabTypes' /\ FaceMoves
  BY DEF TabTypes, tabVars, Born, FaceMoves
LEMMA LeasesStay == ASSUME LeaseTypes, FaceMoves, UNCHANGED leaseVars PROVE LeaseTypes'
  BY DEF LeaseTypes, leaseVars, Born, FaceMoves
LEMMA AgentStays ==
    ASSUME NEW r \in CardRequest, AgentOK(r), Same(r), quota' = quota PROVE AgentOK(r)'
  BY DEF AgentOK, GateOK, RequestOK, Same
LEMMA HelperStays ==
    ASSUME NEW k \in Call, HelperOK(k), FaceMoves, Like(k) PROVE HelperOK(k)'
  BY DEF HelperOK, Like, FaceMoves, Born
LEMMA HelperEnded ==
    ASSUME NEW k \in Call, helper'[k] = NoHelper PROVE HelperOK(k)'
  BY NoHelperIsOne, Apart DEF HelperOK, Left, Waiting

----------------------------------------------------------------------------
(* What each step does to the tabs.                                        *)

LEMMA NewTabTabs ==
    ASSUME TabTypes, NEW k \in Call, NewTab(k) PROVE TabTypes' /\ FaceMoves
  BY DEF TabTypes, NewTab, Born, FaceMoves, Shows
LEMMA SelectTabTabs ==
    ASSUME TabTypes, NEW k \in Call, SelectTab(k), helper[k].page \in Pages
    PROVE TabTypes' /\ FaceMoves
  BY DEF TabTypes, SelectTab, Born, FaceMoves, Open, Pages
LEMMA ActTabs ==
    ASSUME TabTypes, NEW k \in Call, Act(k), helper[k].text \in Texts
    PROVE TabTypes' /\ FaceMoves
  <1>1. selected \in Page /\ face[selected] # "unborn" /\ face[selected] # "closed"
    BY DEF TabTypes, Act, OnTab, Open, Born
  <1>2. selected' = selected BY DEF Act
  <1>3. CASE UNCHANGED <<face, typed>> BY <1>2, <1>3, TabsStay DEF tabVars
  <1>4. CASE typed' = [typed EXCEPT ![selected] = helper[k].text] /\ UNCHANGED face
    BY <1>1, <1>2, <1>4 DEF TabTypes, Born, FaceMoves
  <1>5. CASE /\ typed[selected] # NoQuery /\ face' = [face EXCEPT ![selected] = typed[selected]]
             /\ typed' = [typed EXCEPT ![selected] = NoQuery]
    <2>1. typed[selected] \in Query BY <1>1, <1>5 DEF TabTypes, Texts
    <2>2. typed[selected] \notin {"unborn", "form", "stop", "closed"} BY <2>1, SearchAssumption
    <2> QED BY <1>1, <1>2, <1>5, <2>1, <2>2 DEF TabTypes, Born, FaceMoves, Shows, Texts
  <1> QED BY <1>3, <1>4, <1>5 DEF Act
LEMMA ClosedTabs ==
    ASSUME TabTypes, NEW p \in Pages, Closed(p)
    PROVE  /\ TabTypes' /\ FaceMoves /\ p \in Page /\ face'[p] = "closed"
           /\ \A q \in Page \ {p} : face'[q] = face[q]
           /\ face[p] \notin {"unborn", "closed"}
  BY DEF TabTypes, Closed, Born, FaceMoves, Open, Pages, Shows
LEMMA PageChangesTabs == ASSUME TabTypes, PageChanges PROVE TabTypes' /\ FaceMoves
  BY DEF TabTypes, PageChanges, Born, FaceMoves, Open, Shows

----------------------------------------------------------------------------
(* What each step does to the lease and the watchers.                      *)

LEMMA WriteLeaseLeases ==
    ASSUME LeaseTypes, FaceMoves, NEW k \in Call, WriteLease(k), Born(helper[k].page)
    PROVE LeaseTypes'
  <1>1. tabLease' = [page |-> helper[k].page, quiet |-> FALSE] BY DEF WriteLease
  <1>2. tabLease' \in Leases /\ tabLease'.page = helper[k].page
    BY <1>1 DEF Leases, Pages, Born
  <1>3. face' = face BY DEF WriteLease, tabVars
  <1>4. CASE UNCHANGED watcher BY <1>2, <1>3, <1>4 DEF LeaseTypes, Born
  <1>5. CASE watcher' = [watcher EXCEPT ![helper[k].page].step = "watching"]
    BY <1>2, <1>3, <1>5 DEF LeaseTypes, Born, Watchers
  <1> QED BY <1>4, <1>5 DEF WriteLease
LEMMA TouchLeaseLeases ==
    ASSUME LeaseTypes, NEW k \in Call, TouchLease(k), helper[k].copy \in Leases,
           helper[k].copy.page = NoPage \/ Born(helper[k].copy.page)
    PROVE LeaseTypes'
  <1>1. face' = face BY DEF TouchLease, tabVars
  <1>2. CASE UNCHANGED leaseVars BY <1>1, <1>2 DEF LeaseTypes, Born, leaseVars
  <1>3. CASE tabLease' = [helper[k].copy EXCEPT !.quiet = FALSE] /\ UNCHANGED watcher
    <2>1. tabLease' \in Leases /\ tabLease'.page = helper[k].copy.page BY <1>3 DEF Leases
    <2> QED BY <1>1, <1>3, <2>1 DEF LeaseTypes, Born
  <1> QED BY <1>2, <1>3 DEF TouchLease
LEMMA WatchLeases == ASSUME LeaseTypes, NEW w \in Page, Watch(w) PROVE LeaseTypes'
  BY DEF LeaseTypes, Watch, WatchEnds, WatchTo, Watchers, Born, tabVars, Pages
LEMMA CleanLeases == ASSUME LeaseTypes, NEW w \in Page, Clean(w) PROVE LeaseTypes'
  BY DEF LeaseTypes, Clean, WatchEnds, Watchers, Born, tabVars, Pages, Leases
LEMMA CloseLeases == ASSUME LeaseTypes, TabTypes, NEW w \in Page, Close(w) PROVE LeaseTypes'
  <1>0. watcher[w].page \in Pages /\ watcher[w].step = "closing" BY DEF LeaseTypes, Watchers, Close
  <1>1. CASE Closed(watcher[w].page) /\ WatchTo(w, "deleting")
    <2>1. /\ FaceMoves /\ watcher[w].page \in Page /\ face'[watcher[w].page] = "closed"
      BY <1>0, <1>1, ClosedTabs
    <2>2. tabLease' = tabLease BY DEF Close
    <2>3. watcher' = [watcher EXCEPT ![w].step = "deleting"] BY <1>1 DEF WatchTo
    <2> QED BY <1>0, <2>1, <2>2, <2>3 DEF LeaseTypes, Watchers, Born, FaceMoves
  <1>2. CASE WatchEnds(w) /\ UNCHANGED tabVars
    BY <1>0, <1>2 DEF LeaseTypes, WatchEnds, Watchers, Born, tabVars, Pages, Close
  <1> QED BY <1>1, <1>2 DEF Close
LEMMA DeleteLeaseLeases == ASSUME LeaseTypes, NEW w \in Page, DeleteLease(w) PROVE LeaseTypes'
  <1>1. tabLease' \in Leases /\ tabLease'.page = NoPage BY NoHelperIsOne DEF DeleteLease
  <1>2. watcher' = [watcher EXCEPT ![w] = [step |-> "ended", page |-> NoPage]] /\ face' = face
      /\ watcher[w].step = "deleting"
    BY DEF DeleteLease, WatchEnds, tabVars
  <1> QED BY <1>1, <1>2 DEF LeaseTypes, Watchers, Born, Pages
LEMMA LeaseGoesQuietLeases == ASSUME LeaseTypes, LeaseGoesQuiet PROVE LeaseTypes'
  <1>1. tabLease' = [tabLease EXCEPT !.quiet = TRUE] /\ UNCHANGED <<face, watcher>>
    BY DEF LeaseGoesQuiet, tabVars
  <1>2. tabLease' \in Leases /\ tabLease'.page = tabLease.page BY <1>1 DEF LeaseTypes, Leases
  <1> QED BY <1>1, <1>2 DEF LeaseTypes, Born

----------------------------------------------------------------------------
(* What each step does to the processes.                                   *)

LEMMA HelperIs ==
    ASSUME Typed, NEW k \in Call
    PROVE  /\ helper[k] \in Helpers /\ helper[k].tool \in Tool \cup {"none"} /\ helper[k].text \in Texts
           /\ helper[k].todo \in Left(helper[k].tool) /\ helper[k].copy \in Leases /\ helper[k].page \in Pages
           /\ helper[k].read \in Texts /\ helper[k].alone \in BOOLEAN
           /\ helper[k].page = NoPage \/ Born(helper[k].page)
           /\ helper[k].copy.page = NoPage \/ Born(helper[k].copy.page)
           /\ helper[k].todo \in Waiting => Born(helper[k].page)
  <1>1. helper[k] \in Helpers BY DEF Typed, AgentsTyped, ProcessTypes
  <1> QED BY <1>1, HelperFields DEF Typed, AgentsTyped, HelperOK
LEMMA DoneIs ==
    ASSUME Typed, NEW k \in Call, helper[k].todo # <<>>
    PROVE  /\ Done(k) \in Helpers /\ Done(k).todo = Tail(helper[k].todo) /\ Done(k).tool = helper[k].tool
           /\ Done(k).text = helper[k].text /\ Done(k).page = helper[k].page
           /\ Done(k).copy = helper[k].copy /\ Done(k).read = helper[k].read
           /\ Done(k).alone = helper[k].alone
           /\ Done(k).todo \in Left(Done(k).tool)
  <1>1. /\ helper[k] \in Helpers /\ helper[k].todo \in Left(helper[k].tool)
        /\ helper[k].tool \in Tool \cup {"none"}
    BY HelperIs
  <1>2. Tail(helper[k].todo) \in Left(helper[k].tool) BY <1>1, NextCommand
  <1>3. helper[k].tool \in Tool BY <1>1, <1>2, NextCommand DEF Left, AllDone
  <1>4. Tail(helper[k].todo) \in Todos BY <1>2, <1>3 DEF Todos
  <1> QED BY <1>1, <1>2, <1>4, SetTodo DEF Done
LEMMA TouchingIs ==
    ASSUME NEW h \in Helpers, tabLease \in Leases
    PROVE  /\ Touching(h) \in Helpers /\ Touching(h).copy = tabLease /\ Touching(h).page = h.page
           /\ Touching(h).tool = h.tool /\ Touching(h).text = h.text /\ Touching(h).todo = h.todo
           /\ Touching(h).read = h.read /\ Touching(h).alone = h.alone
  BY DEF Touching, Helpers

\* What a step of a helper leaves: types, and the other helpers.
Others(k) == \A j \in Call \ {k} : helper'[j] = helper[j]
Went(k) == AgentsTyped' /\ Others(k)

LEMMA OthersAreLike == ASSUME NEW k \in Call, Others(k), NEW j \in Call \ {k} PROVE Like(j)
  BY DEF Others, Like
\* Types after a step of one helper, when the gates and the requests are in order.
LEMMA HelperWent ==
    ASSUME Typed, NEW k \in Call, NEW h \in Helpers, Then(k, h), FaceMoves,
           HelperOK(k)', seen' \in [CardRequest -> Observations],
           request' \in [CardRequest -> Requests], gate' \in [CardRequest -> Gates],
           envelope' \in [CardRequest -> Envelopes], \A r \in CardRequest : AgentOK(r)'
    PROVE  Went(k) /\ helper'[k] = h
  <1>1. helper' \in [Call -> Helpers] /\ helper'[k] = h /\ Others(k)
    BY PutOne DEF Typed, AgentsTyped, ProcessTypes, Then, Others
  <1>2. ASSUME NEW j \in Call PROVE HelperOK(j)'
    BY <1>1, OthersAreLike, HelperStays DEF Typed, AgentsTyped
  <1> QED BY <1>1, <1>2 DEF Went, AgentsTyped, ProcessTypes
LEMMA HelperGoesOn ==
    ASSUME Typed, NEW k \in Call, NEW h \in Helpers, Then(k, h), UNCHANGED <<agentVars, quota>>,
           seen' \in [CardRequest -> Observations], FaceMoves,
           h.todo \in Left(h.tool),
           h.page = NoPage \/ StaysBorn(h.page),
           h.todo \in Waiting => h.page # NoPage,
           h.copy.page = NoPage \/ StaysBorn(h.copy.page)
    PROVE  Went(k) /\ helper'[k] = h
  <1>1. helper'[k] = h BY PutOne DEF Typed, AgentsTyped, ProcessTypes, Then
  <1>2. HelperOK(k)' BY <1>1 DEF HelperOK, Born, StaysBorn
  <1>3. \A r \in CardRequest : AgentOK(r)' BY AgentStays DEF Typed, AgentsTyped, agentVars, Same
  <1>4. /\ request' \in [CardRequest -> Requests] /\ gate' \in [CardRequest -> Gates]
        /\ envelope' \in [CardRequest -> Envelopes]
    BY DEF Typed, AgentsTyped, ProcessTypes, agentVars
  <1> QED BY <1>2, <1>3, <1>4, HelperWent

LEMMA NewTabGoes ==
    ASSUME Typed, NEW k \in Call, NewTab(k), quota' = quota
    PROVE  Went(k) /\ \E p \in Page : /\ face[p] = "unborn" /\ face' = [face EXCEPT ![p] = "form"]
                                      /\ helper'[k] = [Done(k) EXCEPT !.page = p]
  <1>1. FaceMoves BY NewTabTabs DEF Typed
  <1>2. PICK p \in Page : face[p] = "unborn" /\ face' = [face EXCEPT ![p] = "form"]
                          /\ Then(k, [Done(k) EXCEPT !.page = p])
    BY DEF NewTab
  <1>3. helper[k].todo # <<>> BY DEF NewTab, Doing
  <1>4. p \in Pages /\ StaysBorn(p) BY <1>2 DEF Typed, TabTypes, StaysBorn, Pages
  <1> DEFINE h == [Done(k) EXCEPT !.page = p]
  <1>5. h \in Helpers /\ h.page = p /\ h.todo \in Left(h.tool) /\ h.copy = helper[k].copy
    <2>1. Done(k) \in Helpers BY <1>3, DoneIs
    <2>2. /\ h \in Helpers /\ h.page = p /\ h.tool = Done(k).tool /\ h.todo = Done(k).todo
          /\ h.copy = Done(k).copy
      BY <1>4, <2>1, SetPage
    <2> QED BY <1>3, <2>2, DoneIs
  <1>6. h.copy.page = NoPage \/ StaysBorn(h.copy.page) BY <1>1, <1>5, HelperIs DEF FaceMoves, Born, StaysBorn
  <1>7. UNCHANGED agentVars /\ seen' = seen BY DEF NewTab
  <1>8. p # NoPage BY SearchAssumption
  <1> HIDE DEF h
  <1>9. Then(k, h) BY <1>2 DEF h
  <1>10. seen' \in [CardRequest -> Observations] BY <1>7 DEF Typed, AgentsTyped, ProcessTypes
  <1>11. Went(k) /\ helper'[k] = h
    BY <1>1, <1>4, <1>5, <1>6, <1>7, <1>8, <1>9, <1>10, HelperGoesOn
  <1> QED BY <1>2, <1>11 DEF h
LEMMA SelectTabGoes ==
    ASSUME Typed, NEW k \in Call, SelectTab(k), quota' = quota
    PROVE  Went(k) /\ helper'[k] = Done(k)
  <1>1. FaceMoves BY SelectTabTabs, HelperIs DEF Typed
  <1>2. helper[k].todo # <<>> /\ Then(k, Done(k)) BY DEF SelectTab, Doing
  <1>3. UNCHANGED agentVars /\ seen' = seen BY DEF SelectTab
  <1>4. seen' \in [CardRequest -> Observations] BY <1>3 DEF Typed, AgentsTyped, ProcessTypes
  <1>5. Done(k).page # NoPage /\ StaysBorn(Done(k).page)
    BY <1>1, <1>2, DoneIs, HelperIs DEF SelectTab, Open, FaceMoves, Born, StaysBorn
  <1>6. Done(k).copy.page = NoPage \/ StaysBorn(Done(k).copy.page)
    BY <1>1, <1>2, DoneIs, HelperIs DEF FaceMoves, Born, StaysBorn
  <1> QED BY <1>1, <1>2, <1>3, <1>4, <1>5, <1>6, DoneIs, HelperGoesOn
LEMMA WriteLeaseGoes ==
    ASSUME Typed, NEW k \in Call, WriteLease(k), quota' = quota
    PROVE  Went(k) /\ helper'[k] = Done(k) /\ Born(helper[k].page)
  <1>1. face' = face /\ FaceMoves BY DEF WriteLease, tabVars, FaceMoves
  <1>2. helper[k].todo # <<>> /\ Then(k, Done(k)) BY DEF WriteLease, Doing
  <1>3. UNCHANGED agentVars /\ seen' = seen BY DEF WriteLease
  <1>4. seen' \in [CardRequest -> Observations] BY <1>3 DEF Typed, AgentsTyped, ProcessTypes
  <1>5. helper[k].todo \in Waiting BY <1>2, HelperIs, NextCommand DEF WriteLease, Doing, Waiting
  <1>6. Born(helper[k].page) BY <1>5, HelperIs
  <1>7. Done(k).page # NoPage /\ StaysBorn(Done(k).page)
    BY <1>1, <1>2, <1>6, DoneIs, SearchAssumption DEF Born, StaysBorn
  <1>8. Done(k).copy.page = NoPage \/ StaysBorn(Done(k).copy.page)
    BY <1>1, <1>2, DoneIs, HelperIs DEF Born, StaysBorn
  <1> QED BY <1>1, <1>2, <1>3, <1>4, <1>6, <1>7, <1>8, DoneIs, HelperGoesOn
LEMMA LookGoes ==
    ASSUME Typed, NEW k \in Call, Look(k), quota' = quota
    PROVE  /\ Went(k) /\ helper[k].todo # <<>>
           /\ \/ Doing(k, "look") /\ helper'[k] = Touching(Done(k))
              \/ /\ Doing(k, "read")
                 /\ helper'[k] = Touching([Done(k) EXCEPT
                       !.read = IF face[selected] \in Query THEN face[selected] ELSE NoQuery,
                       !.page = selected])
  <1>1. face' = face /\ FaceMoves BY DEF Look, tabVars, FaceMoves
  <1>2. helper[k].todo # <<>> BY DEF Look, Doing
  <1>3. UNCHANGED agentVars /\ seen' = seen BY DEF Look
  <1>4. seen' \in [CardRequest -> Observations] BY <1>3 DEF Typed, AgentsTyped, ProcessTypes
  <1>5. tabLease \in Leases /\ (tabLease.page = NoPage \/ StaysBorn(tabLease.page))
    BY <1>1 DEF Typed, LeaseTypes, Born, StaysBorn
  <1>6. CASE Doing(k, "look") /\ Then(k, Touching(Done(k)))
    <2>1. Done(k) \in Helpers BY <1>2, DoneIs
    <2>2. /\ Touching(Done(k)) \in Helpers /\ Touching(Done(k)).copy = tabLease
          /\ Touching(Done(k)).page = Done(k).page /\ Touching(Done(k)).tool = Done(k).tool
          /\ Touching(Done(k)).todo = Done(k).todo
      BY <1>5, <2>1, TouchingIs
    <2>3. Done(k).todo = ToFill BY <1>2, <1>6, DoneIs, HelperIs, NextCommand DEF Doing
    <2>4. Done(k).page = NoPage \/ StaysBorn(Done(k).page)
      BY <1>1, <1>2, DoneIs, HelperIs DEF Born, StaysBorn
    <2>5. ToFill \notin Waiting BY Tails DEF Waiting
    <2>6. Touching(Done(k)).todo \in Left(Touching(Done(k)).tool) BY <1>2, <2>2, DoneIs
    <2>7. Went(k) /\ helper'[k] = Touching(Done(k))
      BY <1>1, <1>3, <1>4, <1>5, <1>6, <2>2, <2>3, <2>4, <2>5, <2>6, HelperGoesOn
    <2> QED BY <1>2, <1>6, <2>7
  <1>7. CASE /\ Doing(k, "read")
             /\ Then(k, Touching([Done(k) EXCEPT
                       !.read = IF face[selected] \in Query THEN face[selected] ELSE NoQuery,
                       !.page = selected]))
    <2> DEFINE t == IF face[selected] \in Query THEN face[selected] ELSE NoQuery
               g == [Done(k) EXCEPT !.read = t, !.page = selected]
    <2>0. t \in Texts BY DEF Texts
    <2>1. selected \in Page /\ StaysBorn(selected)
      BY <1>1 DEF Look, OnTab, Open, Typed, TabTypes, Born, StaysBorn
    <2> HIDE DEF t
    <2>2. Done(k) \in Helpers /\ selected \in Pages BY <1>2, <2>1, DoneIs DEF Pages
    <2>3. /\ g \in Helpers /\ g.page = selected /\ g.tool = Done(k).tool /\ g.todo = Done(k).todo
      BY <2>0, <2>2 DEF Helpers
    <2> HIDE DEF g
    <2>4. /\ Touching(g) \in Helpers /\ Touching(g).copy = tabLease /\ Touching(g).page = g.page
          /\ Touching(g).tool = g.tool /\ Touching(g).todo = g.todo
      BY <1>5, <2>3, TouchingIs
    <2>5. Done(k).todo = AllDone BY <1>2, <1>7, DoneIs, HelperIs, NextCommand DEF Doing
    <2>6. AllDone \notin Waiting BY Apart DEF Waiting
    <2>7. Touching(g).todo \in Left(Touching(g).tool) BY <1>2, <2>3, <2>4, DoneIs
    <2>8. Then(k, Touching(g)) BY <1>7 DEF g, t
    <2>9. Went(k) /\ helper'[k] = Touching(g)
      BY <1>1, <1>3, <1>4, <1>5, <2>1, <2>3, <2>4, <2>5, <2>6, <2>7, <2>8, HelperGoesOn
    <2> QED BY <1>2, <1>7, <2>9 DEF g, t
  <1> QED BY <1>6, <1>7 DEF Look
\* What a Pi process has seen after something was done in its tab.
LEMMA ActedSeen ==
    ASSUME Typed, NEW k \in Call, Act(k)
    PROVE  /\ seen' \in [CardRequest -> Observations]
           /\ seen'[CallerOf[k]].page = NoPage
           /\ \A r \in CardRequest \ {CallerOf[k]} : seen'[r] = seen[r]
           /\ \A r \in CardRequest : seen'[r].alone => seen[r].alone
  <1> DEFINE r == CallerOf[k]
             o == [page |-> NoPage, alone |-> seen[r].alone /\ helper[k].alone]
  <1>1. seen' = [seen EXCEPT ![r] = o] BY DEF Act
  <1>2. r \in CardRequest BY SearchAssumption
  <1>3. o \in Observations /\ o.page = NoPage /\ (o.alone => seen[r].alone) BY DEF Observations, Pages
  <1>4. CallerOf[k] = r OBVIOUS
  <1> HIDE DEF o, r
  <1>5. /\ seen' \in [CardRequest -> Observations] /\ seen'[r] = o
        /\ \A q \in CardRequest \ {r} : seen'[q] = seen[q]
    BY <1>1, <1>2, <1>3, PutOne DEF Typed, AgentsTyped, ProcessTypes
  <1> QED BY <1>3, <1>4, <1>5, Zenon
LEMMA ActGoes ==
    ASSUME Typed, NEW k \in Call, Act(k), quota' = quota
    PROVE  /\ Went(k) /\ helper[k].todo # <<>> /\ FaceMoves /\ TabTypes'
           /\ helper'[k] = Touching(Done(k))
  <1>1. FaceMoves /\ TabTypes' BY ActTabs, HelperIs DEF Typed
  <1>2. helper[k].todo # <<>> BY DEF Act, Doing
  <1>3. UNCHANGED agentVars BY DEF Act
  <1>4. seen' \in [CardRequest -> Observations] BY ActedSeen
  <1>5. tabLease \in Leases /\ (tabLease.page = NoPage \/ StaysBorn(tabLease.page))
    BY <1>1 DEF Typed, LeaseTypes, Born, StaysBorn, FaceMoves
  <1>6. Done(k) \in Helpers BY <1>2, DoneIs
  <1>7. /\ Touching(Done(k)) \in Helpers /\ Touching(Done(k)).copy = tabLease
        /\ Touching(Done(k)).page = Done(k).page /\ Touching(Done(k)).tool = Done(k).tool
        /\ Touching(Done(k)).todo = Done(k).todo
    BY <1>5, <1>6, TouchingIs
  <1>8. Done(k).todo \in {ToClick, ToRead, AllDone}
    BY <1>2, DoneIs, HelperIs, NextCommand DEF Doing, Act
  <1>9. Done(k).page = NoPage \/ StaysBorn(Done(k).page)
    BY <1>1, <1>2, DoneIs, HelperIs DEF Born, StaysBorn, FaceMoves
  <1>10. {ToClick, ToRead, AllDone} \cap Waiting = {} BY Tails, Apart DEF Waiting
  <1>11. Touching(Done(k)).todo \in Left(Touching(Done(k)).tool) BY <1>2, <1>7, DoneIs
  <1>12. Then(k, Touching(Done(k))) BY DEF Act
  <1>13. Went(k) /\ helper'[k] = Touching(Done(k))
    BY <1>1, <1>3, <1>4, <1>5, <1>7, <1>8, <1>9, <1>10, <1>11, <1>12, HelperGoesOn
  <1> QED BY <1>1, <1>2, <1>13
LEMMA TouchLeaseGoes ==
    ASSUME Typed, NEW k \in Call, TouchLease(k), quota' = quota
    PROVE  Went(k) /\ helper'[k] = [helper[k] EXCEPT !.touching = FALSE, !.copy = NoTabLease]
  <1>1. face' = face /\ FaceMoves BY DEF TouchLease, tabVars, FaceMoves
  <1>2. UNCHANGED agentVars /\ seen' = seen BY DEF TouchLease
  <1>3. seen' \in [CardRequest -> Observations] BY <1>2 DEF Typed, AgentsTyped, ProcessTypes
  <1> DEFINE g == [helper[k] EXCEPT !.touching = FALSE, !.copy = NoTabLease]
  <1>4. helper[k] \in Helpers BY HelperIs
  <1>5. /\ g \in Helpers /\ g.copy = NoTabLease /\ g.page = helper[k].page
        /\ g.tool = helper[k].tool /\ g.todo = helper[k].todo
    BY <1>4, NoHelperIsOne DEF Helpers
  <1>6. Then(k, g) BY DEF TouchLease
  <1> HIDE DEF g
  <1>7. g.page = NoPage \/ StaysBorn(g.page) BY <1>1, <1>5, HelperIs DEF Born, StaysBorn
  <1>8. g.copy.page = NoPage BY <1>5, NoHelperIsOne
  <1>9. g.todo \in Left(g.tool) BY <1>5, HelperIs
  <1>10. g.todo \in Waiting => g.page # NoPage
    BY <1>5, HelperIs, SearchAssumption DEF Born
  <1>11. Went(k) /\ helper'[k] = g
    BY <1>1, <1>2, <1>3, <1>5, <1>6, <1>7, <1>8, <1>9, <1>10, HelperGoesOn
  <1> QED BY <1>11 DEF g

\* The gate after a payload: a state that ended well makes it ready, and nothing else does.
PaidGate(k, end) ==
    LET r == CallerOf[k] IN
    /\ gate' \in [CardRequest -> Gates] /\ \A q \in CardRequest \ {r} : gate'[q] = gate[q]
    /\ gate'[r].count = gate[r].count
    /\ ~(gate'[r].ready /\ gate'[r].stop)
    /\ gate'[r].ready => gate[r].ready \/ (helper[k].tool = "state" /\ end = "ok")

LEMMA PayloadGate ==
    ASSUME gate \in [CardRequest -> Gates], NEW k \in Call, NEW end, Payload(k, end), GateOK(CallerOf[k])
    PROVE  PaidGate(k, end)
  <1> DEFINE r == CallerOf[k]
  <1>0. r \in CardRequest BY SearchAssumption
  <1>1. CASE gate' = gate
    <2>1. gate' \in [CardRequest -> Gates] /\ \A q \in CardRequest \ {r} : gate'[q] = gate[q] BY <1>1
    <2>2. gate'[r] = gate[r] BY <1>1
    <2>3. ~(gate'[r].ready /\ gate'[r].stop) BY <2>2, Zenon DEF GateOK
    <2>4. gate'[r].ready => gate[r].ready BY <2>2, Zenon
    <2>5. gate'[r].count = gate[r].count BY <2>2
    <2> QED BY <2>1, <2>3, <2>4, <2>5, Zenon DEF PaidGate
  <1>2. CASE gate' = [gate EXCEPT ![r].ready = helper[k].tool = "state" /\ end = "ok",
                                  ![r].stop = helper[k].tool = "state" /\ end = "terminal"]
    <2> DEFINE fresh == helper[k].tool = "state" /\ end = "ok"
               over == helper[k].tool = "state" /\ end = "terminal"
               g == [gate[r] EXCEPT !.ready = fresh, !.stop = over]
    <2>1. gate' = [gate EXCEPT ![r] = g] BY <1>0, <1>2
    <2>2. gate[r] \in Gates BY <1>0
    <2>3. g \in Gates /\ g.ready = fresh /\ g.stop = over /\ g.count = gate[r].count BY <2>2 DEF Gates
    <2> HIDE DEF g, fresh, over
    <2>4. gate' \in [CardRequest -> Gates] /\ gate'[r] = g BY <1>0, <2>1, <2>3
    <2>5. \A q \in CardRequest \ {r} : gate'[q] = gate[q] BY <2>1
    <2>6. ~(fresh /\ over) BY DEF fresh, over
    <2>7. gate'[r].ready => helper[k].tool = "state" /\ end = "ok" BY <2>3, <2>4 DEF fresh
    <2>8. ~(gate'[r].ready /\ gate'[r].stop) /\ gate'[r].count = gate[r].count BY <2>3, <2>4, <2>6
    <2> QED BY <2>4, <2>5, <2>7, <2>8 DEF PaidGate
  <1> QED BY <1>1, <1>2 DEF Payload
LEMMA PayloadEnvelope ==
    ASSUME Typed, NEW k \in Call, NEW end, Payload(k, end)
    PROVE  LET r == CallerOf[k] IN
           /\ envelope' \in [CardRequest -> Envelopes]
           /\ \A q \in CardRequest \ {r} : envelope'[q] = envelope[q]
           /\ \/ envelope'[r] = envelope[r]
              \/ /\ helper[k].tool = "search" /\ end = "ok"
                 /\ envelope'[r].query = helper[k].text /\ envelope'[r].cards = helper[k].read
                 /\ envelope'[r].alone = helper[k].alone
              \/ envelope'[r].status = "blocked"
  <1> DEFINE r == CallerOf[k]
             h == helper[k]
             c == [status |-> "cards", query |-> h.text, cards |-> h.read, alone |-> h.alone]
             b == [NoEnvelope EXCEPT !.status = "blocked", !.query = h.text]
  <1>0. envelope \in [CardRequest -> Envelopes] /\ h \in Helpers /\ h = helper[k] /\ r \in CardRequest
        /\ r = CallerOf[k]
    BY HelperIs, SearchAssumption DEF Typed, AgentsTyped, ProcessTypes
  <1>1. \/ envelope' = envelope
        \/ h.tool = "search" /\ end = "ok" /\ envelope' = [envelope EXCEPT ![r] = c]
        \/ envelope' = [envelope EXCEPT ![r] = b]
    BY DEF Payload
  <1> HIDE DEF h, r
  <1>2. c \in Envelopes /\ c.query = h.text /\ c.cards = h.read /\ c.alone = h.alone
    BY <1>0, HelperFields DEF Envelopes
  <1>3. b \in Envelopes /\ b.status = "blocked"
    BY <1>0, HelperFields DEF Envelopes, Texts, NoEnvelope
  <1> HIDE DEF c, b
  <1>4. ASSUME NEW e \in Envelopes, envelope' = [envelope EXCEPT ![r] = e]
        PROVE  /\ envelope' \in [CardRequest -> Envelopes] /\ envelope'[r] = e
               /\ \A q \in CardRequest \ {r} : envelope'[q] = envelope[q]
    BY <1>0, <1>4, PutOne
  <1>5. /\ envelope' \in [CardRequest -> Envelopes]
        /\ \A q \in CardRequest \ {r} : envelope'[q] = envelope[q]
        /\ \/ envelope'[r] = envelope[r]
           \/ /\ h.tool = "search" /\ end = "ok"
              /\ envelope'[r].query = h.text /\ envelope'[r].cards = h.read
              /\ envelope'[r].alone = h.alone
           \/ envelope'[r].status = "blocked"
    BY <1>0, <1>1, <1>2, <1>3, <1>4
  <1> QED BY <1>0, <1>5
LEMMA PayloadSeen ==
    ASSUME Typed, NEW k \in Call, NEW end, Payload(k, end)
    PROVE  LET r == CallerOf[k] IN
           /\ seen' \in [CardRequest -> Observations]
           /\ \A q \in CardRequest \ {r} : seen'[q] = seen[q]
           /\ IF Heard(k) /\ helper[k].tool = "state" /\ end = "ok"
              THEN seen'[r].page = helper[k].page /\ seen'[r].alone = helper[k].alone
              ELSE seen'[r] = seen[r]
  <1> DEFINE r == CallerOf[k]
             h == helper[k]
             o == [page |-> h.page, alone |-> h.alone]
  <1>0. seen \in [CardRequest -> Observations] /\ h \in Helpers /\ h = helper[k] /\ r \in CardRequest
        /\ r = CallerOf[k]
    BY HelperIs, SearchAssumption DEF Typed, AgentsTyped, ProcessTypes
  <1>1. seen' = IF Heard(k) /\ h.tool = "state" /\ end = "ok" THEN [seen EXCEPT ![r] = o] ELSE seen
    BY DEF Payload
  <1> HIDE DEF h, r
  <1>2. o \in Observations /\ o.page = h.page /\ o.alone = h.alone BY <1>0, HelperFields DEF Observations
  <1> HIDE DEF o
  <1>3. [seen EXCEPT ![r] = o] \in [CardRequest -> Observations] /\ [seen EXCEPT ![r] = o][r] = o
        /\ \A q \in CardRequest \ {r} : [seen EXCEPT ![r] = o][q] = seen[q]
    BY <1>0, <1>2, PutOne
  <1>4. /\ seen' \in [CardRequest -> Observations]
        /\ \A q \in CardRequest \ {r} : seen'[q] = seen[q]
        /\ IF Heard(k) /\ h.tool = "state" /\ end = "ok"
           THEN seen'[r].page = h.page /\ seen'[r].alone = h.alone
           ELSE seen'[r] = seen[r]
    BY <1>0, <1>1, <1>2, <1>3
  <1> QED BY <1>0, <1>4

LEMMA PayloadGoes ==
    ASSUME Typed, NEW k \in Call, NEW end, Payload(k, end), FaceMoves, UNCHANGED <<request, quota>>
    PROVE  Went(k) /\ helper'[k] = NoHelper
  <1> DEFINE c == CallerOf[k]
  <1>1. Then(k, NoHelper) /\ NoHelper \in Helpers BY NoHelperIsOne DEF Payload, Then
  <1>2. helper'[k] = NoHelper BY <1>1, PutOne DEF Typed, AgentsTyped, ProcessTypes, Then
  <1>3. c \in CardRequest BY SearchAssumption
  <1>4. PaidGate(k, end) BY <1>3, PayloadGate DEF Typed, AgentsTyped, ProcessTypes, AgentOK
  <1>5. /\ envelope' \in [CardRequest -> Envelopes]
        /\ \A q \in CardRequest \ {c} : envelope'[q] = envelope[q]
    BY PayloadEnvelope
  <1>6. seen' \in [CardRequest -> Observations] BY PayloadSeen
  <1>7. HelperOK(k)' BY <1>2, HelperEnded
  <1>8. request' \in [CardRequest -> Requests] BY DEF Typed, AgentsTyped, ProcessTypes
  <1>9. ASSUME NEW r \in CardRequest PROVE AgentOK(r)'
    <2>1. CASE r # c
      <3>1. Same(r) BY <1>4, <1>5, <2>1 DEF Same, PaidGate
      <3> QED BY <3>1, AgentStays DEF Typed, AgentsTyped
    <2>2. CASE r = c
      <3>1. GateOK(r)' BY <1>4, <2>2 DEF PaidGate, GateOK, Typed, AgentsTyped, AgentOK
      <3>2. RequestOK(r)'
        <4>1. RequestOK(r) BY DEF Typed, AgentsTyped, AgentOK
        <4>2. CASE Heard(k)
          <5>1. request[r].step = "asking" BY <2>2, <4>2 DEF Heard, Asking
          <5> QED BY <4>1, <5>1 DEF RequestOK
        <4>3. CASE ~Heard(k)
          <5>1. gate' = gate /\ envelope' = envelope BY <4>3 DEF Payload
          <5> QED BY <4>1, <5>1 DEF RequestOK
        <4> QED BY <4>2, <4>3
      <3> QED BY <3>1, <3>2 DEF AgentOK
    <2> QED BY <2>1, <2>2
  <1>10. gate' \in [CardRequest -> Gates] BY <1>4 DEF PaidGate
  <1> QED BY <1>1, <1>5, <1>6, <1>7, <1>8, <1>9, <1>10, HelperWent

LEMMA AskCardsGoes ==
    ASSUME Typed, NEW r \in CardRequest, AskCards(r), quota' = quota
    PROVE  /\ AgentsTyped' /\ request'[r].result = "none" /\ request'[r].step = "asking"
           /\ \A q \in CardRequest \ {r} : request'[q] = request[q]
  <1>1. request' = [request EXCEPT ![r].step = "asking"] /\ request[r].step = "new" BY DEF AskCards
  <1>2. /\ request' \in [CardRequest -> Requests] /\ request'[r].step = "asking"
        /\ request'[r].tools = request[r].tools /\ request'[r].result = request[r].result
        /\ \A q \in CardRequest \ {r} : request'[q] = request[q]
    BY <1>1 DEF Typed, AgentsTyped, ProcessTypes, Requests
  <1>3. UNCHANGED <<gate, helper, envelope, seen, face>> BY DEF AskCards, tabVars
  <1>4. ProcessTypes' BY <1>2, <1>3 DEF Typed, AgentsTyped, ProcessTypes
  <1>5. \A k \in Call : HelperOK(k)' BY <1>3 DEF HelperOK, Typed, AgentsTyped, Born
  <1>6. ASSUME NEW q \in CardRequest \ {r} PROVE AgentOK(q)'
    BY <1>2, <1>3, AgentStays DEF Same, Typed, AgentsTyped
  <1>7. GateOK(r)' BY <1>3 DEF GateOK, Typed, AgentsTyped, AgentOK
  <1>8. request[r].result = "none" BY <1>1 DEF Typed, AgentsTyped, AgentOK, RequestOK
  <1>9. RequestOK(r)' BY <1>2, <1>8 DEF RequestOK, Typed, AgentsTyped, AgentOK
  <1> QED BY <1>2, <1>4, <1>5, <1>6, <1>7, <1>8, <1>9 DEF AgentsTyped, AgentOK
LEMMA SaidIs ==
    ASSUME NEW what \in Results \ {"cards"}
    PROVE  /\ Said(what).result = what /\ Said(what).cards \in Texts /\ Said(what).alone \in BOOLEAN
  BY DEF Said, Texts
LEMMA AnswerIs ==
    ASSUME NEW e \in Envelopes, NEW q
    PROVE  /\ AnswerTo(e, q).result \in Results /\ AnswerTo(e, q).cards \in Texts
           /\ AnswerTo(e, q).alone \in BOOLEAN
           /\ AnswerTo(e, q).result = "cards" =>
                 /\ e.status = "cards" /\ e.query = q
                 /\ AnswerTo(e, q).cards = e.cards /\ AnswerTo(e, q).alone = e.alone
  <1>1. CASE e.query = q
    <2> DEFINE a == [result |-> e.status, cards |-> e.cards, alone |-> e.alone]
    <2>1. AnswerTo(e, q) = a BY <1>1 DEF AnswerTo
    <2>2. e.status \in Results /\ e.cards \in Texts /\ e.alone \in BOOLEAN BY DEF Envelopes, Results
    <2>3. a.result = e.status /\ a.cards = e.cards /\ a.alone = e.alone OBVIOUS
    <2> HIDE DEF a
    <2> QED BY <1>1, <2>1, <2>2, <2>3, Zenon
  <1>2. CASE e.query # q
    <2>1. AnswerTo(e, q) = Said("failed") /\ "failed" \in Results \ {"cards"} BY <1>2 DEF AnswerTo, Results
    <2> QED BY <2>1, SaidIs
  <1> QED BY <1>1, <1>2
\* Helpers that stay as they are, or go with their Pi process.
SomeEnd == \A k \in Call : helper'[k] \in {helper[k], NoHelper}
\* Everything a new Pi process, or none, has left of the last one.
Renewed(r) ==
    /\ gate'[r] = NewGate /\ envelope'[r] = NoEnvelope /\ seen'[r] = NothingSeen
    /\ \A q \in CardRequest \ {r} : Same(q) /\ seen'[q] = seen[q]

LEMMA HelpersEnd ==
    ASSUME Typed, NEW gone, helper' = [k \in Call |-> IF k \in gone THEN NoHelper ELSE helper[k]]
    PROVE  helper' \in [Call -> Helpers] /\ SomeEnd
  BY NoHelperIsOne DEF Typed, AgentsTyped, ProcessTypes, SomeEnd
\* The processes after the answer, or the second prompt, of a request that was asking.
LEMMA NewPiGoes ==
    ASSUME Typed, NEW r \in CardRequest, PiIsNew(r), FaceMoves, quota' = quota,
           request' \in [CardRequest -> Requests],
           \A q \in CardRequest \ {r} : request'[q] = request[q],
           request'[r].tools \in 0..quota.tools[r],
           request'[r].step = "done" \/ (request'[r].step = "asking" /\ request'[r].result = "none"),
           helper' \in [Call -> Helpers], SomeEnd
    PROVE  AgentsTyped' /\ Renewed(r)
  <1>1. /\ gate' = [gate EXCEPT ![r] = NewGate] /\ envelope' = [envelope EXCEPT ![r] = NoEnvelope]
        /\ seen' = [seen EXCEPT ![r] = NothingSeen]
    BY DEF PiIsNew
  <1>2. gate' \in [CardRequest -> Gates] /\ gate'[r] = NewGate
        /\ \A q \in CardRequest \ {r} : gate'[q] = gate[q]
    BY <1>1, PutOne, NewGateIsOne DEF Typed, AgentsTyped, ProcessTypes
  <1>3. envelope' \in [CardRequest -> Envelopes] /\ envelope'[r] = NoEnvelope
        /\ \A q \in CardRequest \ {r} : envelope'[q] = envelope[q]
    BY <1>1, PutOne, NoEnvelopeIsOne DEF Typed, AgentsTyped, ProcessTypes
  <1>4. seen' \in [CardRequest -> Observations] /\ seen'[r] = NothingSeen
        /\ \A q \in CardRequest \ {r} : seen'[q] = seen[q]
    BY <1>1, PutOne, NothingSeenIsOne DEF Typed, AgentsTyped, ProcessTypes
  <1>5. ProcessTypes' BY <1>2, <1>3, <1>4 DEF ProcessTypes
  <1>6. Renewed(r) BY <1>2, <1>3, <1>4 DEF Renewed, Same
  <1>7. ASSUME NEW k \in Call PROVE HelperOK(k)'
    <2>1. CASE helper'[k] = helper[k]
      <3>1. Like(k) BY <2>1 DEF Like
      <3> QED BY <3>1, HelperStays DEF Typed, AgentsTyped
    <2>2. CASE helper'[k] = NoHelper BY <2>2, HelperEnded
    <2> QED BY <2>1, <2>2 DEF SomeEnd
  <1>8. GateOK(r)'
    <2>1. 0 \in 0..MaxActions BY SearchAssumption
    <2>2. gate'[r].count \in 0..MaxActions BY <1>2, <2>1, NewGateIsOne
    <2>3. gate'[r].ready = FALSE BY <1>2, NewGateIsOne
    <2> QED BY <2>2, <2>3, Zenon DEF GateOK
  <1>9. RequestOK(r)' BY DEF RequestOK
  <1>10. \A q \in CardRequest \ {r} : AgentOK(q)' BY <1>6, AgentStays DEF Renewed, Typed, AgentsTyped
  <1> QED BY <1>5, <1>6, <1>7, <1>8, <1>9, <1>10 DEF AgentsTyped, AgentOK
LEMMA AnsweredIs ==
    ASSUME ProcessTypes, NEW r \in CardRequest, NEW a, a.result \in Results, a.cards \in Texts,
           a.alone \in BOOLEAN, Answered(r, a)
    PROVE  /\ request' \in [CardRequest -> Requests] /\ PiIsNew(r)
           /\ \A q \in CardRequest \ {r} : request'[q] = request[q]
           /\ request'[r].tools = 0 /\ request'[r].step = "done"
           /\ request'[r].result = a.result /\ request'[r].cards = a.cards /\ request'[r].alone = a.alone
  <1> DEFINE n == [NewRequest EXCEPT !.step = "done", !.result = a.result, !.cards = a.cards,
                                     !.alone = a.alone]
  <1>1. /\ n \in Requests /\ n.tools = 0 /\ n.step = "done" /\ n.result = a.result /\ n.cards = a.cards
        /\ n.alone = a.alone
    <2>0. NoQuery \in Texts /\ "none" \in Results BY DEF Results, Texts
    <2>1. NewRequest \in Requests /\ NewRequest.tools = 0 BY <2>0 DEF NewRequest, Requests
    <2> QED BY <2>1 DEF Requests
  <1>2. request' = [request EXCEPT ![r] = n] /\ PiIsNew(r) BY DEF Answered
  <1> HIDE DEF n
  <1> QED BY <1>1, <1>2, PutOne DEF ProcessTypes
\* What the envelope of the tool, or the last words, make of the request.
OwnCards(r) ==
    \/ request'[r].result # "cards"
    \/ /\ envelope[r].status = "cards" /\ envelope[r].query = QueryOf[r]
       /\ request'[r].cards = envelope[r].cards /\ request'[r].alone = envelope[r].alone
LEMMA AnsweredGoes ==
    ASSUME Typed, NEW r \in CardRequest, FaceMoves, quota' = quota, quota \in SearchQuotas,
           helper' \in [Call -> Helpers], SomeEnd,
           NEW a, a.result \in Results, a.cards \in Texts, a.alone \in BOOLEAN, Answered(r, a)
    PROVE  /\ AgentsTyped' /\ Renewed(r) /\ request'[r].step = "done"
           /\ request'[r].result = a.result /\ request'[r].cards = a.cards /\ request'[r].alone = a.alone
  <1>1. /\ request' \in [CardRequest -> Requests] /\ PiIsNew(r)
        /\ \A q \in CardRequest \ {r} : request'[q] = request[q]
        /\ request'[r].tools = 0 /\ request'[r].step = "done"
        /\ request'[r].result = a.result /\ request'[r].cards = a.cards /\ request'[r].alone = a.alone
    BY AnsweredIs DEF Typed, AgentsTyped
  <1>2. request'[r].tools \in 0..quota.tools[r] BY <1>1, SearchAssumption
  <1>3. AgentsTyped' /\ Renewed(r) BY <1>1, <1>2, NewPiGoes
  <1> QED BY <1>1, <1>3
LEMMA EnvelopeGoes ==
    ASSUME Typed, NEW r \in CardRequest, FaceMoves, quota' = quota, quota \in SearchQuotas,
           helper' \in [Call -> Helpers], SomeEnd,
           Answered(r, AnswerTo(envelope[r], QueryOf[r]))
    PROVE  AgentsTyped' /\ Renewed(r) /\ OwnCards(r) /\ request'[r].step = "done"
  <1> DEFINE a == AnswerTo(envelope[r], QueryOf[r])
  <1>1. envelope[r] \in Envelopes BY DEF Typed, AgentsTyped, ProcessTypes
  <1>2. /\ a.result \in Results /\ a.cards \in Texts /\ a.alone \in BOOLEAN /\ Answered(r, a)
        /\ a.result = "cards" => /\ envelope[r].status = "cards" /\ envelope[r].query = QueryOf[r]
                                 /\ a.cards = envelope[r].cards /\ a.alone = envelope[r].alone
    BY <1>1, AnswerIs
  <1> HIDE DEF a
  <1>3. /\ AgentsTyped' /\ Renewed(r) /\ request'[r].step = "done"
        /\ request'[r].result = a.result /\ request'[r].cards = a.cards /\ request'[r].alone = a.alone
    BY <1>2, AnsweredGoes
  <1> QED BY <1>2, <1>3 DEF OwnCards
LEMMA WordsGo ==
    ASSUME Typed, NEW r \in CardRequest, FaceMoves, quota' = quota, quota \in SearchQuotas,
           helper' \in [Call -> Helpers], SomeEnd,
           NEW said \in {"own words", "blocked", "failed"}, Answered(r, Said(said))
    PROVE  AgentsTyped' /\ Renewed(r) /\ OwnCards(r) /\ request'[r].step = "done"
  <1> DEFINE a == Said(said)
  <1>1. said \in Results \ {"cards"} BY DEF Results
  <1>2. a.result = said /\ a.result \in Results /\ a.cards \in Texts /\ a.alone \in BOOLEAN /\ Answered(r, a)
    BY <1>1, SaidIs
  <1> HIDE DEF a
  <1>3. AgentsTyped' /\ Renewed(r) /\ request'[r].step = "done" /\ request'[r].result = a.result
    BY <1>2, AnsweredGoes
  <1> QED BY <1>1, <1>2, <1>3 DEF OwnCards
LEMMA AgentEndsGoes ==
    ASSUME Typed, NEW r \in CardRequest, AgentEnds(r), quota' = quota, quota \in SearchQuotas
    PROVE  /\ AgentsTyped' /\ Renewed(r) /\ OwnCards(r) /\ helper' = helper
           /\ request'[r].step \in {"asking", "done"}
  <1>1. Asking(r) /\ FaceMoves /\ helper' = helper BY DEF AgentEnds, tabVars, FaceMoves
  <1>2. helper' \in [Call -> Helpers] /\ SomeEnd BY <1>1 DEF SomeEnd, Typed, AgentsTyped, ProcessTypes
  <1>3. CASE Answered(r, AnswerTo(envelope[r], QueryOf[r])) BY <1>1, <1>2, <1>3, EnvelopeGoes
  <1>4. CASE \E said \in {"own words", "failed"} : Answered(r, Said(said))
    BY <1>1, <1>2, <1>4, WordsGo
  <1>5. CASE request' = [request EXCEPT ![r].attempt = 2] /\ PiIsNew(r)
    <2>1. /\ request' \in [CardRequest -> Requests]
          /\ \A q \in CardRequest \ {r} : request'[q] = request[q]
          /\ request'[r].tools = request[r].tools /\ request'[r].step = request[r].step
          /\ request'[r].result = request[r].result
      BY <1>5 DEF Typed, AgentsTyped, ProcessTypes, Requests
    <2>2. request[r].tools \in 0..quota.tools[r] BY DEF Typed, AgentsTyped, AgentOK, RequestOK
    <2>3. request[r].step = "asking" /\ request[r].result = "none"
      BY <1>1 DEF Asking, Typed, AgentsTyped, AgentOK, RequestOK
    <2>4. AgentsTyped' /\ Renewed(r) BY <1>1, <1>2, <1>5, <2>1, <2>2, <2>3, NewPiGoes
    <2> QED BY <1>1, <2>1, <2>3, <2>4 DEF OwnCards
  <1> QED BY <1>1, <1>3, <1>4, <1>5 DEF AgentEnds
LEMMA PiIsStoppedGoes ==
    ASSUME Typed, NEW r \in CardRequest, PiIsStopped(r), quota' = quota, quota \in SearchQuotas
    PROVE  AgentsTyped' /\ Renewed(r) /\ OwnCards(r) /\ SomeEnd /\ request'[r].step = "done"
  <1>1. FaceMoves BY DEF PiIsStopped, tabVars, FaceMoves
  <1>2. helper' \in [Call -> Helpers] /\ SomeEnd BY HelpersEnd DEF PiIsStopped
  <1>3. CASE Answered(r, AnswerTo(envelope[r], QueryOf[r])) BY <1>1, <1>2, <1>3, EnvelopeGoes
  <1>4. CASE \E said \in {"blocked", "failed"} : Answered(r, Said(said))
    BY <1>1, <1>2, <1>4, WordsGo
  <1> QED BY <1>2, <1>3, <1>4 DEF PiIsStopped

LEMMA OpenedIs ==
    ASSUME NEW g \in Gates, g.count \in 0..MaxActions, ~(g.ready /\ g.stop), NEW tool
    PROVE  /\ Opened(g, tool) \in Gates /\ Opened(g, tool).count \in 0..MaxActions
           /\ ~(Opened(g, tool).ready /\ Opened(g, tool).stop)
           /\ Reset(tool) => Opened(g, tool) = NewGate
           /\ ~Reset(tool) => Opened(g, tool) = g
  <1>1. CASE Reset(tool)
    <2>1. Opened(g, tool) = NewGate BY <1>1 DEF Opened
    <2>2. 0 \in 0..MaxActions BY SearchAssumption
    <2>3. NewGate.count \in 0..MaxActions /\ NewGate \in Gates BY <2>2, NewGateIsOne
    <2>4. ~NewGate.ready BY DEF NewGate
    <2>5. ~(Opened(g, tool).ready /\ Opened(g, tool).stop) BY <2>1, <2>4, Zenon
    <2> QED BY <1>1, <2>1, <2>3, <2>5, Zenon
  <1>2. CASE ~Reset(tool)
    <2>1. Opened(g, tool) = g BY <1>2 DEF Opened
    <2> QED BY <1>2, <2>1, Zenon
  <1> QED BY <1>1, <1>2
LEMMA OneMore == ASSUME NEW n \in Nat, n < MaxActions PROVE n + 1 \in 0..MaxActions
  BY SearchAssumption
LEMMA PassedIs ==
    ASSUME NEW g \in Gates, g.count \in 0..MaxActions, ~(g.ready /\ g.stop), NEW tool \in Tool,
           Passes(g, tool)
    PROVE  /\ Passed(g, tool) \in Gates /\ Passed(g, tool).count \in 0..MaxActions
           /\ ~(Passed(g, tool).ready /\ Passed(g, tool).stop)
           /\ Passed(g, tool).ready => g.ready /\ tool = "state"
           /\ tool \in Mutating => g.ready
  <1> DEFINE o == Opened(g, tool)
  <1>1. /\ o \in Gates /\ o.count \in 0..MaxActions /\ ~(o.ready /\ o.stop)
        /\ Reset(tool) => o = NewGate
        /\ ~Reset(tool) => o = g
    BY OpenedIs
  <1>2. Opened(g, tool) = o OBVIOUS
  <1> HIDE DEF o
  <1>3. ~NewGate.ready BY DEF NewGate
  <1>4. tool \in Mutating => ~Reset(tool) BY DEF Mutating, Reset
  <1>5. tool \in Mutating => g.ready BY <1>1, <1>2, <1>4, Zenon DEF Passes
  <1>6. CASE tool = "search"
    <2>1. Reset(tool) /\ tool \notin Mutating BY <1>6 DEF Reset, Mutating
    <2>2. Passed(g, tool) = o BY <1>2, <1>6 DEF Passed
    <2>3. o = NewGate BY <1>1, <2>1
    <2>4. ~Passed(g, tool).ready BY <1>3, <2>2, <2>3, Zenon
    <2>5. Passed(g, tool) \in Gates /\ Passed(g, tool).count \in 0..MaxActions BY <1>1, <2>2
    <2> QED BY <1>5, <2>4, <2>5, Zenon
  <1>7. CASE tool # "search"
    <2> DEFINE n == [o EXCEPT !.count = @ + 1, !.ready = @ /\ tool \notin Mutating]
    <2>1. Passed(g, tool) = n BY <1>2, <1>7 DEF Passed
    <2>2. o.count < MaxActions BY <1>2, <1>7 DEF Passes
    <2>3. o.count + 1 \in 0..MaxActions /\ o.count + 1 \in Nat BY <1>1, <2>2, OneMore
    <2>4. n.count = o.count + 1 BY <1>1 DEF Gates
    <2>5. n.stop = o.stop BY <1>1 DEF Gates
    <2>6. n.ready = (o.ready /\ tool \notin Mutating) BY <1>1 DEF Gates
    <2>7. n \in Gates BY <1>1, <2>3 DEF Gates
    <2> HIDE DEF n
    <2>8. ~(n.ready /\ n.stop) BY <1>1, <2>5, <2>6, Zenon
    <2>9. tool \in {"open", "search"} => ~n.ready
      <3>1. tool \in {"open", "search"} => Reset(tool) BY DEF Reset
      <3> QED BY <1>1, <1>3, <2>6, <3>1, Zenon
    <2>10. n.ready => tool = "state"
      <3>1. tool \in {"open", "search", "state"} \/ tool \in Mutating BY DEF Tool, Mutating
      <3> QED BY <2>6, <2>9, <3>1
    <2>11. tool = "state" => ~Reset(tool) BY DEF Reset
    <2>12. n.ready => g.ready BY <1>1, <2>6, <2>10, <2>11, Zenon
    <2>13. n.count \in 0..MaxActions BY <2>3, <2>4
    <2> QED BY <1>5, <2>1, <2>7, <2>8, <2>10, <2>12, <2>13, Zenon
  <1> QED BY <1>6, <1>7
\* The helpers when one of them starts.
LEMMA JoinedIs ==
    ASSUME helper \in [Call -> Helpers], NEW k \in Call, NEW tool, NEW j \in Call
    PROVE  /\ Joined(k, tool) \in [Call -> Helpers]
           /\ Joined(k, tool)[j] \in {helper[j], [helper[j] EXCEPT !.alone = FALSE]}
  <1> DEFINE n(i) == [helper[i] EXCEPT !.alone = FALSE]
  <1>1. Joined(k, tool) = [i \in Call |-> IF tool \in Moving /\ Running(i) THEN n(i) ELSE helper[i]] BY DEF Joined
  <1>2. \A i \in Call : n(i) \in Helpers BY NotAlone
  <1>3. n(j) = [helper[j] EXCEPT !.alone = FALSE] OBVIOUS
  <1> HIDE DEF n
  <1> QED BY <1>1, <1>2, <1>3
LEMMA JoinedMoves ==
    ASSUME helper \in [Call -> Helpers], NEW k \in Call, NEW tool \in Moving, NEW j \in Call, Running(j)
    PROVE  Joined(k, tool)[j].alone = FALSE
  <1>1. Joined(k, tool)[j] = [helper[j] EXCEPT !.alone = FALSE] BY DEF Joined
  <1> QED BY <1>1, NotAlone
\* The helper of a call as it starts.
Starts(k, tool, text) ==
    /\ helper'[k].tool = tool /\ helper'[k].text = text /\ helper'[k].todo = Program(tool)
    /\ helper'[k].read = NoQuery /\ helper'[k].page = NoPage
    /\ helper'[k].alone => \A j \in Call : helper[j].tool \notin Moving
    /\ \A j \in Call \ {k} : Like(j) /\ (tool \in Moving /\ Running(j) => helper'[j].alone = FALSE)
LEMMA CallToolStarts ==
    ASSUME Typed, NEW k \in Call, NEW tool \in Tool, NEW text \in Texts, CallTool(k, tool, text)
    PROVE  helper' \in [Call -> Helpers] /\ Starts(k, tool, text) /\ helper'[k].copy = NoTabLease
  <1> DEFINE lone == \A j \in Call : helper[j].tool \notin Moving
             h == [NoHelper EXCEPT !.tool = tool, !.text = text, !.todo = Program(tool), !.alone = lone]
             J == Joined(k, tool)
  <1>1. helper' = [J EXCEPT ![k] = h] BY DEF CallTool
  <1>2. lone \in BOOLEAN /\ (lone => \A j \in Call : helper[j].tool \notin Moving) OBVIOUS
  <1> HIDE DEF lone
  <1>3. /\ h \in Helpers /\ h.tool = tool /\ h.text = text /\ h.todo = Program(tool) /\ h.page = NoPage
        /\ h.copy = NoTabLease /\ h.read = NoQuery /\ h.alone = lone
    <2>1. Program(tool) \in Todos BY Programs DEF Todos
    <2>2. NoHelper \in Helpers /\ NoHelper.page = NoPage /\ NoHelper.copy = NoTabLease
          /\ NoHelper.read = NoQuery
      BY NoHelperIsOne
    <2> QED BY <1>2, <2>1, <2>2 DEF Helpers
  <1> HIDE DEF h
  <1>4. J \in [Call -> Helpers] BY JoinedIs DEF Typed, AgentsTyped, ProcessTypes
  <1>5. J = Joined(k, tool) OBVIOUS
  <1> HIDE DEF J
  <1>6. helper' \in [Call -> Helpers] /\ helper'[k] = h /\ \A j \in Call \ {k} : helper'[j] = J[j]
    BY <1>1, <1>3, <1>4, PutOne
  <1>7. ASSUME NEW j \in Call \ {k}
        PROVE  Like(j) /\ (tool \in Moving /\ Running(j) => helper'[j].alone = FALSE)
    <2>1. helper \in [Call -> Helpers] /\ j \in Call BY DEF Typed, AgentsTyped, ProcessTypes
    <2> DEFINE v == Joined(k, tool)[j]
    <2>2. v \in {helper[j], [helper[j] EXCEPT !.alone = FALSE]} BY <2>1, JoinedIs
    <2>3. /\ v.tool = helper[j].tool /\ v.text = helper[j].text /\ v.todo = helper[j].todo
          /\ v.page = helper[j].page /\ v.copy = helper[j].copy /\ v.read = helper[j].read
          /\ v.alone \in {helper[j].alone, FALSE}
      <3>1. helper[j] \in Helpers BY <2>1
      <3> HIDE DEF v
      <3> QED BY <2>2, <3>1, NotAlone
    <2>4. tool \in Moving /\ Running(j) => v.alone = FALSE BY <2>1, JoinedMoves
    <2>5. helper'[j] = v BY <1>5, <1>6
    <2> HIDE DEF v
    <2> QED BY <2>2, <2>3, <2>4, <2>5 DEF Like
  <1>8. helper'[k].alone => \A j \in Call : helper[j].tool \notin Moving BY <1>2, <1>3, <1>6, Zenon
  <1> QED BY <1>3, <1>6, <1>7, <1>8 DEF Starts
LEMMA CallToolGoes ==
    ASSUME Typed, NEW k \in Call, NEW tool \in Tool, NEW text \in Texts, CallTool(k, tool, text),
           quota' = quota, quota \in SearchQuotas
    PROVE  LET r == CallerOf[k] IN
           /\ AgentsTyped' /\ Starts(k, tool, text)
           /\ request'[r].step = "asking" /\ request[r].step = "asking" /\ request'[r].result = "none"
           /\ \A q \in CardRequest \ {r} : Same(q) /\ seen'[q] = seen[q]
           /\ envelope' = envelope /\ gate'[r] = Passed(gate[r], tool) /\ Passes(gate[r], tool)
           /\ seen'[r] = IF Reset(tool) THEN NothingSeen ELSE seen[r]
  <1> DEFINE r == CallerOf[k]
  <1>0. r \in CardRequest /\ r = CallerOf[k] BY SearchAssumption
  <1> HIDE DEF r
  <1>1. Asking(r) /\ FaceMoves /\ face' = face /\ envelope' = envelope
    BY <1>0 DEF CallTool, tabVars, FaceMoves, Heard
  <1>2. /\ request[r] \in Requests /\ request[r].result = "none" /\ request[r].step = "asking"
        /\ request[r].tools \in 0..quota.tools[r] /\ request[r].tools < quota.tools[r]
    BY <1>0, <1>1 DEF Typed, AgentsTyped, AgentOK, RequestOK, Asking, ProcessTypes, CallTool
  <1>3. request[r].tools + 1 \in 0..quota.tools[r] /\ request[r].tools + 1 \in Nat
    <2>1. quota.tools[r] \in Nat BY <1>0, SearchAssumption
    <2> QED BY <1>2, <2>1
  <1>4. /\ request' \in [CardRequest -> Requests] /\ request'[r].step = "asking"
        /\ request'[r].result = "none" /\ request'[r].tools \in 0..quota.tools[r]
        /\ \A q \in CardRequest \ {r} : request'[q] = request[q]
    <2>1. request' = [request EXCEPT ![r].tools = @ + 1] BY <1>0 DEF CallTool
    <2> QED BY <1>0, <1>2, <1>3, <2>1 DEF Typed, AgentsTyped, ProcessTypes, Requests
  <1>5. gate[r] \in Gates /\ gate[r].count \in 0..MaxActions /\ ~(gate[r].ready /\ gate[r].stop)
    BY <1>0 DEF Typed, AgentsTyped, ProcessTypes, AgentOK, GateOK
  <1>6. Passes(gate[r], tool) /\ gate' = [gate EXCEPT ![r] = Passed(gate[r], tool)] BY <1>0 DEF CallTool
  <1> DEFINE g == Passed(gate[r], tool)
  <1>7. g \in Gates /\ g.count \in 0..MaxActions /\ ~(g.ready /\ g.stop) BY <1>5, <1>6, PassedIs
  <1>8. gate' = [gate EXCEPT ![r] = g] /\ g = Passed(gate[r], tool) BY <1>6
  <1> HIDE DEF g
  <1>9. gate' \in [CardRequest -> Gates] /\ gate'[r] = g
        /\ \A q \in CardRequest \ {r} : gate'[q] = gate[q]
    BY <1>0, <1>7, <1>8, PutOne DEF Typed, AgentsTyped, ProcessTypes
  <1>10. helper' \in [Call -> Helpers] /\ Starts(k, tool, text) /\ helper'[k].copy = NoTabLease
    BY CallToolStarts
  <1>11. /\ seen' \in [CardRequest -> Observations] /\ \A q \in CardRequest \ {r} : seen'[q] = seen[q]
         /\ seen'[r] = IF Reset(tool) THEN NothingSeen ELSE seen[r]
    <2>1. seen' = IF Reset(tool) THEN [seen EXCEPT ![r] = NothingSeen] ELSE seen BY <1>0 DEF CallTool
    <2>2. seen \in [CardRequest -> Observations] BY DEF Typed, AgentsTyped, ProcessTypes
    <2> QED BY <1>0, <2>1, <2>2, NothingSeenIsOne, PutOne
  <1>12. ProcessTypes' BY <1>1, <1>4, <1>9, <1>10, <1>11 DEF Typed, AgentsTyped, ProcessTypes
  <1>13. \A q \in CardRequest \ {r} : Same(q) BY <1>1, <1>4, <1>9 DEF Same
  <1>14. HelperOK(k)'
    <2>1. helper'[k].todo \in Left(helper'[k].tool) /\ helper'[k].copy.page = NoPage
      BY <1>10, Programs, NoHelperIsOne DEF Starts
    <2>2. helper'[k].todo \notin Waiting
      <3>1. Program(tool) \in {ToSearch, JustOpen, ToRead, JustFill, JustClick} BY Programs DEF Tool
      <3>2. Head(Program(tool)) \notin {"select", "lease"} BY <3>1, Tails
      <3>3. \A t \in Waiting : Head(t) \in {"select", "lease"} BY Tails DEF Waiting
      <3> QED BY <1>10, <3>2, <3>3 DEF Starts
    <2> QED BY <1>10, <2>1, <2>2 DEF HelperOK, Starts
  <1>15. ASSUME NEW j \in Call \ {k} PROVE HelperOK(j)'
    BY <1>1, <1>10, HelperStays DEF Starts, Typed, AgentsTyped
  <1>16. GateOK(r)' BY <1>7, <1>9, Zenon DEF GateOK
  <1>17. RequestOK(r)'
    <2>1. quota'.tools[r] = quota.tools[r] OBVIOUS
    <2> QED BY <1>4, <2>1 DEF RequestOK
  <1>18. ASSUME NEW q \in CardRequest \ {r} PROVE AgentOK(q)'
    BY <1>13, AgentStays DEF Typed, AgentsTyped
  <1>19. AgentsTyped' BY <1>12, <1>14, <1>15, <1>16, <1>17, <1>18 DEF AgentsTyped, AgentOK
  <1>20. gate'[r] = Passed(gate[r], tool) BY <1>8, <1>9
  <1> QED BY <1>0, <1>1, <1>2, <1>4, <1>6, <1>10, <1>11, <1>13, <1>19, <1>20

----------------------------------------------------------------------------
(* The types are an invariant.                                             *)

LEMMA TypesInit == SearchInit => SearchTypes
  <1> SUFFICES ASSUME SearchInit PROVE SearchTypes
    OBVIOUS
  <1>1. TabTypes
    BY DEF SearchInit, TabTypes, Shows, Texts, Born
  <1>2. LeaseTypes
    BY NoHelperIsOne DEF SearchInit, LeaseTypes, Watchers, Pages, Born
  <1>3. NewRequest \in Requests /\ NewRequest.step = "new" /\ NewRequest.tools = 0 /\ NewRequest.result = "none"
    <2>1. NoQuery \in Texts /\ "none" \in Results BY DEF Texts, Results
    <2> QED BY <2>1 DEF NewRequest, Requests
  <1>4. ProcessTypes
    BY <1>3, NewGateIsOne, NoHelperIsOne, NoEnvelopeIsOne, NothingSeenIsOne DEF SearchInit, ProcessTypes
  <1>5. ASSUME NEW r \in CardRequest PROVE AgentOK(r)
    <2>1. request[r] = NewRequest /\ gate[r] = NewGate /\ envelope[r] = NoEnvelope
      BY DEF SearchInit
    <2>2. GateOK(r)
      <3>1. 0 \in 0..MaxActions BY SearchAssumption
      <3>2. gate[r].count \in 0..MaxActions BY <2>1, <3>1, NewGateIsOne
      <3>3. gate[r].ready = FALSE BY <2>1, NewGateIsOne
      <3> QED BY <3>2, <3>3, Zenon DEF GateOK
    <2>3. RequestOK(r)
      <3>1. 0 \in 0..quota.tools[r] BY SearchAssumption DEF SearchInit
      <3> QED BY <1>3, <2>1, <3>1 DEF RequestOK
    <2> QED BY <2>2, <2>3 DEF AgentOK
  <1>6. ASSUME NEW k \in Call PROVE HelperOK(k)
    <2>1. helper[k] = NoHelper BY DEF SearchInit
    <2> QED BY <2>1, NoHelperIsOne, Apart DEF HelperOK, Left, Waiting
  <1> QED BY <1>1, <1>2, <1>4, <1>5, <1>6 DEF SearchTypes, SearchInit, Typed, AgentsTyped

\* A step that leaves the processes alone.
LEMMA AgentsStay ==
    ASSUME Typed, UNCHANGED <<agentVars, helper, seen, quota>>, FaceMoves
    PROVE  AgentsTyped'
  <1>1. \A k \in Call : Like(k) BY DEF Like
  <1>2. \A r \in CardRequest : Same(r) BY DEF Same, agentVars
  <1>3. ProcessTypes' BY DEF Typed, AgentsTyped, ProcessTypes, agentVars
  <1> QED BY <1>1, <1>2, <1>3, AgentStays, HelperStays DEF Typed, AgentsTyped
\* A tab that closes takes the loneliness of what goes on with it.
LEMMA ClosedAgents ==
    ASSUME Typed, NEW p \in Pages, Closed(p), UNCHANGED <<agentVars, quota>>
    PROVE  /\ AgentsTyped' /\ \A k \in Call : Like(k)
           /\ \A r \in CardRequest : seen'[r].page = seen[r].page
           /\ \/ UNCHANGED <<selected, helper, seen>>
              \/ /\ \A k \in Call : Running(k) => helper'[k].alone = FALSE
                 /\ \A r \in CardRequest : seen'[r].alone = FALSE
  <1>0. helper \in [Call -> Helpers] /\ seen \in [CardRequest -> Observations]
    BY DEF Typed, AgentsTyped, ProcessTypes
  <1>1. FaceMoves BY ClosedTabs DEF Typed
  <1>2. CASE UNCHANGED <<selected, helper, seen>>
    <2>1. AgentsTyped' BY <1>1, <1>2, AgentsStay
    <2>2. \A k \in Call : Like(k) BY <1>2 DEF Like
    <2> QED BY <1>2, <2>1, <2>2
  <1>3. CASE /\ helper' = [k \in Call |-> IF Running(k) THEN [helper[k] EXCEPT !.alone = FALSE] ELSE helper[k]]
             /\ seen' = [r \in CardRequest |-> [seen[r] EXCEPT !.alone = FALSE]]
    <2> DEFINE n(k) == [helper[k] EXCEPT !.alone = FALSE]
    <2>1. ASSUME NEW k \in Call
          PROVE  /\ n(k) \in Helpers /\ n(k).tool = helper[k].tool /\ n(k).text = helper[k].text
                 /\ n(k).todo = helper[k].todo /\ n(k).page = helper[k].page /\ n(k).copy = helper[k].copy
                 /\ n(k).read = helper[k].read /\ n(k).alone = FALSE
      <3>1. helper[k] \in Helpers BY <1>0
      <3> QED BY <3>1, NotAlone
    <2>2. helper' = [k \in Call |-> IF Running(k) THEN n(k) ELSE helper[k]] BY <1>3
    <2> HIDE DEF n
    <2>3. helper' \in [Call -> Helpers] BY <1>0, <2>1, <2>2
    <2>4. \A k \in Call : helper'[k] = IF Running(k) THEN n(k) ELSE helper[k] BY <2>2
    <2>5. \A k \in Call : Like(k) BY <2>1, <2>4 DEF Like
    <2>6. \A k \in Call : Running(k) => helper'[k].alone = FALSE BY <2>1, <2>4
    <2>7. /\ seen' \in [CardRequest -> Observations]
          /\ \A r \in CardRequest : seen'[r].page = seen[r].page /\ seen'[r].alone = FALSE
      BY <1>0, <1>3 DEF Observations
    <2>8. ProcessTypes' BY <2>3, <2>7 DEF Typed, AgentsTyped, ProcessTypes, agentVars
    <2>9. \A r \in CardRequest : Same(r) BY DEF Same, agentVars
    <2>10. AgentsTyped' BY <1>1, <2>5, <2>8, <2>9, AgentStays, HelperStays DEF Typed, AgentsTyped
    <2> QED BY <2>5, <2>6, <2>7, <2>10
  <1> QED BY <1>2, <1>3 DEF Closed

LEMMA AgentStepTypes ==
    ASSUME SearchTypes, AgentStep, quota' = quota PROVE Typed'
  <1>1. Typed /\ quota \in SearchQuotas BY DEF SearchTypes
  <1>2. UNCHANGED tabVars /\ UNCHANGED <<tabLease, watcher>>
    BY DEF AgentStep, AskCards, AgentEnds, PiIsStopped, KillHelper, CallTool, leaseVars
  <1>3. TabTypes' /\ FaceMoves BY <1>1, <1>2, TabsStay DEF Typed
  <1>4. LeaseTypes' BY <1>1, <1>2 DEF Typed, LeaseTypes, tabVars, Born
  <1>5. AgentsTyped'
    <2>1. CASE \E r \in CardRequest : AskCards(r) BY <1>1, <2>1, AskCardsGoes
    <2>2. CASE \E r \in CardRequest : AgentEnds(r) BY <1>1, <2>2, AgentEndsGoes
    <2>3. CASE \E r \in CardRequest : PiIsStopped(r) BY <1>1, <2>3, PiIsStoppedGoes
    <2>4. CASE \E k \in Call : KillHelper(k) BY <1>1, <1>3, <2>4, PayloadGoes DEF KillHelper, Went
    <2>5. CASE \E k \in Call, text \in Query : CallTool(k, "search", text)
      BY <1>1, <2>5, CallToolGoes DEF Tool, Texts
    <2>6. ASSUME NEW k \in Call, NEW tool \in Tool \ {"search"},
                 CallTool(k, tool, IF tool = "fill" THEN QueryOf[CallerOf[k]] ELSE NoQuery)
          PROVE  AgentsTyped'
      <3>1. (IF tool = "fill" THEN QueryOf[CallerOf[k]] ELSE NoQuery) \in Texts BY SearchAssumption DEF Texts
      <3> QED BY <1>1, <2>6, <3>1, CallToolGoes
    <2> QED BY <2>1, <2>2, <2>3, <2>4, <2>5, <2>6 DEF AgentStep
  <1> QED BY <1>3, <1>4, <1>5 DEF Typed
LEMMA HelperStepTypes ==
    ASSUME SearchTypes, HelperStep, quota' = quota PROVE Typed'
  <1>1. Typed BY DEF SearchTypes
  <1>2. PICK r \in Call :
            /\ Running(r)
            /\ \/ NewTab(r) \/ SelectTab(r) \/ WriteLease(r) \/ Look(r) \/ Act(r) \/ TouchLease(r)
               \/ TerminalState(r) \/ CommandFails(r) \/ HelperEnds(r)
    BY DEF HelperStep
  <1>3. TabTypes /\ LeaseTypes BY <1>1 DEF Typed
  <1>4. SUFFICES TabTypes' /\ FaceMoves /\ LeaseTypes' /\ Went(r) BY DEF Typed, Went
  <1>5. CASE NewTab(r)
    <2>1. TabTypes' /\ FaceMoves BY <1>3, <1>5, NewTabTabs
    <2>2. UNCHANGED leaseVars BY <1>5 DEF NewTab
    <2> QED BY <1>1, <1>2, <1>3, <1>5, <2>1, <2>2, LeasesStay, NewTabGoes
  <1>6. CASE SelectTab(r)
    <2>1. TabTypes' /\ FaceMoves BY <1>1, <1>3, <1>6, SelectTabTabs, HelperIs
    <2>2. UNCHANGED leaseVars BY <1>6 DEF SelectTab
    <2> QED BY <1>1, <1>2, <1>3, <1>6, <2>1, <2>2, LeasesStay, SelectTabGoes
  <1>7. CASE WriteLease(r)
    <2>1. TabTypes' /\ FaceMoves BY <1>3, <1>7, TabsStay DEF WriteLease
    <2> QED BY <1>1, <1>2, <1>3, <1>7, <2>1, WriteLeaseGoes, WriteLeaseLeases
  <1>8. CASE Look(r)
    <2>1. TabTypes' /\ FaceMoves /\ LeaseTypes' BY <1>3, <1>8, TabsStay, LeasesStay DEF Look
    <2> QED BY <1>1, <1>2, <1>8, <2>1, LookGoes
  <1>9. CASE Act(r)
    <2>1. TabTypes' /\ FaceMoves /\ Went(r) BY <1>1, <1>2, <1>9, ActGoes
    <2>2. UNCHANGED leaseVars BY <1>9 DEF Act
    <2> QED BY <1>3, <2>1, <2>2, LeasesStay
  <1>10. CASE TouchLease(r)
    <2>1. TabTypes' /\ FaceMoves BY <1>3, <1>10, TabsStay DEF TouchLease
    <2> QED BY <1>1, <1>2, <1>3, <1>10, <2>1, HelperIs, TouchLeaseGoes, TouchLeaseLeases
  <1>11. CASE TerminalState(r)
    <2>1. TabTypes' /\ FaceMoves /\ LeaseTypes' BY <1>3, <1>11, TabsStay, LeasesStay DEF TerminalState
    <2>2. Payload(r, "terminal") /\ UNCHANGED request BY <1>11 DEF TerminalState
    <2> QED BY <1>1, <1>2, <2>1, <2>2, PayloadGoes
  <1>12. CASE CommandFails(r)
    <2>1. TabTypes' /\ FaceMoves BY <1>3, <1>12, TabsStay DEF CommandFails
    <2>2. Payload(r, "error") /\ UNCHANGED request BY <1>12 DEF CommandFails
    <2>3. LeaseTypes' BY <1>3, <1>12 DEF LeaseTypes, CommandFails, tabVars, Born
    <2> QED BY <1>1, <1>2, <2>1, <2>2, <2>3, PayloadGoes
  <1>13. CASE HelperEnds(r)
    <2>1. TabTypes' /\ FaceMoves /\ LeaseTypes' BY <1>3, <1>13, TabsStay, LeasesStay DEF HelperEnds
    <2>2. Payload(r, "ok") /\ UNCHANGED request BY <1>13 DEF HelperEnds
    <2> QED BY <1>1, <1>2, <2>1, <2>2, PayloadGoes
  <1> QED BY <1>2, <1>5, <1>6, <1>7, <1>8, <1>9, <1>10, <1>11, <1>12, <1>13
LEMMA OtherStepTypes ==
    ASSUME SearchTypes, WatcherStep \/ World, quota' = quota PROVE Typed'
  <1>1. Typed /\ TabTypes /\ LeaseTypes BY DEF SearchTypes, Typed
  <1>2. UNCHANGED agentVars
    BY DEF WatcherStep, World, Watch, Clean, Close, DeleteLease, LeaseGoesQuiet, PageChanges, ClosedByHand
  <1>3. SUFFICES TabTypes' /\ LeaseTypes' /\ AgentsTyped' BY DEF Typed
  <1>4. ASSUME NEW w \in Page, Watch(w) \/ Clean(w) \/ DeleteLease(w)
        PROVE  TabTypes' /\ LeaseTypes' /\ AgentsTyped'
    <2>1. TabTypes' /\ FaceMoves BY <1>1, <1>4, TabsStay DEF Watch, Clean, DeleteLease
    <2>2. LeaseTypes' BY <1>1, <1>4, <2>1, WatchLeases, CleanLeases, DeleteLeaseLeases
    <2>3. UNCHANGED <<helper, seen>> BY <1>4 DEF Watch, Clean, DeleteLease
    <2> QED BY <1>1, <1>2, <2>1, <2>2, <2>3, AgentsStay
  <1>5. ASSUME NEW w \in Page, Close(w) PROVE TabTypes' /\ LeaseTypes' /\ AgentsTyped'
    <2>1. watcher[w].page \in Pages BY <1>1 DEF LeaseTypes, Watchers
    <2>2. LeaseTypes' BY <1>1, <1>5, CloseLeases
    <2>3. CASE Closed(watcher[w].page) BY <1>1, <1>2, <2>1, <2>2, <2>3, ClosedTabs, ClosedAgents
    <2>4. CASE UNCHANGED <<tabVars, helper, seen>> BY <1>1, <1>2, <2>2, <2>4, TabsStay, AgentsStay
    <2> QED BY <1>5, <2>3, <2>4 DEF Close
  <1>6. CASE LeaseGoesQuiet
    <2>1. TabTypes' /\ FaceMoves /\ LeaseTypes' BY <1>1, <1>6, TabsStay, LeaseGoesQuietLeases DEF LeaseGoesQuiet
    <2>2. UNCHANGED <<helper, seen>> BY <1>6 DEF LeaseGoesQuiet
    <2> QED BY <1>1, <1>2, <2>1, <2>2, AgentsStay
  <1>7. CASE PageChanges
    <2>1. UNCHANGED leaseVars /\ UNCHANGED <<helper, seen>> BY <1>7 DEF PageChanges
    <2>2. TabTypes' /\ FaceMoves BY <1>1, <1>7, PageChangesTabs
    <2> QED BY <1>1, <1>2, <2>1, <2>2, LeasesStay, AgentsStay
  <1>8. CASE ClosedByHand
    <2>1. UNCHANGED leaseVars BY <1>8 DEF ClosedByHand
    <2>2. PICK p \in Page : Closed(p) BY <1>8 DEF ClosedByHand
    <2>3. p \in Pages BY DEF Pages
    <2>4. TabTypes' /\ FaceMoves BY <1>1, <2>2, <2>3, ClosedTabs
    <2> QED BY <1>1, <1>2, <2>1, <2>2, <2>3, <2>4, LeasesStay, ClosedAgents
  <1> QED BY <1>4, <1>5, <1>6, <1>7, <1>8 DEF WatcherStep, World
LEMMA TypesNext == SearchTypes /\ [SearchNext]_searchVars => SearchTypes'
  <1> SUFFICES ASSUME SearchTypes, [SearchNext]_searchVars PROVE SearchTypes'
    OBVIOUS
  <1>1. CASE SearchNext
    <2>1. quota' = quota /\ quota \in SearchQuotas BY <1>1 DEF SearchNext, SearchTypes
    <2>2. Typed' BY <1>1, <2>1, AgentStepTypes, HelperStepTypes, OtherStepTypes DEF SearchNext
    <2> QED BY <2>1, <2>2 DEF SearchTypes
  <1>2. CASE UNCHANGED searchVars
    <2>1. UNCHANGED <<face, typed, selected, tabLease, watcher, request, gate, helper, envelope, seen, quota>>
      BY <1>2 DEF searchVars, tabVars, leaseVars, agentVars
    <2>2. Typed /\ FaceMoves /\ quota \in SearchQuotas BY <2>1 DEF SearchTypes, FaceMoves
    <2>3. UNCHANGED agentVars /\ UNCHANGED tabVars BY <2>1 DEF agentVars, tabVars
    <2>4. TabTypes' BY <2>2, <2>3, TabsStay DEF Typed
    <2>5. LeaseTypes' BY <2>1, <2>2 DEF Typed, LeaseTypes, Born
    <2>6. AgentsTyped' BY <2>1, <2>2, <2>3, AgentsStay
    <2> QED BY <2>1, <2>2, <2>4, <2>5, <2>6 DEF SearchTypes, Typed
  <1> QED BY <1>1, <1>2 DEF SearchNext

\* Tabs, the lease, the watchers and the processes stay what they can be.
THEOREM SearchStaysTyped == SearchSpec => []SearchTypes
  BY TypesInit, TypesNext, PTL DEF SearchSpec

----------------------------------------------------------------------------
(* Open tabs are leased.                                                   *)

LEMMA WaitingIs == ASSUME NEW todo \in Waiting PROVE todo # <<>> /\ Head(todo) \in {"select", "lease"}
  BY Tails, Apart DEF Waiting, AllDone
LEMMA UnleasedIs ==
    ASSUME Typed, NEW k \in Call, NEW p
    PROVE  p \in Unleased(k) <=> p = helper[k].page /\ Open(p) /\ helper[k].todo \in Waiting
  <1>1. helper[k].tool \in Tool \cup {"none"} /\ helper[k].todo \in Left(helper[k].tool) BY HelperIs
  <1>2. helper[k].todo \in Waiting => Running(k) /\ helper[k].todo # <<>>
                                      /\ Head(helper[k].todo) \in {"select", "lease"}
    <2>1. helper[k].tool = "none" => helper[k].todo = <<>> BY <1>1 DEF Left, AllDone
    <2> QED BY <2>1, WaitingIs DEF Running
  <1>3. helper[k].todo # <<>> /\ Head(helper[k].todo) \in {"select", "lease"} => helper[k].todo \in Waiting
    BY <1>1, NextCommand DEF Waiting
  <1> QED BY <1>2, <1>3 DEF Unleased
UnleasedTabs ==
    \A k \in Call : \A p :
        p \in Unleased(k) <=> p = helper[k].page /\ Open(p) /\ helper[k].todo \in Waiting
LEMMA UnleasedTabsAre == Typed => UnleasedTabs
  BY UnleasedIs DEF UnleasedTabs
LEMMA UnleasedIsNext ==
    ASSUME Typed', NEW k \in Call, NEW p
    PROVE  p \in Unleased(k)' <=> p = helper'[k].page /\ Open(p)' /\ helper'[k].todo \in Waiting
  <1>1. UnleasedTabs' BY UnleasedTabsAre, PTL
  <1> QED BY <1>1 DEF UnleasedTabs

\* A helper that leaves its tab where it was.
LEMMA StillUnleased ==
    ASSUME Typed, Typed', NEW k \in Call, NEW p, p \in Unleased(k), Open(p)',
           helper'[k].page = helper[k].page, helper'[k].todo \in Waiting
    PROVE  p \in Unleased(k)'
  BY UnleasedIs, UnleasedIsNext
LEMMA LikeUnleased ==
    ASSUME Typed, Typed', NEW k \in Call, NEW p, p \in Unleased(k), Open(p)', Like(k)
    PROVE  p \in Unleased(k)'
  BY UnleasedIs, UnleasedIsNext DEF Like
LEMMA OthersUnleased ==
    ASSUME Typed, Typed', NEW k \in Call, NEW p, p \in Unleased(k), Open(p)', helper'[k] = helper[k]
    PROVE  p \in Unleased(k)'
  BY UnleasedIs, UnleasedIsNext

\* A step that leaves the leases alone, opens no tab and lets no helper forget its own.
LEMMA LeasesKeepTabs ==
    ASSUME Typed, Typed', OpenTabsAreLeased, UNCHANGED <<tabLease, stray>>,
           \A p \in Page : Open(p)' => Open(p),
           \A k \in Call : \A p \in Page : Open(p)' /\ p \in Unleased(k) => p \in Unleased(k)'
    PROVE  OpenTabsAreLeased'
  BY DEF OpenTabsAreLeased
\* A step of a helper that stays in its tab, or has none to lease.
LEMMA HelperKeepsTabs ==
    ASSUME Typed, Typed', OpenTabsAreLeased, UNCHANGED <<tabLease, stray>>, NEW k \in Call, Others(k),
           \A p \in Page : Open(p)' => Open(p),
           \A p \in Page : Open(p)' /\ p \in Unleased(k) => p \in Unleased(k)'
    PROVE  OpenTabsAreLeased'
  <1>1. \A j \in Call : \A p \in Page : Open(p)' /\ p \in Unleased(j) => p \in Unleased(j)'
    BY OthersUnleased DEF Others
  <1> QED BY <1>1, LeasesKeepTabs
\* Helpers that go.
LEMMA HelpersGoneKeepTabs ==
    ASSUME Typed, Typed', OpenTabsAreLeased, NEW gone \in SUBSET Call, UNCHANGED <<face, tabLease>>,
           \A k \in Call \ gone : helper'[k] = helper[k],
           stray' = stray \cup UNION {Unleased(k) : k \in gone}
    PROVE  OpenTabsAreLeased'
  <1>1. \A p \in Page : Open(p)' => Open(p) BY DEF Open
  <1>2. ASSUME NEW k \in Call, NEW p \in Page, Open(p)', p \in Unleased(k)
        PROVE  p \in stray' \/ p \in Unleased(k)'
    BY <1>2, OthersUnleased
  <1> QED BY <1>1, <1>2 DEF OpenTabsAreLeased
LEMMA HelperGoneKeepsTabs ==
    ASSUME Typed, Typed', OpenTabsAreLeased, NEW k \in Call, Others(k), UNCHANGED <<face, tabLease>>,
           stray' = stray \cup Unleased(k)
    PROVE  OpenTabsAreLeased'
  <1>1. stray' = stray \cup UNION {Unleased(j) : j \in {k}} OBVIOUS
  <1>2. {k} \in SUBSET Call /\ \A j \in Call \ {k} : helper'[j] = helper[j] BY DEF Others
  <1> QED BY <1>1, <1>2, HelpersGoneKeepTabs

LEMMA AgentStepLeased ==
    ASSUME SearchTypes, Typed', OpenTabsAreLeased, AgentStep, quota' = quota PROVE OpenTabsAreLeased'
  <1>1. Typed /\ quota \in SearchQuotas BY DEF SearchTypes
  <1>2. face' = face /\ tabLease' = tabLease
    BY DEF AgentStep, AskCards, AgentEnds, PiIsStopped, KillHelper, CallTool, leaseVars, tabVars
  <1>3. \A p \in Page : Open(p)' => Open(p) BY <1>2 DEF Open
  <1>4. ASSUME NEW r \in CardRequest, AskCards(r) \/ AgentEnds(r) PROVE OpenTabsAreLeased'
    <2>1. helper' = helper /\ stray' = stray BY <1>4 DEF AskCards, AgentEnds, leaseVars
    <2> QED BY <1>1, <1>2, <1>3, <2>1, LeasesKeepTabs, OthersUnleased
  <1>5. ASSUME NEW r \in CardRequest, PiIsStopped(r) PROVE OpenTabsAreLeased'
    <2>1. PICK gone \in SUBSET CallsOf(r) :
              /\ helper' = [k \in Call |-> IF k \in gone THEN NoHelper ELSE helper[k]]
              /\ stray' = stray \cup UNION {Unleased(k) : k \in gone}
      BY <1>5 DEF PiIsStopped
    <2>2. gone \in SUBSET Call BY DEF CallsOf
    <2>3. \A k \in Call \ gone : helper'[k] = helper[k] BY <2>1
    <2> QED BY <1>1, <1>2, <2>1, <2>2, <2>3, HelpersGoneKeepTabs
  <1>6. ASSUME NEW k \in Call, KillHelper(k) PROVE OpenTabsAreLeased'
    <2>1. FaceMoves BY <1>2 DEF FaceMoves
    <2>2. Went(k) BY <1>1, <1>6, <2>1, PayloadGoes DEF KillHelper
    <2> QED BY <1>1, <1>2, <1>6, <2>2, HelperGoneKeepsTabs DEF KillHelper, Went
  <1>7. ASSUME NEW k \in Call, NEW tool \in Tool, NEW text \in Texts, CallTool(k, tool, text)
        PROVE  OpenTabsAreLeased'
    <2>1. stray' = stray /\ Unleased(k) = {} BY <1>7 DEF CallTool, leaseVars, Unleased
    <2>2. \A j \in Call \ {k} : Like(j) BY <1>1, <1>7, CallToolGoes DEF Starts
    <2>3. \A j \in Call : \A p \in Page : Open(p)' /\ p \in Unleased(j) => p \in Unleased(j)'
      BY <1>1, <2>1, <2>2, LikeUnleased
    <2> QED BY <1>1, <1>2, <1>3, <2>1, <2>3, LeasesKeepTabs
  <1>8. CASE \E k \in Call, text \in Query : CallTool(k, "search", text)
    BY <1>7, <1>8 DEF Tool, Texts
  <1>9. ASSUME NEW k \in Call, NEW tool \in Tool \ {"search"},
               CallTool(k, tool, IF tool = "fill" THEN QueryOf[CallerOf[k]] ELSE NoQuery)
        PROVE  OpenTabsAreLeased'
    <2>1. (IF tool = "fill" THEN QueryOf[CallerOf[k]] ELSE NoQuery) \in Texts BY SearchAssumption DEF Texts
    <2> QED BY <1>7, <1>9, <2>1
  <1> QED BY <1>4, <1>5, <1>6, <1>8, <1>9 DEF AgentStep

LEMMA NewTabLeased ==
    ASSUME Typed, Typed', OpenTabsAreLeased, NEW r \in Call, Running(r), NewTab(r), quota' = quota
    PROVE  OpenTabsAreLeased'
  <1>1. PICK p \in Page : /\ face[p] = "unborn" /\ face' = [face EXCEPT ![p] = "form"]
                          /\ helper'[r] = [Done(r) EXCEPT !.page = p]
    BY NewTabGoes
  <1>2. Others(r) BY NewTabGoes DEF Went
  <1>3. helper[r].todo # <<>> /\ Head(helper[r].todo) = "new" BY DEF NewTab, Doing
  <1>4. Unleased(r) = {} BY <1>3 DEF Unleased
  <1>5. UNCHANGED <<tabLease, stray>> BY DEF NewTab, leaseVars
  <1>6. \A q \in Call \ {r} : helper'[q] = helper[q] BY <1>2 DEF Others
  <1>7. \A q \in Page \ {p} : Open(q)' => Open(q) BY <1>1 DEF Open, Typed, TabTypes
  <1>8. p \in Unleased(r)'
    <2>1. Done(r) \in Helpers /\ Done(r).todo = Tail(helper[r].todo) BY <1>3, DoneIs
    <2>2. helper'[r].page = p /\ helper'[r].todo = Tail(helper[r].todo) BY <1>1, <2>1 DEF Helpers
    <2>3. Tail(helper[r].todo) \in Waiting BY <1>3, HelperIs, NextCommand DEF Waiting
    <2>4. Open(p)' BY <1>1, SearchAssumption DEF Open, Typed, TabTypes
    <2> QED BY <2>2, <2>3, <2>4, UnleasedIsNext
  <1>9. ASSUME NEW q \in Call, NEW t \in Page, Open(t)', t \in Unleased(q) PROVE t \in Unleased(q)'
    BY <1>4, <1>6, <1>9, OthersUnleased
  <1> QED BY <1>5, <1>7, <1>8, <1>9 DEF OpenTabsAreLeased
LEMMA WriteLeaseLeased ==
    ASSUME Typed, Typed', OpenTabsAreLeased, NEW r \in Call, Running(r), WriteLease(r), quota' = quota
    PROVE  OpenTabsAreLeased'
  <1>1. Went(r) BY WriteLeaseGoes
  <1>2. \A q \in Call \ {r} : helper'[q] = helper[q] BY <1>1 DEF Went, Others
  <1>3. /\ tabLease'.page = helper[r].page /\ stray' = (stray \cup Lost(helper[r].page)) \ {helper[r].page}
        /\ face' = face
    BY DEF WriteLease, tabVars
  <1>4. \A p \in Page : Open(p)' => Open(p) BY <1>3 DEF Open
  <1>5. \A p \in Page : tabLease.page = p => p = helper[r].page \/ p \in Lost(helper[r].page)
    BY SearchAssumption DEF Lost
  <1>6. ASSUME NEW q \in Call, NEW p \in Page, Open(p)', p \in Unleased(q)
        PROVE  p = helper[r].page \/ p \in Unleased(q)'
    BY <1>2, <1>6, OthersUnleased, UnleasedIs
  <1> QED BY <1>3, <1>4, <1>5, <1>6 DEF OpenTabsAreLeased
LEMMA TouchLeaseLeased ==
    ASSUME Typed, Typed', OpenTabsAreLeased, NEW r \in Call, Running(r), TouchLease(r), quota' = quota
    PROVE  OpenTabsAreLeased'
  <1>1. Went(r) /\ helper'[r] = [helper[r] EXCEPT !.touching = FALSE, !.copy = NoTabLease]
    BY TouchLeaseGoes
  <1>2. \A q \in Call \ {r} : helper'[q] = helper[q] BY <1>1 DEF Went, Others
  <1>3. helper[r] \in Helpers BY HelperIs
  <1>4. helper'[r].page = helper[r].page /\ helper'[r].todo = helper[r].todo BY <1>1, <1>3 DEF Helpers
  <1>5. \A p \in Page : Open(p)' => Open(p) BY DEF TouchLease, tabVars, Open
  <1>6. \A p \in Page : Open(p)' /\ p \in Unleased(r) => p \in Unleased(r)'
    BY <1>4, UnleasedIs, StillUnleased
  <1>7. CASE UNCHANGED leaseVars BY <1>1, <1>5, <1>6, <1>7, HelperKeepsTabs DEF leaseVars, Went
  <1>8. CASE /\ tabLease' = [helper[r].copy EXCEPT !.quiet = FALSE]
             /\ stray' = (stray \cup Lost(helper[r].copy.page)) \ {helper[r].copy.page}
    <2>1. helper[r].copy \in Leases BY HelperIs
    <2>2. tabLease'.page = helper[r].copy.page BY <1>8, <2>1 DEF Leases
    <2>3. \A p \in Page : tabLease.page = p => p = helper[r].copy.page \/ p \in Lost(helper[r].copy.page)
      BY SearchAssumption DEF Lost
    <2>4. ASSUME NEW q \in Call, NEW p \in Page, Open(p)', p \in Unleased(q)
          PROVE  p \in Unleased(q)'
      BY <1>2, <1>6, <2>4, OthersUnleased
    <2> QED BY <1>5, <1>8, <2>2, <2>3, <2>4 DEF OpenTabsAreLeased
  <1> QED BY <1>7, <1>8 DEF TouchLease
LEMMA HelperStepLeased ==
    ASSUME SearchTypes, Typed', OpenTabsAreLeased, HelperStep, quota' = quota PROVE OpenTabsAreLeased'
  <1>1. Typed BY DEF SearchTypes
  <1>2. PICK r \in Call :
            /\ Running(r)
            /\ \/ NewTab(r) \/ SelectTab(r) \/ WriteLease(r) \/ Look(r) \/ Act(r) \/ TouchLease(r)
               \/ TerminalState(r) \/ CommandFails(r) \/ HelperEnds(r)
    BY DEF HelperStep
  <1>3. CASE NewTab(r) \/ WriteLease(r) \/ TouchLease(r)
    BY <1>1, <1>2, <1>3, NewTabLeased, WriteLeaseLeased, TouchLeaseLeased
  <1>4. CASE SelectTab(r)
    <2>1. Others(r) /\ helper'[r] = Done(r) BY <1>1, <1>2, <1>4, SelectTabGoes DEF Went
    <2>2. UNCHANGED <<face, tabLease, stray>> BY <1>4 DEF SelectTab, leaseVars
    <2>3. helper[r].todo # <<>> BY <1>4 DEF SelectTab, Doing
    <2>4. helper'[r].page = helper[r].page /\ helper'[r].todo \in Waiting
      BY <1>1, <1>4, <2>1, <2>3, DoneIs, HelperIs, NextCommand DEF SelectTab, Doing, Waiting
    <2>5. \A p \in Page : Open(p)' => Open(p) BY <2>2 DEF Open
    <2>6. \A p \in Page : Open(p)' /\ p \in Unleased(r) => p \in Unleased(r)' BY <1>1, <2>4, StillUnleased
    <2> QED BY <1>1, <2>1, <2>2, <2>5, <2>6, HelperKeepsTabs
  <1>5. CASE Look(r) \/ Act(r) \/ TerminalState(r) \/ HelperEnds(r)
    <2>1. helper[r].todo = <<>> \/ Head(helper[r].todo) \in {"look", "read", "fill", "click"}
      BY <1>5 DEF Look, Act, TerminalState, HelperEnds, Doing
    <2>2. Unleased(r) = {} BY <2>1 DEF Unleased
    <2>3. UNCHANGED <<tabLease, stray>> BY <1>5 DEF Look, Act, TerminalState, HelperEnds, leaseVars
    <2>4. Others(r)
      <3>1. CASE Look(r) BY <1>1, <1>2, <3>1, LookGoes DEF Went
      <3>2. CASE Act(r) BY <1>1, <1>2, <3>2, ActGoes DEF Went
      <3>3. CASE TerminalState(r) \/ HelperEnds(r)
        <4>1. FaceMoves BY <3>3 DEF TerminalState, HelperEnds, tabVars, FaceMoves
        <4> QED BY <1>1, <1>2, <3>3, <4>1, PayloadGoes DEF TerminalState, HelperEnds, Went
      <3> QED BY <1>5, <3>1, <3>2, <3>3
    <2>5. \A p \in Page : Open(p)' => Open(p)
      <3>1. CASE Act(r) BY <1>1, <3>1 DEF Act, OnTab, Open, Typed, TabTypes
      <3>2. CASE face' = face BY <3>2 DEF Open
      <3> QED BY <1>5, <3>1, <3>2 DEF Look, TerminalState, HelperEnds, tabVars
    <2> QED BY <1>1, <2>2, <2>3, <2>4, <2>5, HelperKeepsTabs
  <1>6. CASE CommandFails(r)
    <2>1. UNCHANGED <<face, tabLease>> /\ stray' = stray \cup Unleased(r) /\ FaceMoves
      BY <1>6 DEF CommandFails, tabVars, FaceMoves
    <2>2. Others(r) BY <1>1, <1>2, <1>6, <2>1, PayloadGoes DEF CommandFails, Went
    <2> QED BY <1>1, <2>1, <2>2, HelperGoneKeepsTabs
  <1> QED BY <1>2, <1>3, <1>4, <1>5, <1>6
LEMMA OtherStepLeased ==
    ASSUME SearchTypes, Typed', OpenTabsAreLeased, WatcherStep \/ World, quota' = quota
    PROVE  OpenTabsAreLeased'
  <1>1. Typed /\ TabTypes /\ LeaseTypes BY DEF SearchTypes, Typed
  <1>2. \A k \in Call : Like(k)
    <2>1. CASE helper' = helper BY <2>1 DEF Like
    <2>2. UNCHANGED agentVars
      BY DEF WatcherStep, World, Watch, Clean, Close, DeleteLease, LeaseGoesQuiet, PageChanges, ClosedByHand
    <2>3. ASSUME NEW p \in Pages, Closed(p) PROVE \A k \in Call : Like(k) BY <1>1, <2>2, <2>3, ClosedAgents
    <2>4. \A w \in Page : watcher[w].page \in Pages /\ w \in Pages BY <1>1 DEF LeaseTypes, Watchers, Pages
    <2>5. CASE \E w \in Page : Watch(w) \/ Clean(w) \/ DeleteLease(w) BY <2>1, <2>5 DEF Watch, Clean, DeleteLease
    <2>6. CASE \E w \in Page : Close(w) BY <2>1, <2>3, <2>4, <2>6 DEF Close
    <2>7. CASE LeaseGoesQuiet \/ PageChanges BY <2>1, <2>7 DEF LeaseGoesQuiet, PageChanges
    <2>8. CASE ClosedByHand BY <2>3, <2>4, <2>8 DEF ClosedByHand
    <2> QED BY <2>5, <2>6, <2>7, <2>8 DEF WatcherStep, World
  <1>3. ASSUME NEW p \in Page, Open(p)' PROVE Open(p)
    <2>1. CASE face' = face BY <1>3, <2>1 DEF Open
    <2>2. CASE PageChanges BY <1>1, <1>3, <2>2 DEF PageChanges, Open, TabTypes
    <2>3. ASSUME NEW q \in Pages, Closed(q) PROVE Open(p)
      BY <1>1, <1>3, <2>3 DEF Closed, Open, TabTypes, Pages
    <2>4. \A w \in Page : watcher[w].page \in Pages /\ w \in Pages BY <1>1 DEF LeaseTypes, Watchers, Pages
    <2> QED BY <2>1, <2>2, <2>3, <2>4 DEF WatcherStep, World, Watch, Clean, Close, DeleteLease,
                 LeaseGoesQuiet, ClosedByHand, tabVars
  <1>4. ASSUME NEW q \in Call, NEW p \in Page, Open(p)', p \in Unleased(q) PROVE p \in Unleased(q)'
    BY <1>1, <1>2, <1>4, LikeUnleased
  <1>5. CASE UNCHANGED <<tabLease, stray>> BY <1>1, <1>3, <1>4, <1>5, LeasesKeepTabs
  <1>6. CASE LeaseGoesQuiet
    <2>1. tabLease'.page = tabLease.page /\ stray' = stray
      BY <1>1, <1>6 DEF LeaseGoesQuiet, LeaseTypes, Leases
    <2> QED BY <1>3, <1>4, <2>1 DEF OpenTabsAreLeased
  <1>7. ASSUME NEW w \in Page, DeleteLease(w) PROVE OpenTabsAreLeased'
    <2>1. stray' = stray \cup Lost(watcher[w].page) /\ face' = face /\ watcher[w].step = "deleting"
      BY <1>7 DEF DeleteLease, tabVars
    <2>2. ~Open(watcher[w].page) BY <1>1, <2>1 DEF LeaseTypes, Open
    <2>3. \A p \in Page : Open(p) /\ tabLease.page = p => p \in Lost(watcher[w].page)
      BY <2>2, SearchAssumption DEF Lost
    <2> QED BY <1>3, <1>4, <2>1, <2>3 DEF OpenTabsAreLeased
  <1> QED BY <1>5, <1>6, <1>7 DEF WatcherStep, World, Watch, Clean, Close, PageChanges, ClosedByHand, leaseVars
\* Every tab stays leased from when it is opened until it is closed, but for the losses
\* the code allows, whatever fails and whoever else runs.
THEOREM TabsStayLeased == SearchSpec => []OpenTabsAreLeased
  <1>1. SearchInit => OpenTabsAreLeased BY DEF SearchInit, OpenTabsAreLeased, Open
  <1>2. SearchTypes /\ SearchTypes' /\ OpenTabsAreLeased /\ [SearchNext]_searchVars => OpenTabsAreLeased'
    <2> SUFFICES ASSUME SearchTypes, SearchTypes', OpenTabsAreLeased, [SearchNext]_searchVars
                 PROVE  OpenTabsAreLeased'
      OBVIOUS
    <2>1. Typed' BY DEF SearchTypes
    <2>2. CASE SearchNext
      BY <2>1, <2>2, AgentStepLeased, HelperStepLeased, OtherStepLeased DEF SearchNext
    <2>3. CASE UNCHANGED searchVars
      BY <2>3 DEF searchVars, tabVars, leaseVars, OpenTabsAreLeased, Open, Unleased, Running
    <2> QED BY <2>2, <2>3
  <1> QED BY <1>1, <1>2, SearchStaysTyped, PTL DEF SearchSpec

----------------------------------------------------------------------------
(* What a call finds that has the session to itself.                       *)

\* What a search has in front of it, as far as it has come.
SearchSees(k) ==
    LET h == helper[k] IN
    /\ h.todo = ToSelect => face[h.page] \notin Query /\ typed[h.page] = NoQuery
    /\ h.todo \in {ToLease, ToLook, ToFill} /\ selected \in Page =>
          face[selected] \notin Query /\ typed[selected] = NoQuery
    /\ h.todo = ToClick /\ selected \in Page =>
          face[selected] \notin Query /\ typed[selected] \in {h.text, NoQuery}
    /\ h.todo = ToRead /\ selected \in Page /\ face[selected] \in Query => face[selected] = h.text
    /\ h.todo = AllDone => h.read \in {h.text, NoQuery}

\* One request asks at a time, and none has calls before it does.
Asks ==
    /\ \A r, q \in CardRequest : Asking(r) /\ Asking(q) => r = q
    /\ \A k \in Call : Running(k) => request[CallerOf[k]].step # "new"
\* No other call moves the session.
LoneCall(k) ==
    Running(k) /\ helper[k].alone => \A j \in Call \ {k} : helper[j].tool \notin Moving
CallSees(k) ==
    Running(k) /\ helper[k].alone =>
        /\ Heard(k) /\ seen[CallerOf[k]].alone /\ helper[k].todo \in {JustFill, JustClick} =>
              seen[CallerOf[k]].page = selected
        /\ helper[k].tool = "state" /\ helper[k].todo = AllDone => helper[k].page = selected
        /\ helper[k].tool = "search" => SearchSees(k)
\* A gate that is ready has seen the selected tab, and nothing is about to leave it.
GateSees(r) ==
    Asking(r) /\ gate[r].ready /\ seen[r].alone =>
        seen[r].page = selected /\ \A k \in Call : helper[k].tool \notin Moving
EnvelopeOwn(r) ==
    envelope[r].status = "cards" /\ envelope[r].alone => envelope[r].cards \in {envelope[r].query, NoQuery}
RequestOwn(r) ==
    request[r].result = "cards" /\ request[r].alone => request[r].cards \in {QueryOf[r], NoQuery}

CallsSee == \A k \in Call : LoneCall(k) /\ CallSees(k)
RequestsSee == \A r \in CardRequest : GateSees(r) /\ EnvelopeOwn(r) /\ RequestOwn(r)
Seeing == CallsSee /\ RequestsSee

\* The results of a query appear in no tab but by a click.
FacesStay == \A p \in Page : face'[p] = face[p] \/ face'[p] \notin Query

LEMMA JustActs ==
    ASSUME Typed, NEW k \in Call, helper[k].todo \in {JustFill, JustClick}
    PROVE  helper[k].tool \in Mutating /\ helper[k].tool \in Moving /\ Running(k)
  <1>1. helper[k].tool \in Tool \cup {"none"} /\ helper[k].todo \in Left(helper[k].tool) BY HelperIs
  <1>2. helper[k].tool \in {"fill", "click"} BY <1>1, Tails, Apart DEF Left, Tool
  <1> QED BY <1>2 DEF Mutating, Moving, Tool, Running
LEMMA SearchStillSees ==
    ASSUME Typed, NEW k \in Call, SearchSees(k), Like(k), selected' = selected, typed' = typed, FacesStay
    PROVE  SearchSees(k)'
  <1>1. helper[k].todo = ToSelect => helper[k].page \in Page BY HelperIs DEF Born, Waiting
  <1> QED BY <1>1 DEF SearchSees, FacesStay, Like
\* A call that finds what it found.
LEMMA CallStillSees ==
    ASSUME Typed, NEW k \in Call, CallSees(k), Like(k), selected' = selected, typed' = typed, FacesStay,
           helper'[k].alone /\ Heard(k)' /\ seen'[CallerOf[k]].alone /\ helper[k].todo \in {JustFill, JustClick} =>
              Heard(k) /\ seen'[CallerOf[k]] = seen[CallerOf[k]]
    PROVE  CallSees(k)'
  <1>1. /\ helper'[k].tool = helper[k].tool /\ helper'[k].todo = helper[k].todo /\ helper'[k].page = helper[k].page
        /\ helper'[k].alone \in {helper[k].alone, FALSE}
    BY DEF Like
  <1>2. helper'[k].alone => helper[k].alone BY <1>1
  <1>3. Running(k)' <=> Running(k) BY <1>1 DEF Running
  <1>4. SearchSees(k) => SearchSees(k)' BY SearchStillSees
  <1> DEFINE first == Heard(k) /\ seen[CallerOf[k]].alone /\ helper[k].todo \in {JustFill, JustClick} =>
                          seen[CallerOf[k]].page = selected
             after == Heard(k)' /\ seen'[CallerOf[k]].alone /\ helper'[k].todo \in {JustFill, JustClick} =>
                          seen'[CallerOf[k]].page = selected'
  <1>5. SUFFICES ASSUME Running(k)', helper'[k].alone
                 PROVE  /\ after
                        /\ helper'[k].tool = "state" /\ helper'[k].todo = AllDone => helper'[k].page = selected'
                        /\ helper'[k].tool = "search" => SearchSees(k)'
    BY DEF CallSees
  <1>6. /\ first
        /\ helper[k].tool = "state" /\ helper[k].todo = AllDone => helper[k].page = selected
        /\ helper[k].tool = "search" => SearchSees(k)
    BY <1>2, <1>3, <1>5 DEF CallSees
  <1>7. after
    <2> SUFFICES ASSUME Heard(k)', seen'[CallerOf[k]].alone, helper[k].todo \in {JustFill, JustClick}
                 PROVE  seen'[CallerOf[k]].page = selected'
      BY <1>1
    <2>1. Heard(k) /\ seen'[CallerOf[k]] = seen[CallerOf[k]] BY <1>5
    <2>2. seen[CallerOf[k]].alone BY <2>1
    <2> QED BY <1>6, <2>1, <2>2
  <1> QED BY <1>1, <1>4, <1>6, <1>7

\* Helpers that go on, with the tools they had and no more alone, or end.
Fewer == \A k \in Call : /\ helper'[k].tool \in {helper[k].tool, "none"}
                         /\ helper'[k].alone /\ Running(k)' => helper[k].alone
LEMMA LoneCallsStay ==
    ASSUME CallsSee, Fewer, NEW k \in Call PROVE LoneCall(k)'
  <1> SUFFICES ASSUME Running(k)', helper'[k].alone, NEW j \in Call \ {k}
               PROVE  helper'[j].tool \notin Moving
    BY DEF LoneCall
  <1>1. Running(k) /\ helper[k].alone BY DEF Fewer, Running
  <1>2. helper[j].tool \notin Moving BY <1>1 DEF CallsSee, LoneCall
  <1> QED BY <1>2 DEF Fewer, Moving, Tool
LEMMA GateStillSees ==
    ASSUME RequestsSee, Fewer, NEW r \in CardRequest, selected' = selected, seen'[r] = seen[r],
           Asking(r)' => Asking(r), gate'[r].ready => gate[r].ready
    PROVE  GateSees(r)'
  <1> SUFFICES ASSUME Asking(r)', gate'[r].ready, seen'[r].alone
               PROVE  seen'[r].page = selected' /\ \A k \in Call : helper'[k].tool \notin Moving
    BY DEF GateSees
  <1>1. seen[r].alone OBVIOUS
  <1>2. seen[r].page = selected /\ \A k \in Call : helper[k].tool \notin Moving
    BY <1>1 DEF RequestsSee, GateSees
  <1> QED BY <1>2 DEF Fewer, Moving, Tool
LEMMA OwnStays ==
    ASSUME RequestsSee, NEW r \in CardRequest, Same(r) PROVE EnvelopeOwn(r)' /\ RequestOwn(r)'
  <1>1. request'[r] = request[r] /\ envelope'[r] = envelope[r] BY DEF Same
  <1>2. EnvelopeOwn(r) /\ RequestOwn(r) BY DEF RequestsSee
  <1> QED BY <1>1, <1>2 DEF EnvelopeOwn, RequestOwn

----------------------------------------------------------------------------
(* What each step of a helper leaves to be seen.                           *)

\* A helper that goes on in the same tool.
GoesOn(k) == helper'[k].tool = helper[k].tool /\ helper'[k].alone = helper[k].alone
LEMMA GoesOnFewer == ASSUME NEW k \in Call, Others(k), GoesOn(k) PROVE Fewer
  <1>1. ASSUME NEW j \in Call
        PROVE helper'[j].tool = helper[j].tool /\ helper'[j].alone = helper[j].alone
    BY DEF Others, GoesOn
  <1> QED BY <1>1 DEF Fewer
\* What it has to show, when it is not about to act on an observation.
LEMMA CallGoesOn ==
    ASSUME NEW k \in Call, CallSees(k), GoesOn(k), helper'[k].todo \notin {JustFill, JustClick},
           helper'[k].tool = "state" /\ helper'[k].todo = AllDone => helper'[k].page = selected',
           helper'[k].tool = "search" /\ SearchSees(k) => SearchSees(k)'
    PROVE  CallSees(k)'
  <1>1. helper'[k].tool = helper[k].tool /\ (helper'[k].alone => helper[k].alone) BY DEF GoesOn
  <1>2. Running(k)' <=> Running(k) BY <1>1 DEF Running
  <1> SUFFICES ASSUME Running(k)', helper'[k].alone
               PROVE  /\ helper'[k].tool = "state" /\ helper'[k].todo = AllDone => helper'[k].page = selected'
                      /\ helper'[k].tool = "search" => SearchSees(k)'
    BY DEF CallSees
  <1>3. helper[k].tool = "search" => SearchSees(k) BY <1>1, <1>2 DEF CallSees
  <1> QED BY <1>1, <1>3
\* A helper that moves the session, alone or not.
LEMMA MoverSees ==
    ASSUME Typed, Seeing, NEW k \in Call, Others(k), GoesOn(k), helper[k].tool \in Moving,
           UNCHANGED agentVars, \A r \in CardRequest : seen'[r].alone => seen[r].alone, CallSees(k)'
    PROVE  Seeing'
  <1>1. Fewer BY GoesOnFewer
  <1>2. \A j \in Call : LoneCall(j)' BY <1>1, LoneCallsStay DEF Seeing
  <1>3. ASSUME NEW j \in Call \ {k} PROVE CallSees(j)'
    <2>1. helper'[j] = helper[j] BY DEF Others
    <2>2. ~(Running(j) /\ helper[j].alone) BY DEF Seeing, CallsSee, LoneCall
    <2>3. ~(Running(j)' /\ helper'[j].alone) BY <2>1, <2>2 DEF Running
    <2> QED BY <2>3 DEF CallSees
  <1>4. ASSUME NEW r \in CardRequest PROVE GateSees(r)'
    <2>1. ~(Asking(r) /\ gate[r].ready /\ seen[r].alone) BY DEF Seeing, RequestsSee, GateSees
    <2>2. gate' = gate /\ request' = request BY DEF agentVars
    <2>3. (Asking(r)' <=> Asking(r)) /\ (gate'[r].ready <=> gate[r].ready) BY <2>2 DEF Asking
    <2>4. ~(Asking(r)' /\ gate'[r].ready /\ seen'[r].alone) BY <2>1, <2>3
    <2> QED BY <2>4 DEF GateSees
  <1>5. \A r \in CardRequest : EnvelopeOwn(r)' /\ RequestOwn(r)'
    BY OwnStays DEF Seeing, Same, agentVars
  <1> QED BY <1>2, <1>3, <1>4, <1>5 DEF Seeing, CallsSee, RequestsSee
\* A helper that leaves the tabs alone.
LEMMA QuietSees ==
    ASSUME Typed, Seeing, NEW k \in Call, Others(k), GoesOn(k), UNCHANGED <<tabVars, agentVars, seen>>,
           CallSees(k)'
    PROVE  Seeing'
  <1>1. Fewer BY GoesOnFewer
  <1>2. \A j \in Call : LoneCall(j)' BY <1>1, LoneCallsStay DEF Seeing
  <1>3. selected' = selected /\ typed' = typed /\ FacesStay /\ gate' = gate /\ request' = request
    BY DEF tabVars, FacesStay, agentVars
  <1>4. ASSUME NEW j \in Call \ {k} PROVE CallSees(j)'
    <2>1. Like(j) /\ CallSees(j) BY OthersAreLike DEF Seeing, CallsSee
    <2>2. Heard(j)' => Heard(j) BY <1>3 DEF Heard, Asking
    <2> QED BY <1>3, <2>1, <2>2, CallStillSees
  <1>5. ASSUME NEW r \in CardRequest PROVE GateSees(r)'
    <2>1. Asking(r)' => Asking(r) BY <1>3 DEF Asking
    <2>2. gate'[r].ready => gate[r].ready BY <1>3
    <2> QED BY <1>1, <1>3, <2>1, <2>2, GateStillSees DEF Seeing
  <1>6. \A r \in CardRequest : EnvelopeOwn(r)' /\ RequestOwn(r)'
    BY OwnStays DEF Seeing, Same, agentVars
  <1> QED BY <1>2, <1>4, <1>5, <1>6 DEF Seeing, CallsSee, RequestsSee

LEMMA NewTabSees ==
    ASSUME Typed, Seeing, NEW k \in Call, NewTab(k), quota' = quota PROVE Seeing'
  <1>1. PICK p \in Page : /\ face[p] = "unborn" /\ face' = [face EXCEPT ![p] = "form"]
                          /\ helper'[k] = [Done(k) EXCEPT !.page = p]
    BY NewTabGoes
  <1>2. helper[k].todo # <<>> /\ Head(helper[k].todo) = "new" BY DEF NewTab, Doing
  <1>3. /\ helper'[k].page = p /\ helper'[k].tool = helper[k].tool /\ helper'[k].text = helper[k].text
        /\ helper'[k].todo = Tail(helper[k].todo) /\ helper'[k].alone = helper[k].alone
    <2>1. Done(k) \in Helpers /\ p \in Pages BY <1>2, DoneIs DEF Pages
    <2> QED BY <1>1, <1>2, <2>1, DoneIs, SetPage
  <1>4. \/ helper[k].tool = "search" /\ helper'[k].todo = ToSelect
        \/ helper[k].tool = "open" /\ helper'[k].todo = JustSelect
    BY <1>2, <1>3, HelperIs, NextCommand
  <1>5. UNCHANGED agentVars /\ seen' = seen /\ typed' = typed BY DEF NewTab
  <1>6. helper'[k].todo \notin {JustFill, JustClick} BY <1>4, Tails
  <1>7. face'[p] = "form" /\ typed[p] = NoQuery BY <1>1 DEF Typed, TabTypes
  <1>8. "form" \notin Query BY SearchAssumption
  <1>9. ASSUME helper'[k].tool = "search" PROVE SearchSees(k)'
    <2>1. helper'[k].todo = ToSelect BY <1>3, <1>4, <1>9
    <2>2. face'[helper'[k].page] \notin Query /\ typed'[helper'[k].page] = NoQuery
      BY <1>3, <1>5, <1>7, <1>8
    <2>3. ToSelect \notin {ToLease, ToLook, ToFill, ToClick, ToRead, AllDone} BY Tails, Apart
    <2> QED BY <2>1, <2>2, <2>3 DEF SearchSees
  <1>10. helper'[k].tool # "state" /\ helper[k].tool \in Moving BY <1>3, <1>4 DEF Moving, Tool
  <1>11. Others(k) /\ GoesOn(k) BY <1>3, NewTabGoes DEF Went, GoesOn
  <1>12. CallSees(k)' BY <1>6, <1>9, <1>10, <1>11, CallGoesOn DEF Seeing, CallsSee
  <1> QED BY <1>5, <1>10, <1>11, <1>12, MoverSees
LEMMA SelectTabSees ==
    ASSUME Typed, Seeing, NEW k \in Call, SelectTab(k), quota' = quota PROVE Seeing'
  <1>1. helper'[k] = Done(k) /\ Others(k) BY SelectTabGoes DEF Went
  <1>2. helper[k].todo # <<>> /\ Head(helper[k].todo) = "select" BY DEF SelectTab, Doing
  <1>3. /\ helper'[k].page = helper[k].page /\ helper'[k].tool = helper[k].tool
        /\ helper'[k].todo = Tail(helper[k].todo) /\ helper'[k].alone = helper[k].alone
    BY <1>1, <1>2, DoneIs
  <1>4. \/ helper[k].tool = "search" /\ helper[k].todo = ToSelect /\ helper'[k].todo = ToLease
        \/ helper[k].tool = "open" /\ helper'[k].todo = JustLease
    BY <1>2, <1>3, HelperIs, NextCommand
  <1>5. UNCHANGED agentVars /\ seen' = seen /\ selected' = helper[k].page /\ typed' = typed /\ face' = face
    BY DEF SelectTab
  <1>6. helper'[k].todo \notin {JustFill, JustClick} BY <1>4, Tails
  <1>7. helper'[k].tool = "search" /\ SearchSees(k) => SearchSees(k)'
    BY <1>3, <1>4, <1>5, Tails, Apart DEF SearchSees
  <1>8. helper'[k].tool # "state" /\ helper[k].tool \in Moving BY <1>3, <1>4 DEF Moving, Tool
  <1>9. GoesOn(k) BY <1>3 DEF GoesOn
  <1>10. CallSees(k)' BY <1>6, <1>7, <1>8, <1>9, CallGoesOn DEF Seeing, CallsSee
  <1> QED BY <1>1, <1>5, <1>8, <1>9, <1>10, MoverSees
LEMMA WriteLeaseSees ==
    ASSUME Typed, Seeing, NEW k \in Call, WriteLease(k), quota' = quota PROVE Seeing'
  <1>1. helper'[k] = Done(k) /\ Others(k) BY WriteLeaseGoes DEF Went
  <1>2. helper[k].todo # <<>> /\ Head(helper[k].todo) = "lease" BY DEF WriteLease, Doing
  <1>3. /\ helper'[k].page = helper[k].page /\ helper'[k].tool = helper[k].tool
        /\ helper'[k].todo = Tail(helper[k].todo) /\ helper'[k].alone = helper[k].alone
    BY <1>1, <1>2, DoneIs
  <1>4. \/ helper[k].tool = "search" /\ helper[k].todo = ToLease /\ helper'[k].todo = ToLook
        \/ helper[k].tool = "open" /\ helper'[k].todo = AllDone
    BY <1>2, <1>3, HelperIs, NextCommand
  <1>5. UNCHANGED <<tabVars, agentVars, seen>> BY DEF WriteLease
  <1>6. helper'[k].todo \notin {JustFill, JustClick} BY <1>4, Tails, Apart
  <1>7. helper'[k].tool = "search" /\ SearchSees(k) => SearchSees(k)'
    BY <1>3, <1>4, <1>5, Tails, Apart DEF SearchSees, tabVars
  <1>8. helper'[k].tool # "state" BY <1>3, <1>4
  <1>9. GoesOn(k) BY <1>3 DEF GoesOn
  <1>10. CallSees(k)' BY <1>6, <1>7, <1>8, <1>9, CallGoesOn DEF Seeing, CallsSee
  <1> QED BY <1>1, <1>5, <1>9, <1>10, QuietSees
LEMMA LookSees ==
    ASSUME Typed, Seeing, NEW k \in Call, Look(k), quota' = quota PROVE Seeing'
  <1>1. helper[k].todo # <<>> /\ Done(k) \in Helpers /\ tabLease \in Leases /\ Others(k)
    BY LookGoes, DoneIs DEF Typed, LeaseTypes, Went
  <1>2. UNCHANGED <<tabVars, agentVars, seen>> /\ selected' = selected /\ typed' = typed /\ face' = face
    BY DEF Look, tabVars
  <1>3. CASE Doing(k, "look") /\ helper'[k] = Touching(Done(k))
    <2>1. helper[k].tool = "search" /\ helper[k].todo = ToLook /\ Done(k).todo = ToFill
      BY <1>1, <1>3, DoneIs, HelperIs, NextCommand DEF Doing
    <2>2. helper'[k].tool = helper[k].tool /\ helper'[k].todo = ToFill /\ helper'[k].alone = helper[k].alone
      BY <1>1, <1>3, <2>1, DoneIs, TouchingIs
    <2>3. SearchSees(k) => SearchSees(k)' BY <1>2, <2>1, <2>2, Tails, Apart DEF SearchSees
    <2>4. helper'[k].todo \notin {JustFill, JustClick} BY <2>2, Tails, Apart
    <2>5. GoesOn(k) BY <2>2 DEF GoesOn
    <2>6. CallSees(k)' BY <2>1, <2>2, <2>3, <2>4, <2>5, CallGoesOn DEF Seeing, CallsSee
    <2> QED BY <1>1, <1>2, <2>5, <2>6, QuietSees
  <1>4. CASE /\ Doing(k, "read")
             /\ helper'[k] = Touching([Done(k) EXCEPT
                       !.read = IF face[selected] \in Query THEN face[selected] ELSE NoQuery,
                       !.page = selected])
    <2> DEFINE t == IF face[selected] \in Query THEN face[selected] ELSE NoQuery
               g == [Done(k) EXCEPT !.read = t, !.page = selected]
    <2>1. helper[k].todo = ToRead /\ Done(k).todo = AllDone
      BY <1>1, <1>4, DoneIs, HelperIs, NextCommand DEF Doing
    <2>2. selected \in Page BY DEF Look, OnTab, Open, Typed, TabTypes, Born
    <2>3. t \in Texts BY DEF Texts
    <2>4. (t = face[selected] /\ face[selected] \in Query) \/ t = NoQuery OBVIOUS
    <2> HIDE DEF t
    <2>5. /\ g \in Helpers /\ g.page = selected /\ g.read = t /\ g.tool = Done(k).tool
          /\ g.text = Done(k).text /\ g.todo = Done(k).todo /\ g.alone = Done(k).alone
      BY <1>1, <2>2, <2>3 DEF Helpers, Pages
    <2>6. helper'[k] = Touching(g) BY <1>4 DEF t
    <2> HIDE DEF g
    <2>7. /\ helper'[k].tool = helper[k].tool /\ helper'[k].text = helper[k].text
          /\ helper'[k].todo = AllDone /\ helper'[k].page = selected /\ helper'[k].read = t
          /\ helper'[k].alone = helper[k].alone
      BY <1>1, <2>1, <2>5, <2>6, DoneIs, TouchingIs
    <2>8. helper'[k].tool = "search" /\ SearchSees(k) => SearchSees(k)'
      BY <1>2, <2>1, <2>2, <2>4, <2>7, Tails, Apart DEF SearchSees
    <2>9. helper'[k].todo \notin {JustFill, JustClick} BY <2>7, Apart
    <2>10. GoesOn(k) BY <2>7 DEF GoesOn
    <2>11. CallSees(k)' BY <1>2, <2>7, <2>8, <2>9, <2>10, CallGoesOn DEF Seeing, CallsSee
    <2> QED BY <1>1, <1>2, <2>10, <2>11, QuietSees
  <1> QED BY <1>3, <1>4, LookGoes
LEMMA ActSees ==
    ASSUME Typed, Seeing, NEW k \in Call, Act(k), quota' = quota PROVE Seeing'
  <1>1. /\ helper[k].todo # <<>> /\ Done(k) \in Helpers /\ tabLease \in Leases /\ helper'[k] = Touching(Done(k))
        /\ Others(k)
    BY ActGoes, DoneIs DEF Typed, LeaseTypes, Went
  <1>2. UNCHANGED agentVars /\ selected' = selected BY DEF Act
  <1>3. selected \in Page BY DEF Act, OnTab, Open, Typed, TabTypes, Born
  <1>4. /\ helper'[k].tool = helper[k].tool /\ helper'[k].text = helper[k].text
        /\ helper'[k].todo = Tail(helper[k].todo) /\ helper'[k].alone = helper[k].alone
    BY <1>1, DoneIs, TouchingIs
  <1>5. Head(helper[k].todo) \in {"fill", "click"} BY DEF Act, Doing
  <1>6. helper[k].tool \in {"search", "fill", "click"} /\ helper'[k].todo \in {ToClick, ToRead, AllDone}
    BY <1>1, <1>4, <1>5, HelperIs, NextCommand
  <1>7. helper'[k].todo \notin {JustFill, JustClick} BY <1>6, Tails, Apart
  <1>8. ASSUME helper'[k].tool = "search", SearchSees(k) PROVE SearchSees(k)'
    <2>0. helper[k].tool = "search" BY <1>4, <1>8
    <2>1. CASE Doing(k, "fill") /\ typed' = [typed EXCEPT ![selected] = helper[k].text] /\ UNCHANGED face
      <3>1. helper[k].todo = ToFill /\ helper'[k].todo = ToClick
        BY <1>1, <1>4, <2>0, <2>1, HelperIs, NextCommand DEF Doing
      <3>2. face'[selected] \notin Query /\ typed'[selected] = helper[k].text
        BY <1>3, <1>8, <2>1, <3>1 DEF SearchSees, Typed, TabTypes
      <3> QED BY <1>2, <1>4, <3>1, <3>2, Tails, Apart DEF SearchSees
    <2>2. CASE Doing(k, "click")
      <3>1. helper[k].todo = ToClick /\ helper'[k].todo = ToRead
        BY <1>1, <1>4, <2>0, <2>2, HelperIs, NextCommand DEF Doing
      <3>2. face[selected] \notin Query /\ typed[selected] \in {helper[k].text, NoQuery}
        BY <1>3, <1>8, <3>1 DEF SearchSees
      <3>3. face'[selected] \in Query => face'[selected] = helper[k].text
        <4>1. ~Doing(k, "fill") BY <2>2 DEF Doing
        <4> QED BY <1>3, <3>2, <4>1 DEF Act, Typed, TabTypes
      <3> QED BY <1>2, <1>4, <3>1, <3>3, Tails, Apart DEF SearchSees
    <2> QED BY <2>1, <2>2 DEF Act
  <1>9. helper[k].tool \in Moving /\ helper'[k].tool # "state" BY <1>4, <1>6 DEF Moving, Tool
  <1>10. GoesOn(k) BY <1>4 DEF GoesOn
  <1>11. CallSees(k)' BY <1>7, <1>8, <1>9, <1>10, CallGoesOn DEF Seeing, CallsSee
  <1>12. \A r \in CardRequest : seen'[r].alone => seen[r].alone BY ActedSeen
  <1> QED BY <1>1, <1>2, <1>9, <1>10, <1>11, <1>12, MoverSees
LEMMA TouchLeaseSees ==
    ASSUME Typed, Seeing, NEW k \in Call, TouchLease(k), quota' = quota PROVE Seeing'
  <1>1. helper'[k] = [helper[k] EXCEPT !.touching = FALSE, !.copy = NoTabLease] /\ Others(k)
    BY TouchLeaseGoes DEF Went
  <1>2. helper[k] \in Helpers BY HelperIs
  <1>3. /\ helper'[k].tool = helper[k].tool /\ helper'[k].text = helper[k].text
        /\ helper'[k].todo = helper[k].todo /\ helper'[k].page = helper[k].page
        /\ helper'[k].read = helper[k].read /\ helper'[k].alone = helper[k].alone
    BY <1>1, <1>2 DEF Helpers
  <1>4. UNCHANGED <<tabVars, agentVars, seen>> BY DEF TouchLease
  <1>5. GoesOn(k) BY <1>3 DEF GoesOn
  <1>6. CallSees(k)'
    <2>1. CallSees(k) BY DEF Seeing, CallsSee
    <2>2. SearchSees(k) => SearchSees(k)' BY <1>3, <1>4 DEF SearchSees, tabVars
    <2>3. (Running(k)' <=> Running(k)) /\ (Heard(k)' <=> Heard(k)) /\ selected' = selected /\ seen' = seen
      BY <1>3, <1>4 DEF Running, Heard, Asking, agentVars, tabVars
    <2> HIDE DEF Running, Heard
    <2> QED BY <1>3, <2>1, <2>2, <2>3 DEF CallSees
  <1> QED BY <1>1, <1>4, <1>5, <1>6, QuietSees
LEMMA EndedFewer ==
    ASSUME NEW k \in Call, helper'[k] = NoHelper, Others(k) PROVE Fewer
  <1>1. helper'[k].tool = "none" BY NoHelperIsOne
  <1>2. ~Running(k)' BY <1>1 DEF Running
  <1>3. ASSUME NEW j \in Call \ {k} PROVE helper'[j].tool = helper[j].tool /\ helper'[j].alone = helper[j].alone
    BY DEF Others
  <1> QED BY <1>1, <1>2, <1>3 DEF Fewer
\* Of a helper that goes, only the state it observed and the cards it read stay behind.
LEMMA PayloadSees ==
    ASSUME Typed, Seeing, NEW k \in Call, Running(k), NEW end, Payload(k, end), UNCHANGED <<tabVars, request, quota>>,
           end = "ok" => helper[k].todo = AllDone
    PROVE  Seeing'
  <1> DEFINE c == CallerOf[k]
  <1>0. c \in CardRequest /\ c = CallerOf[k] /\ (Heard(k) <=> Asking(c)) BY SearchAssumption DEF Heard
  <1> HIDE DEF c
  <1>1. FaceMoves /\ FacesStay /\ selected' = selected /\ typed' = typed BY DEF FaceMoves, FacesStay, tabVars
  <1>2. helper'[k] = NoHelper /\ Others(k) BY <1>1, PayloadGoes DEF Went
  <1>3. Fewer BY <1>2, EndedFewer
  <1>4. \A j \in Call : LoneCall(j)' BY <1>3, LoneCallsStay DEF Seeing
  <1>5. LoneCall(k) /\ CallSees(k) /\ EnvelopeOwn(c) BY <1>0 DEF Seeing, CallsSee, RequestsSee
  <1>6. /\ \A q \in CardRequest \ {c} : seen'[q] = seen[q]
        /\ IF Heard(k) /\ helper[k].tool = "state" /\ end = "ok"
           THEN seen'[c].page = helper[k].page /\ seen'[c].alone = helper[k].alone
           ELSE seen'[c] = seen[c]
    BY <1>0, PayloadSeen
  <1>7. PaidGate(k, end) BY <1>0, PayloadGate DEF Typed, AgentsTyped, ProcessTypes, AgentOK
  <1>8. ASSUME NEW j \in Call PROVE CallSees(j)'
    <2>1. CASE j = k
      <3>1. ~Running(j)' BY <1>2, <2>1, NoHelperIsOne DEF Running
      <3> QED BY <3>1 DEF CallSees
    <2>2. CASE j # k
      <3>1. Like(j) /\ CallSees(j) BY <1>2, <2>2, OthersAreLike DEF Seeing, CallsSee
      <3>2. Heard(j)' => Heard(j) BY DEF Heard, Asking
      <3>3. ASSUME seen'[CallerOf[j]].alone, helper[j].todo \in {JustFill, JustClick}
            PROVE  seen'[CallerOf[j]] = seen[CallerOf[j]]
        <4>1. helper[j].tool \in Moving BY <3>3, JustActs
        <4>2. ~helper[k].alone BY <1>5, <2>2, <4>1 DEF LoneCall
        <4>3. CallerOf[j] \in CardRequest BY SearchAssumption
        <4> QED BY <1>6, <3>3, <4>2, <4>3
      <3> QED BY <1>1, <3>1, <3>2, <3>3, CallStillSees
    <2> QED BY <2>1, <2>2
  <1>9. ASSUME NEW q \in CardRequest PROVE GateSees(q)'
    <2>1. Asking(q)' => Asking(q) BY DEF Asking
    <2>2. CASE q # c
      <3>1. seen'[q] = seen[q] /\ gate'[q] = gate[q] BY <1>0, <1>6, <1>7, <2>2 DEF PaidGate
      <3>2. gate'[q].ready => gate[q].ready BY <3>1
      <3> QED BY <1>1, <1>3, <2>1, <3>1, <3>2, GateStillSees DEF Seeing
    <2>3. CASE q = c /\ Heard(k) /\ helper[k].tool = "state" /\ end = "ok"
      <3>1. seen'[q].page = helper[k].page /\ (seen'[q].alone => helper[k].alone) BY <1>6, <2>3
      <3> SUFFICES ASSUME seen'[q].alone
                   PROVE  seen'[q].page = selected' /\ \A j \in Call : helper'[j].tool \notin Moving
        BY DEF GateSees
      <3>2. helper[k].alone BY <3>1
      <3>3. helper[k].page = selected BY <1>5, <2>3, <3>2 DEF CallSees
      <3>4. \A j \in Call \ {k} : helper[j].tool \notin Moving BY <1>5, <3>2 DEF LoneCall
      <3>5. \A j \in Call \ {k} : helper'[j].tool \notin Moving BY <1>2, <3>4 DEF Others
      <3>6. helper'[k].tool \notin Moving BY <1>2, NoHelperIsOne DEF Moving, Tool
      <3> QED BY <1>1, <3>1, <3>3, <3>5, <3>6
    <2>4. CASE q = c /\ Heard(k) /\ ~(helper[k].tool = "state" /\ end = "ok")
      <3>1. seen'[q] = seen[q] BY <1>6, <2>4
      <3>2. gate'[c].ready => gate[c].ready BY <1>0, <1>7, <2>4, Zenon DEF PaidGate
      <3>3. gate'[q].ready => gate[q].ready BY <2>4, <3>2
      <3> QED BY <1>1, <1>3, <2>1, <3>1, <3>3, GateStillSees DEF Seeing
    <2>5. CASE q = c /\ ~Heard(k)
      <3>1. ~Asking(q)' BY <1>0, <2>1, <2>5
      <3> QED BY <3>1 DEF GateSees
    <2> QED BY <2>2, <2>3, <2>4, <2>5
  <1>10. /\ \A q \in CardRequest \ {c} : envelope'[q] = envelope[q]
         /\ \/ envelope'[c] = envelope[c]
            \/ /\ helper[k].tool = "search" /\ end = "ok"
               /\ envelope'[c].query = helper[k].text /\ envelope'[c].cards = helper[k].read
               /\ envelope'[c].alone = helper[k].alone
            \/ envelope'[c].status = "blocked"
    BY <1>0, PayloadEnvelope
  <1>11. EnvelopeOwn(c)'
    <2>1. CASE envelope'[c] = envelope[c] BY <1>5, <2>1 DEF EnvelopeOwn
    <2>2. CASE /\ helper[k].tool = "search" /\ end = "ok"
               /\ envelope'[c].query = helper[k].text /\ envelope'[c].cards = helper[k].read
               /\ envelope'[c].alone = helper[k].alone
      <3> SUFFICES ASSUME envelope'[c].alone PROVE envelope'[c].cards \in {envelope'[c].query, NoQuery}
        BY DEF EnvelopeOwn
      <3>1. helper[k].alone BY <2>2
      <3>2. SearchSees(k) BY <1>5, <2>2, <3>1 DEF CallSees
      <3> QED BY <2>2, <3>2 DEF SearchSees
    <2>3. CASE envelope'[c].status = "blocked" BY <2>3 DEF EnvelopeOwn
    <2> QED BY <1>10, <2>1, <2>2, <2>3
  <1>12. ASSUME NEW q \in CardRequest PROVE EnvelopeOwn(q)' /\ RequestOwn(q)'
    <2>1. EnvelopeOwn(q) /\ RequestOwn(q) BY DEF Seeing, RequestsSee
    <2>2. RequestOwn(q)' BY <2>1 DEF RequestOwn
    <2>3. EnvelopeOwn(q)'
      <3>1. CASE q = c BY <1>11, <3>1
      <3>2. CASE q # c
        <4>1. envelope'[q] = envelope[q] BY <1>10, <3>2
        <4> QED BY <2>1, <4>1 DEF EnvelopeOwn
      <3> QED BY <3>1, <3>2
    <2> QED BY <2>2, <2>3
  <1> QED BY <1>4, <1>8, <1>9, <1>12 DEF Seeing, CallsSee, RequestsSee
LEMMA HelperStepSees ==
    ASSUME SearchTypes, Asks, Seeing, HelperStep, quota' = quota PROVE Asks' /\ Seeing'
  <1>1. Typed BY DEF SearchTypes
  <1>2. PICK k \in Call :
            /\ Running(k)
            /\ \/ NewTab(k) \/ SelectTab(k) \/ WriteLease(k) \/ Look(k) \/ Act(k) \/ TouchLease(k)
               \/ TerminalState(k) \/ CommandFails(k) \/ HelperEnds(k)
    BY DEF HelperStep
  <1>3. request' = request
    BY <1>2 DEF NewTab, SelectTab, WriteLease, Look, Act, TouchLease, TerminalState, CommandFails, HelperEnds, agentVars
  <1>4. Others(k)
    <2>1. CASE NewTab(k) BY <1>1, <2>1, NewTabGoes DEF Went
    <2>2. CASE SelectTab(k) BY <1>1, <2>2, SelectTabGoes DEF Went
    <2>3. CASE WriteLease(k) BY <1>1, <2>3, WriteLeaseGoes DEF Went
    <2>4. CASE Look(k) BY <1>1, <2>4, LookGoes DEF Went
    <2>5. CASE Act(k) BY <1>1, <2>5, ActGoes DEF Went
    <2>6. CASE TouchLease(k) BY <1>1, <2>6, TouchLeaseGoes DEF Went
    <2>7. ASSUME NEW end, Payload(k, end) PROVE Others(k)
      BY <1>1, <2>7, PutOne, NoHelperIsOne DEF Payload, Others, Typed, AgentsTyped, ProcessTypes
    <2>8. CASE TerminalState(k) \/ CommandFails(k) \/ HelperEnds(k)
      BY <2>7, <2>8 DEF TerminalState, CommandFails, HelperEnds
    <2> QED BY <1>2, <2>1, <2>2, <2>3, <2>4, <2>5, <2>6, <2>8
  <1>5. Asks'
    <2>1. \A j \in Call : Running(j)' => Running(j) BY <1>2, <1>4 DEF Others, Running
    <2>2. \A r \in CardRequest : Asking(r)' <=> Asking(r) BY <1>3 DEF Asking
    <2> HIDE DEF Running, Asking
    <2> QED BY <1>3, <2>1, <2>2 DEF Asks
  <1>7. CASE TerminalState(k)
    <2>1. Payload(k, "terminal") /\ UNCHANGED tabVars BY <1>7 DEF TerminalState
    <2>2. UNCHANGED <<tabVars, request, quota>> BY <1>3, <2>1
    <2> QED BY <1>1, <1>2, <1>5, <2>1, <2>2, PayloadSees
  <1>8. CASE CommandFails(k)
    <2>1. Payload(k, "error") /\ UNCHANGED tabVars BY <1>8 DEF CommandFails
    <2>2. UNCHANGED <<tabVars, request, quota>> BY <1>3, <2>1
    <2> QED BY <1>1, <1>2, <1>5, <2>1, <2>2, PayloadSees
  <1>9. CASE HelperEnds(k)
    <2>1. Payload(k, "ok") /\ UNCHANGED tabVars /\ helper[k].todo = AllDone BY <1>9 DEF HelperEnds, AllDone
    <2>2. UNCHANGED <<tabVars, request, quota>> BY <1>3, <2>1
    <2> QED BY <1>1, <1>2, <1>5, <2>1, <2>2, PayloadSees
  <1> QED BY <1>1, <1>2, <1>5, <1>7, <1>8, <1>9, NewTabSees, SelectTabSees, WriteLeaseSees, LookSees, ActSees,
             TouchLeaseSees

----------------------------------------------------------------------------
(* The steps of the requests and their Pi processes.                       *)

LEMMA CallToolSees ==
    ASSUME Typed, Asks, Seeing, NEW k \in Call, NEW tool \in Tool, NEW text \in Texts, CallTool(k, tool, text),
           quota' = quota, quota \in SearchQuotas
    PROVE  Asks' /\ Seeing'
  <1> DEFINE r == CallerOf[k]
  <1>0. r \in CardRequest /\ r = CallerOf[k] BY SearchAssumption
  <1>1. /\ Starts(k, tool, text) /\ request'[r].step = "asking" /\ request[r].step = "asking"
        /\ request'[r].result = "none"
        /\ \A q \in CardRequest \ {r} : Same(q) /\ seen'[q] = seen[q]
        /\ envelope' = envelope /\ gate'[r] = Passed(gate[r], tool) /\ Passes(gate[r], tool)
        /\ seen'[r] = IF Reset(tool) THEN NothingSeen ELSE seen[r]
    BY CallToolGoes
  <1> HIDE DEF r
  <1>2. selected' = selected /\ typed' = typed /\ FacesStay BY DEF CallTool, tabVars, FacesStay
  <1>3. \A q \in CardRequest : request'[q].step = request[q].step BY <1>0, <1>1 DEF Same
  <1>4. \A q \in CardRequest : Asking(q)' <=> Asking(q) BY <1>3 DEF Asking
  <1>5. ~Running(k) /\ Heard(k) BY DEF CallTool
  <1>6. \A j \in Call \ {k} : Like(j) /\ (Running(j)' <=> Running(j)) BY <1>1 DEF Starts, Like, Running
  <1>7. Asks'
    <2>1. \A j \in Call : CallerOf[j] \in CardRequest BY SearchAssumption
    <2>2. \A p, q \in CardRequest : Asking(p)' /\ Asking(q)' => p = q BY <1>4 DEF Asks
    <2>3. \A j \in Call : Running(j)' => request'[CallerOf[j]].step # "new"
      BY <1>0, <1>1, <1>3, <1>6, <2>1 DEF Asks
    <2> QED BY <2>2, <2>3 DEF Asks
  <1>8. gate[r] \in Gates /\ gate[r].count \in 0..MaxActions /\ ~(gate[r].ready /\ gate[r].stop)
    BY <1>0 DEF Typed, AgentsTyped, ProcessTypes, AgentOK, GateOK
  <1>9. /\ Passed(gate[r], tool).ready => gate[r].ready /\ tool = "state"
        /\ tool \in Mutating => gate[r].ready
    BY <1>1, <1>8, PassedIs
  <1>10. gate'[r].ready => gate[r].ready /\ tool = "state" BY <1>1, <1>9, Zenon
  <1>11. tool = "state" \/ tool \in Mutating => ~Reset(tool) BY DEF Mutating, Reset
  <1>12. GateSees(r) BY <1>0 DEF Seeing, RequestsSee
  <1>13. Asking(r) BY <1>0, <1>5 DEF Heard
  <1>14. helper'[k].tool = tool /\ helper'[k].todo = Program(tool) BY <1>1 DEF Starts
  <1>15. LoneCall(k)'
    <2>1. helper'[k].alone => \A j \in Call : helper[j].tool \notin Moving BY <1>1 DEF Starts
    <2>2. \A j \in Call \ {k} : helper'[j].tool = helper[j].tool BY <1>6 DEF Like
    <2> QED BY <2>1, <2>2 DEF LoneCall
  <1>16. ASSUME NEW j \in Call \ {k} PROVE LoneCall(j)'
    <2> SUFFICES ASSUME Running(j)', helper'[j].alone, NEW i \in Call \ {j} PROVE helper'[i].tool \notin Moving
      BY DEF LoneCall
    <2>1. Running(j) BY <1>6
    <2>2. helper'[j].alone \in {helper[j].alone, FALSE} BY <1>6 DEF Like
    <2>3. helper[j].alone BY <2>2
    <2>4. \A a \in Call \ {j} : helper[a].tool \notin Moving BY <2>1, <2>3 DEF Seeing, CallsSee, LoneCall
    <2>5. CASE i = k
      <3>1. tool \in Moving => helper'[j].alone = FALSE BY <1>1, <2>1 DEF Starts
      <3> QED BY <1>14, <2>5, <3>1
    <2>6. CASE i # k BY <1>6, <2>4, <2>6 DEF Like
    <2> QED BY <2>5, <2>6
  <1>17. CallSees(k)'
    <2>1. ASSUME seen'[r].alone, helper'[k].todo \in {JustFill, JustClick}
          PROVE  seen'[r].page = selected'
      <3>1. Program(tool) \in {JustFill, JustClick} => tool \in Mutating
        BY Programs, Tails DEF Tool, Mutating
      <3>2. tool \in Mutating BY <1>14, <2>1, <3>1
      <3>3. gate[r].ready /\ seen'[r] = seen[r]
        <4>1. ~Reset(tool) BY <1>11, <3>2
        <4>2. gate[r].ready BY <1>9, <3>2
        <4> QED BY <1>1, <4>1, <4>2
      <3>4. seen[r].alone BY <2>1, <3>3
      <3> QED BY <1>2, <1>12, <1>13, <3>3, <3>4 DEF GateSees
    <2>2. tool = "state" => helper'[k].todo # AllDone BY <1>14, Programs, Apart
    <2>3. tool = "search" => SearchSees(k)'
      <3>1. tool = "search" => helper'[k].todo = ToSearch BY <1>14, Programs
      <3>2. ToSearch \notin {ToSelect, ToLease, ToLook, ToFill, ToClick, ToRead, AllDone} BY Tails, Apart
      <3> QED BY <3>1, <3>2 DEF SearchSees
    <2> QED BY <1>0, <1>14, <2>1, <2>2, <2>3 DEF CallSees
  <1>18. ASSUME NEW j \in Call \ {k} PROVE CallSees(j)'
    <2>1. Like(j) /\ CallSees(j) BY <1>6 DEF Seeing, CallsSee
    <2>2. CallerOf[j] \in CardRequest BY SearchAssumption
    <2>3. Heard(j)' => Heard(j) BY <1>4, <2>2 DEF Heard
    <2>4. ASSUME helper'[j].alone, helper[j].todo \in {JustFill, JustClick}
          PROVE  seen'[CallerOf[j]] = seen[CallerOf[j]]
      <3>1. Running(j) BY <2>4, JustActs
      <3>2. tool \in Moving => helper'[j].alone = FALSE BY <1>1, <3>1 DEF Starts
      <3>3. tool \notin Moving BY <2>4, <3>2
      <3>4. ~Reset(tool) BY <3>3 DEF Moving, Tool, Reset
      <3> QED BY <1>0, <1>1, <2>2, <3>4
    <2> QED BY <1>2, <2>1, <2>3, <2>4, CallStillSees
  <1>19. ASSUME NEW q \in CardRequest PROVE GateSees(q)' /\ EnvelopeOwn(q)' /\ RequestOwn(q)'
    <2>1. CASE q # r
      <3>1. Same(q) BY <1>1, <2>1
      <3>2. ~Asking(q)' BY <1>0, <1>4, <1>13, <2>1 DEF Asks
      <3> QED BY <3>1, <3>2, OwnStays DEF GateSees, Seeing
    <2>2. CASE q = r
      <3>1. EnvelopeOwn(r) BY <1>0 DEF Seeing, RequestsSee
      <3>2. EnvelopeOwn(r)' /\ RequestOwn(r)' BY <1>1, <3>1 DEF EnvelopeOwn, RequestOwn
      <3>3. GateSees(r)'
        <4> SUFFICES ASSUME gate'[r].ready, seen'[r].alone
                     PROVE  seen'[r].page = selected' /\ \A j \in Call : helper'[j].tool \notin Moving
          BY DEF GateSees
        <4>1. gate[r].ready /\ tool = "state" BY <1>10
        <4>2. seen'[r] = seen[r] BY <1>1, <1>11, <4>1
        <4>3. seen[r].alone BY <4>2
        <4>4. seen[r].page = selected /\ \A j \in Call : helper[j].tool \notin Moving
          BY <1>12, <1>13, <4>1, <4>3 DEF GateSees
        <4>5. helper'[k].tool \notin Moving BY <1>14, <4>1 DEF Moving
        <4>6. \A j \in Call \ {k} : helper'[j].tool \notin Moving BY <1>6, <4>4 DEF Like
        <4> QED BY <1>2, <4>2, <4>4, <4>5, <4>6
      <3> QED BY <2>2, <3>2, <3>3
    <2> QED BY <2>1, <2>2
  <1> QED BY <1>7, <1>15, <1>16, <1>17, <1>18, <1>19 DEF Seeing, CallsSee, RequestsSee
LEMMA AskCardsSees ==
    ASSUME Typed, Asks, Seeing, NEW r \in CardRequest, AskCards(r), quota' = quota PROVE Asks' /\ Seeing'
  <1>1. /\ request'[r].result = "none" /\ request'[r].step = "asking"
        /\ \A q \in CardRequest \ {r} : request'[q] = request[q]
    BY AskCardsGoes
  <1>2. request[r].step = "new" /\ \A q \in CardRequest : ~Asking(q) BY DEF AskCards
  <1>3. /\ UNCHANGED <<gate, envelope, helper, seen>> /\ selected' = selected /\ typed' = typed /\ FacesStay
    BY DEF AskCards, tabVars, FacesStay
  <1>4. \A q \in CardRequest \ {r} : ~Asking(q)' BY <1>1, <1>2 DEF Asking
  <1>5. \A k \in Call : Running(k)' <=> Running(k) BY <1>3 DEF Running
  <1>6. \A k \in Call : CallerOf[k] \in CardRequest BY SearchAssumption
  <1>7. Asks'
    <2>1. \A k \in Call : Running(k)' => request'[CallerOf[k]].step # "new"
      BY <1>1, <1>5, <1>6 DEF Asks
    <2> QED BY <1>4, <2>1 DEF Asks
  <1>8. Fewer BY <1>3, <1>5 DEF Fewer
  <1>9. \A k \in Call : LoneCall(k)' BY <1>8, LoneCallsStay DEF Seeing
  <1>10. ASSUME NEW k \in Call PROVE CallSees(k)'
    <2>1. CASE Running(k)
      <3>1. CallerOf[k] # r BY <1>2, <2>1 DEF Asks
      <3>2. ~Heard(k)' BY <1>4, <1>6, <3>1 DEF Heard
      <3>3. Like(k) /\ CallSees(k) BY <1>3 DEF Like, Seeing, CallsSee
      <3> QED BY <1>3, <3>2, <3>3, CallStillSees
    <2>2. CASE ~Running(k) BY <1>5, <2>2 DEF CallSees
    <2> QED BY <2>1, <2>2
  <1>11. ASSUME NEW q \in CardRequest PROVE GateSees(q)' /\ EnvelopeOwn(q)' /\ RequestOwn(q)'
    <2>1. CASE q # r
      <3>1. Same(q) BY <1>1, <1>3, <2>1 DEF Same
      <3>2. ~Asking(q)' BY <1>4, <2>1
      <3> QED BY <3>1, <3>2, OwnStays DEF GateSees, Seeing
    <2>2. CASE q = r
      <3>1. gate'[r] = NewGate BY <1>2, <1>3 DEF Typed, AgentsTyped, AgentOK, RequestOK
      <3>2. ~gate'[r].ready BY <3>1, NewGateIsOne
      <3>3. EnvelopeOwn(r) BY DEF Seeing, RequestsSee
      <3> QED BY <1>1, <1>3, <2>2, <3>2, <3>3 DEF GateSees, EnvelopeOwn, RequestOwn
    <2> QED BY <2>1, <2>2
  <1> QED BY <1>7, <1>9, <1>10, <1>11 DEF Seeing, CallsSee, RequestsSee
\* The answer, or the second prompt, of a request.
LEMMA NewPiSees ==
    ASSUME Typed, Asks, Seeing, NEW r \in CardRequest, Renewed(r), SomeEnd, OwnCards(r), UNCHANGED tabVars,
           Asking(r), request'[r].step \in {"asking", "done"},
           \A k \in Call : CallerOf[k] = r /\ Running(k)' => request'[r].step = "done"
    PROVE  Asks' /\ Seeing'
  <1>1. selected' = selected /\ typed' = typed /\ FacesStay BY DEF tabVars, FacesStay
  <1>2. \A q \in CardRequest \ {r} : Same(q) /\ seen'[q] = seen[q] /\ request'[q] = request[q]
    BY DEF Renewed, Same
  <1>3. \A q \in CardRequest \ {r} : ~Asking(q)' BY <1>2 DEF Asks, Asking
  <1>4. \A k \in Call : CallerOf[k] \in CardRequest BY SearchAssumption
  <1>5. ASSUME NEW k \in Call
        PROVE  ~Running(k)' \/ (helper'[k] = helper[k] /\ Running(k))
    <2>1. CASE helper'[k] = helper[k] BY <2>1 DEF Running
    <2>2. CASE helper'[k] = NoHelper BY <2>2, NoHelperIsOne DEF Running
    <2> QED BY <2>1, <2>2 DEF SomeEnd
  <1>6. Asks'
    <2>1. \A k \in Call : Running(k)' => request'[CallerOf[k]].step # "new"
      BY <1>2, <1>4, <1>5 DEF Asks
    <2> QED BY <1>3, <2>1 DEF Asks
  <1>7. Fewer
    <2>1. ASSUME NEW k \in Call
          PROVE  /\ helper'[k].tool \in {helper[k].tool, "none"}
                 /\ helper'[k].alone /\ Running(k)' => helper[k].alone
      <3>1. CASE helper'[k] = helper[k] BY <3>1
      <3>2. CASE helper'[k] = NoHelper BY <1>5, <3>2, NoHelperIsOne DEF Running
      <3> QED BY <3>1, <3>2 DEF SomeEnd
    <2> QED BY <2>1 DEF Fewer
  <1>8. \A k \in Call : LoneCall(k)' BY <1>7, LoneCallsStay DEF Seeing
  <1>9. ASSUME NEW k \in Call PROVE CallSees(k)'
    <2>1. CASE ~Running(k)' BY <2>1 DEF CallSees
    <2>2. CASE helper'[k] = helper[k] /\ Running(k)'
      <3>1. ~Heard(k)'
        <4>1. CASE CallerOf[k] = r BY <2>2, <4>1 DEF Heard, Asking
        <4>2. CASE CallerOf[k] # r BY <1>3, <1>4, <4>2 DEF Heard
        <4> QED BY <4>1, <4>2
      <3>2. Like(k) /\ CallSees(k) BY <2>2 DEF Like, Seeing, CallsSee
      <3> QED BY <1>1, <3>1, <3>2, CallStillSees
    <2> QED BY <1>5, <2>1, <2>2
  <1>10. ASSUME NEW q \in CardRequest PROVE GateSees(q)' /\ EnvelopeOwn(q)' /\ RequestOwn(q)'
    <2>1. CASE q # r BY <1>2, <1>3, <2>1, OwnStays DEF GateSees, Seeing
    <2>2. CASE q = r
      <3>1. ~gate'[r].ready BY NewGateIsOne DEF Renewed
      <3>2. envelope'[r].status # "cards" BY NoEnvelopeIsOne DEF Renewed
      <3>3. EnvelopeOwn(r) BY DEF Seeing, RequestsSee
      <3>4. RequestOwn(r)' BY <3>3 DEF OwnCards, EnvelopeOwn, RequestOwn
      <3> QED BY <2>2, <3>1, <3>2, <3>4 DEF GateSees, EnvelopeOwn
    <2> QED BY <2>1, <2>2
  <1> QED BY <1>6, <1>8, <1>9, <1>10 DEF Seeing, CallsSee, RequestsSee
LEMMA AgentStepSees ==
    ASSUME SearchTypes, Asks, Seeing, AgentStep, quota' = quota PROVE Asks' /\ Seeing'
  <1>1. Typed /\ quota \in SearchQuotas BY DEF SearchTypes
  <1>2. CASE \E r \in CardRequest : AskCards(r) BY <1>1, <1>2, AskCardsSees
  <1>3. ASSUME NEW r \in CardRequest, AgentEnds(r) PROVE Asks' /\ Seeing'
    <2>1. Renewed(r) /\ OwnCards(r) /\ helper' = helper /\ request'[r].step \in {"asking", "done"}
      BY <1>1, <1>3, AgentEndsGoes
    <2>2. Asking(r) /\ CallsOf(r) = {} /\ UNCHANGED tabVars BY <1>3 DEF AgentEnds
    <2>3. \A k \in Call : CallerOf[k] = r => ~Running(k)' BY <2>1, <2>2 DEF CallsOf, Running
    <2>4. SomeEnd BY <2>1 DEF SomeEnd
    <2> QED BY <1>1, <2>1, <2>2, <2>3, <2>4, NewPiSees
  <1>4. ASSUME NEW r \in CardRequest, PiIsStopped(r) PROVE Asks' /\ Seeing'
    <2>1. Renewed(r) /\ OwnCards(r) /\ SomeEnd /\ request'[r].step = "done" BY <1>1, <1>4, PiIsStoppedGoes
    <2>2. Asking(r) /\ UNCHANGED tabVars BY <1>4 DEF PiIsStopped
    <2> QED BY <1>1, <2>1, <2>2, NewPiSees
  <1>5. ASSUME NEW k \in Call, KillHelper(k) PROVE Asks' /\ Seeing'
    <2>1. Running(k) /\ Payload(k, "killed") /\ request' = request /\ UNCHANGED tabVars
      BY <1>5 DEF KillHelper
    <2>2. UNCHANGED <<tabVars, request, quota>> BY <2>1
    <2>3. Seeing' BY <1>1, <2>1, <2>2, PayloadSees
    <2>4. FaceMoves BY <2>1 DEF FaceMoves, tabVars
    <2>5. Others(k) BY <1>1, <2>1, <2>2, <2>4, PayloadGoes DEF Went
    <2>6. \A j \in Call : Running(j)' => Running(j) BY <2>1, <2>5 DEF Others, Running
    <2>7. \A r \in CardRequest : Asking(r)' <=> Asking(r) BY <2>1 DEF Asking
    <2>8. Asks'
      <3> HIDE DEF Running, Asking
      <3> QED BY <2>1, <2>6, <2>7 DEF Asks
    <2> QED BY <2>3, <2>8
  <1>6. CASE \E k \in Call, text \in Query : CallTool(k, "search", text)
    BY <1>1, <1>6, CallToolSees DEF Tool, Texts
  <1>7. ASSUME NEW k \in Call, NEW tool \in Tool \ {"search"},
               CallTool(k, tool, IF tool = "fill" THEN QueryOf[CallerOf[k]] ELSE NoQuery)
        PROVE  Asks' /\ Seeing'
    <2>1. (IF tool = "fill" THEN QueryOf[CallerOf[k]] ELSE NoQuery) \in Texts BY SearchAssumption DEF Texts
    <2> QED BY <1>1, <1>7, <2>1, CallToolSees
  <1> QED BY <1>2, <1>3, <1>4, <1>5, <1>6, <1>7 DEF AgentStep

----------------------------------------------------------------------------
(* The steps of the others.                                                *)

\* Nothing moves but what a tab shows, and that not to the results of a query.
LEMMA StaySees ==
    ASSUME Typed, Asks, Seeing, UNCHANGED <<agentVars, helper, seen, selected, typed>>, FacesStay
    PROVE  Asks' /\ Seeing'
  <1>1. UNCHANGED <<request, gate, envelope, helper, seen, selected, typed>> BY DEF agentVars
  <1>2. \A k \in Call : Like(k) /\ (Heard(k)' => Heard(k)) BY <1>1 DEF Like, Heard, Asking
  <1>3. Fewer BY <1>1 DEF Fewer
  <1>4. Asks' BY <1>1 DEF Asks, Asking, Running
  <1>5. \A k \in Call : LoneCall(k)' BY <1>3, LoneCallsStay DEF Seeing
  <1>6. \A k \in Call : CallSees(k)' BY <1>1, <1>2, CallStillSees DEF Seeing, CallsSee
  <1>7. ASSUME NEW r \in CardRequest PROVE GateSees(r)'
    <2>1. (Asking(r)' => Asking(r)) /\ (gate'[r].ready => gate[r].ready) BY <1>1 DEF Asking
    <2> QED BY <1>1, <1>3, <2>1, GateStillSees DEF Seeing
  <1>8. \A r \in CardRequest : EnvelopeOwn(r)' /\ RequestOwn(r)' BY <1>1, OwnStays DEF Same, Seeing
  <1> QED BY <1>4, <1>5, <1>6, <1>7, <1>8 DEF Seeing, CallsSee, RequestsSee
LEMMA ClosedSees ==
    ASSUME Typed, Asks, Seeing, NEW p \in Pages, Closed(p), UNCHANGED <<agentVars, quota>>
    PROVE  Asks' /\ Seeing'
  <1>1. p \in Page /\ face'[p] = "closed" /\ \A q \in Page \ {p} : face'[q] = face[q]
    BY ClosedTabs DEF Typed
  <1>2. FacesStay BY <1>1, SearchAssumption DEF FacesStay
  <1>3. typed' = typed BY DEF Closed
  <1>4. CASE UNCHANGED <<selected, helper, seen>> BY <1>2, <1>3, <1>4, StaySees
  <1>5. CASE /\ \A k \in Call : Running(k) => helper'[k].alone = FALSE
             /\ \A r \in CardRequest : seen'[r].alone = FALSE
    <2>1. \A k \in Call : Running(k)' <=> Running(k) BY ClosedAgents DEF Like, Running
    <2>2. \A k \in Call : ~(Running(k)' /\ helper'[k].alone) BY <1>5, <2>1
    <2>3. \A k \in Call : LoneCall(k)' /\ CallSees(k)' BY <2>2 DEF LoneCall, CallSees
    <2>4. \A r \in CardRequest : GateSees(r)' BY <1>5 DEF GateSees
    <2>5. \A r \in CardRequest : EnvelopeOwn(r)' /\ RequestOwn(r)'
      BY OwnStays DEF Same, Seeing, agentVars
    <2>6. request' = request BY DEF agentVars
    <2>7. \A r \in CardRequest : Asking(r)' <=> Asking(r) BY <2>6 DEF Asking
    <2>8. Asks'
      <3> HIDE DEF Running, Asking
      <3> QED BY <2>1, <2>6, <2>7 DEF Asks
    <2> QED BY <2>3, <2>4, <2>5, <2>8 DEF Seeing, CallsSee, RequestsSee
  <1> QED BY <1>4, <1>5, ClosedAgents
LEMMA OtherStepSees ==
    ASSUME SearchTypes, Asks, Seeing, WatcherStep \/ World, quota' = quota PROVE Asks' /\ Seeing'
  <1>1. Typed /\ LeaseTypes /\ TabTypes BY DEF SearchTypes, Typed
  <1>2. UNCHANGED agentVars
    BY DEF WatcherStep, World, Watch, Clean, Close, DeleteLease, LeaseGoesQuiet, PageChanges, ClosedByHand
  <1>3. CASE UNCHANGED <<tabVars, helper, seen>>
    BY <1>1, <1>2, <1>3, StaySees DEF tabVars, FacesStay
  <1>4. CASE PageChanges
    <2>1. \A p \in Page : face'[p] = face[p] \/ face'[p] \in {"form", "stop"}
      BY <1>1, <1>4 DEF PageChanges, TabTypes
    <2>2. FacesStay BY <2>1, SearchAssumption DEF FacesStay
    <2> QED BY <1>1, <1>2, <1>4, <2>2, StaySees DEF PageChanges
  <1>5. ASSUME NEW p \in Pages, Closed(p) PROVE Asks' /\ Seeing'
    BY <1>1, <1>2, <1>5, ClosedSees
  <1>6. \A w \in Page : watcher[w].page \in Pages /\ w \in Pages BY <1>1 DEF LeaseTypes, Watchers, Pages
  <1>7. CASE \E w \in Page : Watch(w) \/ Clean(w) \/ DeleteLease(w) BY <1>3, <1>7 DEF Watch, Clean, DeleteLease
  <1>8. CASE \E w \in Page : Close(w) BY <1>3, <1>5, <1>6, <1>8 DEF Close
  <1>9. CASE LeaseGoesQuiet BY <1>3, <1>9 DEF LeaseGoesQuiet
  <1>10. CASE ClosedByHand BY <1>5, <1>6, <1>10 DEF ClosedByHand
  <1> QED BY <1>4, <1>7, <1>8, <1>9, <1>10 DEF WatcherStep, World

LEMMA SeeingHolds == SearchSpec => [](Asks /\ Seeing)
  <1>1. SearchInit => Asks /\ Seeing
    BY NewGateIsOne, NoHelperIsOne, NoEnvelopeIsOne
    DEF SearchInit, Asks, Seeing, CallsSee, RequestsSee, LoneCall, CallSees, GateSees, EnvelopeOwn, RequestOwn,
        NewRequest, Asking, Running
  <1>2. SearchTypes /\ Asks /\ Seeing /\ [SearchNext]_searchVars => Asks' /\ Seeing'
    <2> SUFFICES ASSUME SearchTypes, Asks, Seeing, [SearchNext]_searchVars PROVE Asks' /\ Seeing'
      OBVIOUS
    <2>1. CASE SearchNext
      BY <2>1, AgentStepSees, HelperStepSees, OtherStepSees DEF SearchNext
    <2>2. CASE UNCHANGED searchVars
      <3>1. UNCHANGED <<agentVars, helper, seen, selected, typed>> /\ face' = face
        BY <2>2 DEF searchVars, tabVars
      <3>2. Typed /\ FacesStay BY <3>1 DEF SearchTypes, FacesStay
      <3> QED BY <3>1, <3>2, StaySees
    <2> QED BY <2>1, <2>2
  <1> QED BY <1>1, <1>2, SearchStaysTyped, PTL DEF SearchSpec

----------------------------------------------------------------------------
(* The theorems.                                                           *)

LEMMA TypesAreSession == SearchTypes => SessionTypeOK
  <1> SUFFICES ASSUME SearchTypes PROVE SessionTypeOK
    OBVIOUS
  <1>1. TabTypes /\ LeaseTypes /\ ProcessTypes /\ Typed /\ AgentsTyped BY DEF SearchTypes, Typed, AgentsTyped
  <1>2. /\ face \in [Page -> {"unborn", "form", "stop", "closed"} \cup Query]
        /\ typed \in [Page -> Texts] /\ selected \in Pages /\ tabLease \in Leases
    BY <1>1 DEF TabTypes, LeaseTypes, Shows, Pages, Born
  <1>3. \A p \in Page : watcher[p].page \in Pages BY <1>1 DEF LeaseTypes, Watchers
  <1>4. \A p \in Page : face[p] = "unborn" => p \notin {selected, tabLease.page} /\ watcher[p].step = "none"
    BY <1>1, SearchAssumption DEF TabTypes, LeaseTypes, Born
  <1>5. ASSUME NEW r \in CardRequest
        PROVE  /\ request[r].result \in Results /\ request[r].cards \in Texts
               /\ request[r].tools \in 0..quota.tools[r] /\ request[r].attempt \in 1..2
               /\ gate[r].count \in 0..MaxActions /\ ~(gate[r].ready /\ gate[r].stop)
               /\ seen[r].page \in Pages
    <2>1. request[r] \in Requests /\ seen[r] \in Observations BY <1>1 DEF ProcessTypes
    <2>2. request[r].result \in Results /\ request[r].cards \in Texts /\ request[r].attempt \in 1..2
      BY <2>1 DEF Requests
    <2>3. gate[r].count \in 0..MaxActions /\ ~(gate[r].ready /\ gate[r].stop)
      BY <1>1, Zenon DEF AgentsTyped, AgentOK, GateOK
    <2>4. request[r].tools \in 0..quota.tools[r] BY <1>1 DEF AgentsTyped, AgentOK, RequestOK
    <2>5. seen[r].page \in Pages BY <2>1 DEF Observations
    <2> QED BY <2>2, <2>3, <2>4, <2>5
  <1>6. \A k \in Call : helper[k].copy \in Leases /\ helper[k].text \in Texts BY <1>1, HelperIs
  <1> QED BY <1>2, <1>3, <1>4, <1>5, <1>6, Zenon DEF SessionTypeOK
\* The cards a search returns are those of its own query, or none, unless another call
\* moved the session meanwhile or its tab was closed under it.
THEOREM CardsAreOwn == SearchSpec => []CardsAreOfTheQuery
  <1>1. Seeing /\ SessionTypeOK => CardsAreOfTheQuery
    BY DEF Seeing, RequestsSee, RequestOwn, CardsAreOfTheQuery
  <1> QED BY <1>1, TypesAreSession, SearchStaysTyped, SeeingHolds, PTL
\* Pi fills or clicks only in the tab it has observed since it last acted, whatever it
\* called, lost to the timer or overlapped before that observation.
THEOREM ActsAreSeen == SearchSpec => []ActsOnSeenTab
  <1>1. SearchTypes /\ Seeing => ActsOnSeenTab
    <2> SUFFICES ASSUME SearchTypes, Seeing, NEW k \in Call, Heard(k), helper[k].alone, seen[CallerOf[k]].alone,
                        helper[k].tool \in Mutating, Doing(k, "fill") \/ Doing(k, "click")
                 PROVE  seen[CallerOf[k]].page = selected
      BY DEF ActsOnSeenTab
    <2>1. Typed BY DEF SearchTypes
    <2>2. helper[k].todo \in {JustFill, JustClick}
      BY <2>1, HelperIs, NextCommand DEF Doing, Mutating
    <2>3. CallSees(k) /\ Running(k) BY <2>1, <2>2, JustActs DEF Seeing, CallsSee
    <2> QED BY <2>2, <2>3 DEF CallSees
  <1> QED BY <1>1, SearchStaysTyped, SeeingHolds, PTL
=============================================================================
