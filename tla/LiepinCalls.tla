---------------------------- MODULE LiepinCalls ----------------------------
(***************************************************************************)
(* Calls of LiepinProviderAdapter.search over the recruiter's connection:  *)
(* a card search, or the verified loop that opens the details of given     *)
(* candidates and keeps an attempt for each of them in the provider store. *)
(*                                                                         *)
(* Calls run in threads or processes of their own, so every transaction of *)
(* the provider store is a step of its own, between the routes' steps of   *)
(* LiepinConnections.  All of them are of one budget day.                  *)
(***************************************************************************)
EXTENDS LiepinConnections, Sequences, Functions

CONSTANTS Call,       \* calls, each made at most once
          Candidate,  \* provider ids of candidates
          Order,      \* the sequences of candidates a detail call may be given
          Budget,     \* daily_detail_budget
          NoCall

ASSUME CallAssumption ==
    /\ IsFiniteSet(Candidate) /\ Order \subseteq Seq(Candidate)
    /\ Budget \in Nat
    /\ NoCall \notin Call

VARIABLES
    call,     \* how far a call is, for which account, and the candidates in hand
    attempt,  \* liepin_detail_attempts, by account and candidate
    opened    \* history: the candidates sent to the worker, by call and account

callVars == <<call, attempt, opened>>
vars == <<linkVars, callVars>>

\* How an attempt ends: charged to the day's budget, or not.
Spent == {"completed", "failed_after_possible_consumption", "unknown"}
Final == Spent \cup {"blocked_by_risk_control", "failed_before_consumption"}
Progress == {"provider_page_loaded", "detail_payload_seen"}
AttemptState == {"none", "approved_not_started", "started"} \cup Progress \cup Final
Checked == {"searching", "counting", "reserving", "starting", "opening", "giving_up", "applying"}
\* How a call ends: it returned, or raised the worker's error after it closed its attempts;
\* it raised while it applied a result or started an attempt; it was cut short.
Ended == {"done", "raised", "cut"}
NewCall == [step |-> "new", mode |-> "card", account |-> NoAccount, todo |-> <<>>,
            items |-> <<>>]

Init ==
    /\ LinkInit
    /\ call = [c \in Call |-> NewCall]
    /\ attempt = [a \in Account |-> [k \in Candidate |->
                    [state |-> "none", consumption |-> "not_consumed", command |-> NoCall]]]
    /\ opened = {}

LiepinTypeOK ==
    /\ LinkTypeOK
    /\ call \in [Call -> [step : {"new", "enforcing", "readying", "checking"} \cup Checked \cup Ended,
                          mode : {"card", "detail"}, account : Reported,
                          todo : Seq(Candidate), items : Seq(Candidate)]]
    /\ attempt \in [Account -> [Candidate ->
          [state : AttemptState, consumption : {"not_consumed", "consumed", "possibly_consumed"},
           command : Call \cup {NoCall}]]]
    /\ opened \subseteq Call \X Account \X Candidate
    \* An attempt is charged exactly if it ended by a view that may have been spent, and a
    \* started one names the call it belongs to.
    /\ \A a \in Account, k \in Candidate :
          LET t == attempt[a][k] IN
          /\ (t.state \in Spent) <=> (t.consumption # "not_consumed")
          /\ (t.command = NoCall) <=> (t.state \in {"none", "approved_not_started"})

----------------------------------------------------------------------------
(* The checks before a search.                                             *)

At(c, step) == call[c].step = step

Goes(c, step) == call' = [call EXCEPT ![c].step = step]

\* run_liepin_card_source_run, or an approved detail lane: the scope comes from the
\* workbench's connection, with its gate.
BeginCall(c) ==
    /\ At(c, "new")
    /\ wb.status = "connected" /\ wb.account # NoAccount /\ wb.gated
    /\ \/ Goes(c, "enforcing")
       \/ \E o \in Order :
             call' = [call EXCEPT ![c] = [NewCall EXCEPT !.step = "enforcing", !.mode = "detail",
                                                         !.todo = o]]
    /\ UNCHANGED <<linkVars, attempt, opened>>

\* ComplianceGate.denial_reason.
Approved(account) == gate.status = "approved" /\ gate.account = account

\* _enforce_live_compliance, against the account of the provider row.
Enforce(c) ==
    /\ At(c, "enforcing")
    /\ IF row.status # "absent" /\ Approved(row.account)
       THEN call' = [call EXCEPT ![c].step = "readying", ![c].account = row.account]
       ELSE Goes(c, "done")
    /\ UNCHANGED <<linkVars, attempt, opened>>

\* _require_ready_session; ensure_ready or the status may fail as well.
RequireReady(c) ==
    /\ At(c, "readying")
    /\ \/ SessionStatus(call[c].account) = call[c].account /\ Goes(c, "checking")
       \/ Goes(c, "done")
    /\ UNCHANGED <<linkVars, attempt, opened>>

\* resolve_liepin_connection_safety and validate_provider_connection_safety.
Safe(account) == /\ row.status = "connected" /\ row.account = account /\ row.session = "fresh"
                 /\ Approved(account)

\* _enforce_connection_safety; then the request is a search or a detail fetch.
CheckSafety(c) ==
    /\ At(c, "checking")
    /\ IF Safe(call[c].account)
       THEN Goes(c, IF call[c].mode = "card" THEN "searching" ELSE "counting")
       ELSE Goes(c, "done")
    /\ UNCHANGED <<linkVars, attempt, opened>>

\* The card search answers or fails.
SearchEnds(c) ==
    /\ At(c, "searching") /\ Goes(c, "done")
    /\ UNCHANGED <<linkVars, attempt, opened>>

----------------------------------------------------------------------------
(* execute_liepin_detail_open_plan.                                        *)

\* DETAIL_ALLOWED_TRANSITIONS.
Allowed(from, to) ==
    CASE from = "approved_not_started" -> to \in {"started", "failed_before_consumption", "unknown"}
      [] from = "started" -> to \in Progress \cup Final
      [] from = "provider_page_loaded" ->
            to \in {"detail_payload_seen", "blocked_by_risk_control",
                    "failed_after_possible_consumption", "unknown"}
      [] from = "detail_payload_seen" -> to \in Spent
      [] OTHER -> FALSE

\* Wrong variant: only a delivered view is charged.
ConsumptionOfDelivered(state) == IF state = "completed" THEN "consumed" ELSE "not_consumed"

ConsumptionOf(state) == CASE state = "completed" -> "consumed"
                          [] state \in Spent -> "possibly_consumed"
                          [] OTHER -> "not_consumed"

Charged(a) == Cardinality({k \in Candidate : attempt[a][k].consumption # "not_consumed"})

Mine(c, k) == attempt[call[c].account][k]

\* count_detail_budget_consumed and build_detail_open_plan: the first candidates, as
\* many as the budget still has.
Plan(c) ==
    /\ At(c, "counting")
    /\ LET used == Charged(call[c].account)
           room == IF used >= Budget THEN 0 ELSE Budget - used
           plan == SubSeq(call[c].todo, 1, IF room < Len(call[c].todo) THEN room ELSE Len(call[c].todo))
       IN call' = [call EXCEPT ![c].todo = plan,
                               ![c].step = IF plan = <<>> THEN "done" ELSE "reserving"]
    /\ UNCHANGED <<linkVars, attempt, opened>>

\* reserve_detail_attempt: an attempt of the day is returned as it is, and only one that
\* was never started becomes a request item.
Reserve(c) ==
    /\ At(c, "reserving") /\ call[c].todo # <<>>
    /\ LET k == Head(call[c].todo)
           known == Mine(c, k).state # "none" IN
       /\ attempt' = IF known THEN attempt
                     ELSE [attempt EXCEPT ![call[c].account][k].state = "approved_not_started"]
       /\ call' = [call EXCEPT ![c].todo = Tail(@),
                     ![c].items = IF Mine(c, k).state \in {"none", "approved_not_started"}
                                  THEN Append(@, k) ELSE @]
    /\ UNCHANGED <<linkVars, opened>>

\* The request to the worker is complete, or empty.
Requested(c) ==
    /\ At(c, "reserving") /\ call[c].todo = <<>>
    /\ call' = [call EXCEPT ![c].todo = call[c].items,
                            ![c].step = IF call[c].items = <<>> THEN "done" ELSE "starting"]
    /\ UNCHANGED <<linkVars, attempt, opened>>

\* transition_detail_attempt; a transition that is not allowed raises out of the loop.
Transition(c, k, state, next) ==
    IF Allowed(Mine(c, k).state, state)
    THEN /\ attempt' = [attempt EXCEPT ![call[c].account][k] =
                          [state |-> state, consumption |-> ConsumptionOf(state), command |-> c]]
         /\ call' = [call EXCEPT ![c] = next]
    ELSE Goes(c, "raised") /\ UNCHANGED attempt

StartNext(c) ==
    /\ At(c, "starting") /\ call[c].todo # <<>>
    /\ Transition(c, Head(call[c].todo), "started", [call[c] EXCEPT !.todo = Tail(@)])
    /\ UNCHANGED <<linkVars, opened>>

\* open_details is sent.
Dispatch(c) ==
    /\ At(c, "starting") /\ call[c].todo = <<>>
    /\ opened' = opened \cup
          {<<c, call[c].account, call[c].items[i]>> : i \in 1..Len(call[c].items)}
    /\ Goes(c, "opening")
    /\ UNCHANGED <<linkVars, attempt>>

\* Wrong variant: the error ends the call without closing its attempts.
OpenFailsAtOnce(c) ==
    /\ At(c, "opening") /\ Goes(c, "done")
    /\ UNCHANGED <<linkVars, attempt, opened>>

\* It raises, as the agent's client always does, or its answer has other keys.
OpenFails(c) ==
    /\ At(c, "opening")
    /\ call' = [call EXCEPT ![c].step = "giving_up", ![c].todo = call[c].items]
    /\ UNCHANGED <<linkVars, attempt, opened>>

GiveUpNext(c) ==
    /\ At(c, "giving_up") /\ call[c].todo # <<>>
    /\ Transition(c, Head(call[c].todo), "unknown", [call[c] EXCEPT !.todo = Tail(@)])
    /\ UNCHANGED <<linkVars, opened>>

\* The worker process answers for every item, in any order.
WorkerAnswers(c) ==
    /\ At(c, "opening") /\ backend = "managed"
    /\ LET n == Len(call[c].items) IN
       \E order \in Bijection(1..n, 1..n) :
          LET results == [i \in 1..n |-> call[c].items[order[i]]] IN
          call' = [call EXCEPT ![c].step = "applying", ![c].items = results, ![c].todo = results]
    /\ UNCHANGED <<linkVars, attempt, opened>>

\* _apply_worker_detail_result takes the next result, or the next transition of it.  The
\* worker may report any status of DetailOpenStatus after any part of the way.
ApplyNext(c) ==
    /\ At(c, "applying") /\ call[c].todo # <<>>
    /\ LET k == Head(call[c].todo)
           rest == [call[c] EXCEPT !.todo = Tail(@)] IN
       \* page_loaded, then payload_seen
       \/ \E state \in Progress : /\ Allowed(Mine(c, k).state, state)
                                 /\ Transition(c, k, state, call[c])
       \* the status; one that does not fit the way is refused by the store
       \/ \E state \in Final : Transition(c, k, state, rest)
       \* completed, without a candidate
       \/ Transition(c, k, "unknown", [rest EXCEPT !.step = "raised"])
       \* completed, with a candidate that cannot be mapped or recorded
       \/ Goes(c, "raised") /\ UNCHANGED attempt
    /\ UNCHANGED <<linkVars, opened>>

LoopEnds(c) ==
    /\ call[c].step \in {"giving_up", "applying"} /\ call[c].todo = <<>>
    /\ Goes(c, "done")
    /\ UNCHANGED <<linkVars, attempt, opened>>

\* The candidates in hand are lost.
Shortened(held) == [held EXCEPT !.step = "cut", !.todo = <<>>, !.items = <<>>]

\* The task of the call is cancelled where it awaits, which no handler of the loop
\* catches, or a transaction of the store fails.
Cut(c) ==
    /\ call[c].step \notin {"new"} \cup Ended
    /\ call' = [call EXCEPT ![c] = Shortened(@)]
    /\ UNCHANGED <<linkVars, attempt, opened>>

CallStep(c) ==
    \/ BeginCall(c) \/ Enforce(c) \/ RequireReady(c) \/ CheckSafety(c) \/ SearchEnds(c)
    \/ Plan(c) \/ Reserve(c) \/ Requested(c) \/ StartNext(c) \/ Dispatch(c)
    \/ OpenFails(c) \/ GiveUpNext(c) \/ WorkerAnswers(c) \/ ApplyNext(c) \/ LoopEnds(c)
    \/ Cut(c)

\* The process dies with its requests and its calls, and is started again.
Crash ==
    /\ LinkCrash
    /\ call' = [c \in Call |-> IF call[c].step \in {"new"} \cup Ended THEN call[c]
                               ELSE Shortened(call[c])]
    /\ UNCHANGED <<attempt, opened>>

Next == \/ LinkNext /\ UNCHANGED callVars
        \/ Crash
        \/ \E c \in Call : CallStep(c)

Spec == Init /\ [][Next]_vars

----------------------------------------------------------------------------
(* Properties.                                                             *)

\* The workbench and the provider store name one account, and the gate is approved for
\* it, whenever both call the connection connected.  They are never committed together,
\* so only what the probe compares and the order in which it writes keep it, also when a
\* crash cuts it short.  (A completion sent before the handoff was stored connects the
\* workbench's row alone.)
DatabasesAgree ==
    wb.status = "connected" /\ row.status = "connected"
    => row.account = wb.account /\ Approved(wb.account)

\* A call that passed _enforce_connection_safety works for the account the gate is
\* approved for, to its end: no probe, login or completion that runs meanwhile gives
\* the gate to another account.
CallsUseApprovedAccount ==
    \A c \in Call : call[c].step \in Checked => Approved(call[c].account)

\* What was sent to the worker stays accounted for.  The attempt of an opened candidate
\* belongs to the call that sent it, so no two calls open one candidate, although
\* store.reserve_detail_attempt gives both the same reservation.  It is final once its
\* call came to its end, by the worker's error or not.  A call that raises over one result
\* leaves open only that candidate and those whose results it had not reached; only one cut
\* short leaves more.
ViewsAreAccounted ==
    \A x \in opened :
        LET t == attempt[x[2]][x[3]]
            left == call[x[1]].todo IN
        /\ t.command = x[1]
        /\ call[x[1]].step = "done" => t.state \in Final
        /\ call[x[1]].step = "raised" =>
              t.state \in Final \/ \E i \in DOMAIN left : left[i] = x[3]
=============================================================================
