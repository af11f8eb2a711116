------------------------- MODULE LiepinConnections -------------------------
(***************************************************************************)
(* The recruiter's Liepin account, which two databases describe: the       *)
(* workbench's source_connections row, and the connection and compliance   *)
(* gate of the provider store (providers/liepin/store.py).  The start      *)
(* probe and the login relay of workbench_routes.py move both, one         *)
(* transaction after the other.                                            *)
(*                                                                         *)
(* The routes are coroutines of one event loop: what a handler does        *)
(* between two awaits excludes every other handler, but not the threads of *)
(* the job runner, and not a crash.  A gate that create_connection leaves  *)
(* unused when it fails is never referred to, so there is one gate.        *)
(***************************************************************************)
EXTENDS Naturals, FiniteSets

CONSTANTS Account,    \* provider account hashes a browser may report
          OwnHash,    \* _workbench_provider_account_hash of the connection
          NoAccount,
          Request     \* requests the recruiter sends, each at most once

ASSUME AccountAssumption == OwnHash \in Account /\ NoAccount \notin Account

VARIABLES
    backend,  \* who drives the browser: opencli, an agent with its own tools, or
              \* the worker process
    wb,       \* the source_connections row; gated: has it a compliance_gate_ref
    row,      \* the liepin_connections row and the age of its session metadata
    gate,     \* the liepin_compliance_gates row it belongs to
    browser,  \* the account the browser, or the session the worker stored, is good for
    relay,    \* has the worker process a login relay open
    request   \* the recruiter's requests: how far they are, what they read before
              \* they had to wait, and the account they record

linkVars == <<backend, wb, row, gate, browser, relay, request>>

Backend == {"opencli", "agent", "managed"}
Reported == Account \cup {NoAccount}
Waiting == {"probing", "handing", "completing"}
Holding == {"ensuring", "approving", "recording", "connecting"}
NoRequest == [step |-> "new", kind |-> "none", account |-> NoAccount, gated |-> FALSE,
              found |-> NoAccount]

LinkTypeOK ==
    /\ backend \in Backend
    /\ wb \in [status : {"absent", "login_required", "login_in_progress", "connected"},
               account : Reported, gated : BOOLEAN]
    /\ row \in [status : {"absent", "pending_login", "connected"}, account : Reported,
                session : {"none", "fresh", "stale"}]
    /\ gate \in [status : {"none", "pending", "approved"}, account : Reported]
    /\ browser \in Reported /\ relay \in BOOLEAN
    /\ request \in [Request -> [step : {"new", "done"} \cup Waiting \cup Holding,
                                kind : {"none", "probe", "login", "complete"},
                                account : Reported, gated : BOOLEAN, found : Reported]]

LinkInit ==
    /\ backend \in Backend
    /\ wb = [status |-> "absent", account |-> NoAccount, gated |-> FALSE]
    /\ row = [status |-> "absent", account |-> NoAccount, session |-> "none"]
    /\ gate = [status |-> "none", account |-> NoAccount]
    /\ browser = NoAccount /\ relay = FALSE
    /\ request = [r \in Request |-> NoRequest]

----------------------------------------------------------------------------
(* What the worker clients say of the session.                             *)

\* Which accounts a browser can be signed in to.  OpenCLI only knows whether it is
\* there at all; the worker's relay signs in for the workbench's own hash, which is a
\* digest of the connection's id that no agent reports.
Signed == IF backend = "agent" THEN Account \ {OwnHash} ELSE {OwnHash}

\* session_status for the account asked about; NoAccount when it is not ready.
SessionStatus(asked) ==
    CASE browser = NoAccount -> NoAccount
      [] backend = "opencli" -> asked
      [] backend = "agent" -> browser
      [] OTHER -> IF asked = browser THEN browser ELSE NoAccount

\* The recruiter signs in, out, or to another account; the extension comes and goes.
\* Nothing deletes a session the worker stored.
BrowserChanges ==
    /\ browser' \in (Signed \cup {NoAccount}) \ {browser}
    /\ backend # "managed"
    /\ UNCHANGED <<backend, wb, row, gate, relay, request>>

\* CONNECTION_SAFETY_TTL runs out.
SessionAges ==
    /\ row.session = "fresh"
    /\ row' = [row EXCEPT !.session = "stale"]
    /\ UNCHANGED <<backend, wb, gate, browser, relay, request>>

\* A relay expires, or the next one closes it.
RelayExpires ==
    /\ relay /\ relay' = FALSE
    /\ UNCHANGED <<backend, wb, row, gate, browser, request>>

----------------------------------------------------------------------------
(* Requests.                                                               *)

\* The event loop runs the handler of request r, or no handler at all.
Loop(r) == \A q \in Request \ {r} : request[q].step \notin Holding

Begin(r, kind, step, row0) ==
    /\ Loop(r) /\ request[r].step = "new"
    /\ wb' = row0
    /\ request' = [request EXCEPT ![r] = [step |-> step, kind |-> kind, found |-> NoAccount,
                                          account |-> row0.account, gated |-> row0.gated]]

To(r, step) == request' = [request EXCEPT ![r].step = step]

\* _ensure_liepin_browser_session_ready_for_start reads the connection, or creates it.
BeginProbe(r) ==
    /\ Begin(r, "probe", "probing",
             IF wb.status = "absent" THEN [wb EXCEPT !.status = "login_required"] ELSE wb)
    /\ UNCHANGED <<backend, row, gate, browser, relay>>

\* start_liepin_connection_login: the own hash is what it will record.
BeginLogin(r) ==
    /\ wb.status # "absent"
    /\ Begin(r, "login", "ensuring", wb)
    /\ UNCHANGED <<backend, row, gate, browser, relay>>

\* complete_liepin_connection_login.
BeginComplete(r) ==
    /\ wb.status # "absent"
    /\ Begin(r, "complete", "completing", wb)
    /\ UNCHANGED <<backend, row, gate, browser, relay>>

\* What the probe will record: opencli has no account of its own to report.
Found(r) == IF backend = "opencli" /\ browser # NoAccount /\ request[r].account = NoAccount
            THEN OwnHash ELSE SessionStatus(request[r].account)

\* Wrong variant: whatever account the browser is signed in to.
ProbeAnswersAnybody(r) ==
    /\ request[r].step = "probing" /\ Loop(r)
    /\ Found(r) # NoAccount
    /\ request' = [request EXCEPT ![r].step = "ensuring", ![r].found = Found(r)]
    /\ UNCHANGED <<backend, wb, row, gate, browser, relay>>

\* The session is ready, for the account the connection had when it was read.
ProbeAnswers(r) ==
    /\ request[r].step = "probing" /\ Loop(r)
    /\ Found(r) # NoAccount
    /\ request[r].account \in {NoAccount, Found(r)}
    /\ request' = [request EXCEPT ![r].step = "ensuring", ![r].found = Found(r)]
    /\ UNCHANGED <<backend, wb, row, gate, browser, relay>>

\* It is not, or it is somebody else's, or a call to the browser raises: login is
\* required, unless the source run is running, queued with a job, or over.
ProbeRefuses(r) ==
    /\ request[r].step = "probing" /\ Loop(r)
    /\ \/ wb' = [wb EXCEPT !.status = "login_required"]
       \/ UNCHANGED wb
    /\ To(r, "done")
    /\ UNCHANGED <<backend, row, gate, browser, relay>>

\* _ensure_workbench_liepin_provider_connection: the gate the connection has is kept;
\* otherwise it gets a gate and a provider row, and if there is such a row already the
\* insert raises and the request ends with an error.
Ensure(r) ==
    /\ request[r].step = "ensuring"
    /\ LET next == IF request[r].kind = "probe" THEN "approving" ELSE "handing" IN
       \/ /\ request[r].gated
          /\ To(r, next) /\ UNCHANGED <<row, gate>>
       \/ /\ ~request[r].gated /\ row.status = "absent"
          /\ row' = [row EXCEPT !.status = "pending_login"]
          /\ gate' = [gate EXCEPT !.status = "pending"]
          /\ To(r, next)
       \/ /\ ~request[r].gated /\ row.status # "absent"
          /\ To(r, "done") /\ UNCHANGED <<row, gate>>
    /\ UNCHANGED <<backend, wb, browser, relay>>

\* approve_connection_account_hash, whose result nobody looks at.
ApproveGate(r) ==
    /\ request[r].step = "approving"
    /\ IF row.status = "absent" THEN UNCHANGED <<row, gate>>
       ELSE /\ gate' = [status |-> "approved", account |-> request[r].found]
            /\ row' = [row EXCEPT !.status = "connected", !.account = request[r].found]
    /\ To(r, "recording")
    /\ UNCHANGED <<backend, wb, browser, relay>>

\* record_session_metadata.
RecordSession(r) ==
    /\ request[r].step = "recording"
    /\ row' = IF row.status = "absent" THEN row
              ELSE [status |-> "connected", account |-> request[r].found, session |-> "fresh"]
    /\ To(r, "connecting")
    /\ UNCHANGED <<backend, wb, gate, browser, relay>>

\* mark_liepin_connection_connected_for_source_run; after a login
\* mark_liepin_connection_connected_without_source_runs, which keeps what is there.
MarkConnected(r) ==
    /\ request[r].step = "connecting"
    /\ wb' = [status |-> "connected", account |-> request[r].found,
              gated |-> request[r].kind = "probe" \/ request[r].gated \/ wb.gated]
    /\ To(r, "done")
    /\ UNCHANGED <<backend, row, gate, browser, relay>>

\* login_handoff answers or raises; start_liepin_login_handoff stores the handoff
\* either way, with a warning if there is no relay.
StoreHandoff(r) ==
    /\ request[r].step = "handing" /\ Loop(r)
    /\ relay' \in IF backend = "managed" THEN {relay, TRUE} ELSE {relay}
    /\ wb' = [status |-> "login_in_progress", account |-> OwnHash, gated |-> TRUE]
    /\ To(r, "done")
    /\ UNCHANGED <<backend, row, gate, browser>>

\* PlaywrightLoginRelayController.complete found the cookies and stored them under the
\* scope the handoff had.  A request that saw no gate records no session.
CompleteRelay(r) ==
    /\ request[r].step = "completing" /\ Loop(r)
    /\ relay /\ relay' = FALSE
    /\ browser' = OwnHash
    /\ request' = [request EXCEPT ![r].found = OwnHash,
                                  ![r].step = IF request[r].gated THEN "approving" ELSE "connecting"]
    /\ UNCHANGED <<backend, wb, row, gate>>

\* The relay is gone, or the login not verified: 409.
CompleteFails(r) ==
    /\ request[r].step = "completing" /\ Loop(r)
    /\ To(r, "done")
    /\ UNCHANGED <<backend, wb, row, gate, browser, relay>>

RequestStep(r) ==
    \/ BeginProbe(r) \/ BeginLogin(r) \/ BeginComplete(r)
    \/ ProbeAnswers(r) \/ ProbeRefuses(r) \/ Ensure(r) \/ ApproveGate(r) \/ RecordSession(r)
    \/ MarkConnected(r) \/ StoreHandoff(r) \/ CompleteRelay(r) \/ CompleteFails(r)

\* The server dies with its requests and is started again; what is committed stays.
LinkCrash ==
    /\ request' = [r \in Request |-> IF request[r].step = "new" THEN request[r]
                                     ELSE [request[r] EXCEPT !.step = "done"]]
    /\ UNCHANGED <<backend, wb, row, gate, browser, relay>>

LinkNext == \/ \E r \in Request : RequestStep(r)
            \/ BrowserChanges \/ SessionAges \/ RelayExpires
=============================================================================
