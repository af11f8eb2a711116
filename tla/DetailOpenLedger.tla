------------------------- MODULE DetailOpenLedger -------------------------
(***************************************************************************)
(* Opening candidate details on Liepin costs the recruiter's account, so   *)
(* the workbench keeps an approval queue (detail_open_requests) and a      *)
(* budget ledger (detail_open_ledger) for it.  This is the part of         *)
(* workbench_store.py that moves them: requests made by hand or            *)
(* recommended when a run's results are persisted, decisions, the lease    *)
(* and budget check, and the reconciliation of expired leases.  A request  *)
(* stands for its idempotency key; all share one connection.               *)
(***************************************************************************)
EXTENDS Naturals, FiniteSets

CONSTANTS Request,         \* requests, by idempotency key
          AutoRequest,     \* those a run's completion recommends
          SourceRun,       \* Liepin source runs, each the only one of its session
          RunOf,           \* the run of each request's candidate
          DailyLimit,      \* LIEPIN_DAILY_DETAIL_OPEN_LIMIT
          AutoLimit,       \* LIEPIN_AUTO_DETAIL_REQUEST_LIMIT
          ViewLeaseTicks,  \* DETAIL_OPEN_LEASE_SECONDS in clock ticks
          DayTicks,        \* clock ticks in a budget day
          MaxClock         \* the last tick considered

ASSUME LedgerAssumption ==
    /\ IsFiniteSet(Request) /\ AutoRequest \subseteq Request
    /\ RunOf \in [Request -> SourceRun]
    /\ {DailyLimit, AutoLimit, MaxClock} \subseteq Nat
    /\ {ViewLeaseTicks, DayTicks} \subseteq Nat \ {0}

VARIABLES clock,
          connected,    \* is the Liepin connection connected, with an account hash
          mode,         \* source_run_policies.detail_open_mode of each run's session
          call,         \* calls between their reconciliation and their transaction
          status,       \* detail_open_requests.status, "none" before the insert
          ledger,       \* detail_open_ledger row of each request
          intent,       \* requests with an external_write_intents row
          usedCount,    \* source_runs.detail_open_used_count
          blockedCount  \* source_runs.detail_open_blocked_count

tables == <<status, ledger, intent, usedCount, blockedCount>>
ledgerVars == <<clock, connected, mode, call, tables>>

Status == {"none", "pending", "approved", "rejected", "bypassed", "blocked"}
Time == 0..MaxClock
Day(now) == now \div DayTicks
NoEntry == [status |-> "none", day |-> 0, expires |-> 0]
Entry == [status : {"none", "leased", "maybe_used"},
          day : {Day(now) : now \in Time}, expires : {0} \cup {now + ViewLeaseTicks : now \in Time}]

LedgerTypeOK ==
    /\ clock \in Time
    /\ connected \in BOOLEAN
    /\ mode \in [SourceRun -> {"human_confirm", "bypass_confirm"}]
    /\ call \in [Request -> {"none", "creating", "approving"}]
    /\ status \in [Request -> Status]
    /\ ledger \in [Request -> Entry]
    /\ intent \subseteq Request
    /\ usedCount \in [SourceRun -> Nat] /\ blockedCount \in [SourceRun -> Nat]

LedgerInit ==
    /\ clock = 0
    /\ connected = FALSE
    /\ mode = [x \in SourceRun |-> "human_confirm"]
    /\ call = [r \in Request |-> "none"]
    /\ status = [r \in Request |-> "none"]
    /\ ledger = [r \in Request |-> NoEntry]
    /\ intent = {}
    /\ usedCount = [x \in SourceRun |-> 0] /\ blockedCount = [x \in SourceRun |-> 0]

\* A call reads the time before BEGIN IMMEDIATE, and may then wait for the lock.
Now == {clock} \cup {n \in Time : n + 1 = clock}

Leased == {r \in Request : ledger[r].status = "leased"}
Live(now) == {r \in Leased : ledger[r].expires > now}
UsedOn(day) == {r \in Request : ledger[r].status \in {"leased", "maybe_used"} /\ ledger[r].day = day}

\* Wrong variant: one view too many.
MayLeaseOneMore(now) ==
    Live(now) = {} /\ Cardinality(UsedOn(Day(now))) <= DailyLimit /\ Leased = {}

\* Is there room for a lease?  No live lease, budget left today, and the unique
\* index on leased rows, which an expired lease nobody reconciled still occupies.
MayLease(now) ==
    /\ Live(now) = {}
    /\ Cardinality(UsedOn(Day(now))) < DailyLimit
    /\ Leased = {}

\* _lease_liepin_detail_open_request_conn, for a request just decided "decision":
\* it takes a lease, or _block_detail_open_request_conn blocks it for good.
Lease(r, decision, now) ==
    /\ status' = [status EXCEPT ![r] = decision]
    /\ ledger' = [ledger EXCEPT ![r] = [status |-> "leased", day |-> Day(now), expires |-> now + ViewLeaseTicks]]
    /\ intent' = intent \cup {r}
    /\ usedCount' = [usedCount EXCEPT ![RunOf[r]] = @ + 1]
    /\ UNCHANGED blockedCount
Block(r) ==
    /\ status' = [status EXCEPT ![r] = "blocked"]
    /\ blockedCount' = [blockedCount EXCEPT ![RunOf[r]] = @ + 1]
    /\ UNCHANGED <<ledger, intent, usedCount>>
\* Wrong variant of LeaseOrBlock: the decision stands although there was no lease.
DecideAnyway(r, decision, now) ==
    \/ MayLease(now) /\ Lease(r, decision, now)
    \/ /\ ~MayLease(now)
       /\ status' = [status EXCEPT ![r] = decision]
       /\ blockedCount' = [blockedCount EXCEPT ![RunOf[r]] = @ + 1]
       /\ UNCHANGED <<ledger, intent, usedCount>>
LeaseOrBlock(r, decision, now) ==
    \/ MayLease(now) /\ Lease(r, decision, now)
    \/ ~MayLease(now) /\ Block(r)

-----------------------------------------------------------------------------
(* Reconciliation, settings and time.                                      *)

ExpiredLeases(now) == {r \in Leased : ledger[r].expires <= now}

\* Nobody knows whether the view of an expired lease was used, so it counts.
ReconcileLeases(now) ==
    /\ ledger' = [r \in Request |-> IF r \in ExpiredLeases(now)
                                    THEN [ledger[r] EXCEPT !.status = "maybe_used"] ELSE ledger[r]]
    /\ UNCHANGED <<status, intent, usedCount, blockedCount>>

\* list_liepin_detail_open_requests reconciles.
ListRequests ==
    /\ \E now \in Now : ExpiredLeases(now) # {} /\ ReconcileLeases(now)
    /\ UNCHANGED <<clock, connected, mode, call>>

\* update_liepin_source_run_policy.
SetMode(x) ==
    /\ \E m \in {"human_confirm", "bypass_confirm"} : mode' = [mode EXCEPT ![x] = m]
    /\ UNCHANGED <<clock, connected, call, tables>>

\* The login and the start probe connect and disconnect the account.
ChangeConnection ==
    /\ connected' = ~connected
    /\ UNCHANGED <<clock, mode, call, tables>>

ClockTicks ==
    /\ clock < MaxClock
    /\ clock' = clock + 1
    /\ UNCHANGED <<connected, mode, call, tables>>

-----------------------------------------------------------------------------
(* Requests and decisions.                                                 *)

\* create and approve reconcile in a transaction of their own before they decide.
BeginCall(r, what) ==
    /\ call[r] = "none"
    /\ what = "creating" => r \notin AutoRequest
    /\ what = "approving" => status[r] # "none"
    /\ call' = [call EXCEPT ![r] = what]
    /\ \E now \in Now : ReconcileLeases(now)
    /\ UNCHANGED <<clock, connected, mode>>

Ends(r, what) == call[r] = what /\ call' = [call EXCEPT ![r] = "none"]

\* create_liepin_detail_open_request: a key that exists answers with its request,
\* whatever became of it; a new one is pending, or leased at once in bypass mode.
CreateRequest(r) ==
    /\ Ends(r, "creating")
    /\ IF status[r] # "none" \/ ~connected THEN UNCHANGED tables
       ELSE IF mode[RunOf[r]] = "bypass_confirm"
       THEN \E now \in Now : LeaseOrBlock(r, "bypassed", now)
       ELSE /\ status' = [status EXCEPT ![r] = "pending"]
            /\ UNCHANGED <<ledger, intent, usedCount, blockedCount>>
    /\ UNCHANGED <<clock, connected, mode>>

\* Wrong variant: whatever the request's status.
ApproveAnyRequest(r) ==
    /\ Ends(r, "approving")
    /\ \E now \in Now : LeaseOrBlock(r, "approved", now)
    /\ UNCHANGED <<clock, connected, mode>>

\* approve_liepin_detail_open_request: only a pending request, once.
ApproveRequest(r) ==
    /\ Ends(r, "approving")
    /\ IF status[r] # "pending" THEN UNCHANGED tables
       ELSE \E now \in Now : LeaseOrBlock(r, "approved", now)
    /\ UNCHANGED <<clock, connected, mode>>

\* reject_liepin_detail_open_request.
RejectRequest(r) ==
    /\ status[r] = "pending"
    /\ status' = [status EXCEPT ![r] = "rejected"]
    /\ UNCHANGED <<clock, connected, mode, call, ledger, intent, usedCount, blockedCount>>

\* _persist_liepin_card_candidate_results_conn recommends details for the new
\* requests R of run x, in the transaction that completes the run and with no
\* reconciliation before it.  In bypass mode the first one may get the lease,
\* which then blocks every other.
Recommend(x, R) ==
    /\ connected
    /\ R # {} /\ Cardinality(R) <= AutoLimit
    /\ \A r \in R : r \in AutoRequest /\ RunOf[r] = x /\ status[r] = "none"
    /\ \E now \in Now, first \in R :
          LET lucky == IF mode[x] = "bypass_confirm" /\ MayLease(now) THEN {first} ELSE {}
              unlucky == IF mode[x] = "bypass_confirm" THEN R \ lucky ELSE {} IN
          /\ status' = [r \in Request |-> CASE r \in lucky -> "bypassed"
                                            [] r \in unlucky -> "blocked"
                                            [] r \in R \ (lucky \cup unlucky) -> "pending"
                                            [] OTHER -> status[r]]
          /\ ledger' = [r \in Request |->
                            IF r \in lucky THEN [status |-> "leased", day |-> Day(now),
                                                 expires |-> now + ViewLeaseTicks]
                            ELSE ledger[r]]
          /\ intent' = intent \cup lucky
          /\ usedCount' = [usedCount EXCEPT ![x] = @ + Cardinality(lucky)]
          /\ blockedCount' = [blockedCount EXCEPT ![x] = @ + Cardinality(unlucky)]
    /\ UNCHANGED <<clock, connected, mode, call>>

LedgerNext ==
    \/ \E r \in Request : \/ BeginCall(r, "creating") \/ BeginCall(r, "approving")
                          \/ CreateRequest(r) \/ ApproveRequest(r) \/ RejectRequest(r)
    \/ \E x \in SourceRun : SetMode(x) \/ \E R \in SUBSET AutoRequest : Recommend(x, R)
    \/ ListRequests \/ ChangeConnection \/ ClockTicks

LedgerSpec == LedgerInit /\ [][LedgerNext]_ledgerVars

-----------------------------------------------------------------------------
(* Properties.                                                             *)

\* No day's views exceed the budget, counting those that may have been used
\* (the budget check and the insert share a transaction).
DailyBudgetKept == \A day \in {Day(now) : now \in Time} : Cardinality(UsedOn(day)) <= DailyLimit

\* A decision and its lease are one: exactly the approved and bypassed requests
\* hold a ledger row and a write intent, so a rejected, pending or blocked
\* request never costs budget; and one lease is open at a time.
DecisionsHoldLeases ==
    /\ \A r \in Request : /\ status[r] \in {"approved", "bypassed"} <=> ledger[r].status # "none"
                          /\ r \in intent <=> ledger[r].status # "none"
    /\ \A r, q \in Leased : r = q

\* A decided request stays decided: a repeated or late create, approval, rejection
\* or recommendation never takes a second lease for it or revives it.
DecisionsAreFinal ==
    [][\A r \in Request : status[r] \in {"approved", "rejected", "bypassed", "blocked"} =>
           /\ status'[r] = status[r]
           /\ ledger'[r].day = ledger[r].day /\ ledger'[r].expires = ledger[r].expires]_ledgerVars
=============================================================================
