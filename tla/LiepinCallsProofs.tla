-------------------------- MODULE LiepinCallsProofs --------------------------
(***************************************************************************)
(* Proofs about LiepinCalls and LiepinConnections, for any accounts,       *)
(* requests, calls, candidates and budget: the two databases agree on the  *)
(* account, a call works for the account the gate is approved for to its   *)
(* end, and what was sent to the worker is accounted for.                  *)
(*                                                                         *)
(* None of the three is inductive.  Nothing in a probe looks at the gate   *)
(* before it approves it; that it never approves a second account follows  *)
(* from what each request read before it had to wait (RequestsAreOfTheRow) *)
(* and from one handler at a time writing the provider store.  The views   *)
(* need to know how far a call is with its items (ItemsAreHandled), which  *)
(* makes every transition of the two loops an allowed one.                 *)
(***************************************************************************)
EXTENDS LiepinCalls, SequenceTheorems, FiniteSetTheorems, TLAPS

(* The connection. *)

\* One request holds the event loop.
OneHolds == \A r, q \in Request :
    request[r].step \in Holding /\ request[q].step \in Holding => r = q

\* Whom the tables name: the provider store names only accounts somebody can sign in
\* to, the workbench also its own hash, which a login stores under every backend.
TablesNameAccounts ==
    /\ browser \in Signed \cup {NoAccount}
    /\ relay => backend = "managed"
    /\ row.status = "absent" => gate.status = "none"
    /\ gate.status = "approved" => gate.account \in Signed
    /\ row.status = "connected" => Approved(row.account)
    /\ wb.account \in Signed \cup {NoAccount, OwnHash}
    /\ wb.status = "connected" => wb.account \in Signed
    /\ wb.gated => wb.account # NoAccount /\ row.status # "absent"
    /\ backend = "agent" /\ wb.account \in Signed => Approved(wb.account)

\* What a request read before it waited still binds the gate.
RequestsAreOfTheRow == \A r \in Request :
    LET q == request[r] IN
    /\ q.account \in Signed \cup {NoAccount, OwnHash}
    /\ q.gated => q.account # NoAccount /\ row.status # "absent"
    /\ backend = "agent" /\ q.account \in Signed => Approved(q.account)
    /\ q.step = "probing" => q.kind = "probe"
    /\ q.step = "ensuring" => q.kind \in {"probe", "login"}
    /\ q.step = "ensuring" /\ q.kind = "probe" => q.found \in Signed /\ q.account \in {NoAccount, q.found}
    /\ q.step = "completing" => q.kind = "complete"
    /\ q.step \in {"approving", "recording", "handing"} => row.status # "absent"
    /\ q.step \in {"approving", "recording", "connecting"} =>
          /\ q.found \in Signed
          /\ q.kind = "probe" \/ (q.kind = "complete" /\ backend = "managed")
    /\ q.step = "approving" /\ gate.status = "approved" => gate.account = q.found
    /\ q.step = "recording" => Approved(q.found)
    /\ q.step = "connecting" /\ (q.kind = "probe" \/ q.gated) =>
          Approved(q.found) /\ row.status # "absent"

LinkInv == LinkTypeOK /\ OneHolds /\ TablesNameAccounts /\ RequestsAreOfTheRow

(* The calls. *)

CallRow == [step : {"new", "enforcing", "readying", "checking"} \cup Checked \cup Ended,
            mode : {"card", "detail"}, account : Reported,
            todo : Seq(Candidate), items : Seq(Candidate)]
AttemptRow == [state : AttemptState, consumption : {"not_consumed", "consumed", "possibly_consumed"},
               command : Call \cup {NoCall}]
Unclaimed == {"none", "approved_not_started"}
Charges(t) == /\ (t.state \in Spent) <=> (t.consumption # "not_consumed")
              /\ (t.command = NoCall) <=> (t.state \in Unclaimed)

Handled(c) == Len(call[c].items) - Len(call[c].todo)
Item(c, i) == Mine(c, call[c].items[i])
IsOf(t, c, states) == t.command = c /\ t.state \in states

\* Where an attempt in hand is.
Going == {"started"} \cup Progress

\* What is left to do is the end of the items.
RestIsOfItems(c) ==
    /\ Len(call[c].todo) <= Len(call[c].items)
    /\ \A j \in 1..Len(call[c].todo) : call[c].todo[j] = call[c].items[Handled(c) + j]

\* The first n items are different candidates.
Distinct(c, n) == \A i, j \in 1..n : call[c].items[i] = call[c].items[j] => i = j

StartingInv(c) == call[c].step = "starting" =>
    /\ RestIsOfItems(c) /\ Distinct(c, Handled(c))
    /\ \A i \in 1..Handled(c) : IsOf(Item(c, i), c, {"started"})

OpeningInv(c) == call[c].step = "opening" =>
    /\ Distinct(c, Len(call[c].items))
    /\ \A i \in 1..Len(call[c].items) : IsOf(Item(c, i), c, {"started"})

EndingInv(c) == call[c].step \in {"giving_up", "applying"} =>
    /\ RestIsOfItems(c) /\ Distinct(c, Len(call[c].items))
    /\ \A i \in 1..Handled(c) : IsOf(Item(c, i), c, Final)
    /\ call[c].todo # <<>> => IsOf(Item(c, Handled(c) + 1), c, Going)
    /\ \A i \in Handled(c) + 2 .. Len(call[c].items) : IsOf(Item(c, i), c, {"started"})

\* A call past its first check has an account, one past the last the gate's; and the loops
\* know their items.
CallInv(c) ==
    /\ call[c].step \in {"readying", "checking"} \cup Checked => call[c].account \in Account
    /\ call[c].step \in Checked => Approved(call[c].account)
    /\ StartingInv(c) /\ OpeningInv(c) /\ EndingInv(c)
ItemsAreHandled == \A c \in Call : CallInv(c)

\* An opened candidate is an item of its call, or accounted for.
Sent == {"opening", "giving_up", "applying"}
OpenedInv(x) ==
    LET t == attempt[x[2]][x[3]]
        held == call[x[1]] IN
    /\ x[2] = held.account /\ t.command = x[1]
    /\ held.step \in Sent \cup Ended
    /\ held.step \in Sent => \E i \in 1..Len(held.items) : held.items[i] = x[3]
    /\ held.step = "done" => t.state \in Final
    /\ held.step = "raised" =>
          t.state \in Final \/ \E i \in 1..Len(held.todo) : held.todo[i] = x[3]
OpenedAreItems == \A x \in opened : OpenedInv(x)

LiepinInv == LiepinTypeOK /\ LinkInv /\ ItemsAreHandled /\ OpenedAreItems

-----------------------------------------------------------------------------
(* The connection.                                                         *)

\* Before the first request nobody is connected.
LEMMA LinkBegins == LinkInit => LinkInv
<1> SUFFICES ASSUME LinkInit PROVE LinkInv
    OBVIOUS
<1>1. LinkTypeOK
    BY DEF LinkInit, LinkTypeOK, Reported, NoRequest
<1>2. OneHolds
    BY DEF LinkInit, OneHolds, NoRequest, Holding
<1>3. TablesNameAccounts
    BY AccountAssumption DEF LinkInit, TablesNameAccounts, Signed
<1>4. RequestsAreOfTheRow
    BY AccountAssumption DEF LinkInit, RequestsAreOfTheRow, NoRequest, Signed
<1> QED BY <1>1, <1>2, <1>3, <1>4 DEF LinkInv

\* A request that moves on with what it found stays a row.
LEMMA RowMoves ==
    ASSUME NEW Steps, NEW Kinds, NEW Accounts,
           NEW held \in [step : Steps, kind : Kinds, account : Accounts, gated : BOOLEAN, found : Accounts],
           NEW step \in Steps, NEW found \in Accounts
    PROVE  [held EXCEPT !.step = step, !.found = found] \in
               [step : Steps, kind : Kinds, account : Accounts, gated : BOOLEAN, found : Accounts]
OBVIOUS

\* Every step of a request keeps it.
LEMMA RequestKeepsLink ==
    ASSUME LinkInv, NEW r \in Request, RequestStep(r)
    PROVE  LinkInv'
<1> USE AccountAssumption DEF LinkInv, LinkTypeOK, Reported, Waiting, Holding
<1>1. CASE BeginProbe(r)
    <2>1. LinkTypeOK'
        BY <1>1 DEF BeginProbe, Begin, Loop, Signed, Backend
    <2>2. OneHolds'
        BY <1>1 DEF BeginProbe, Begin, Loop, OneHolds
    <2>3. TablesNameAccounts'
        BY <1>1 DEF BeginProbe, Begin, Loop, TablesNameAccounts, RequestsAreOfTheRow, Signed, Approved
    <2>4. RequestsAreOfTheRow'
        BY <1>1 DEF BeginProbe, Begin, Loop, OneHolds, TablesNameAccounts, RequestsAreOfTheRow, Signed, Approved
    <2> QED BY <2>1, <2>2, <2>3, <2>4
<1>2. CASE BeginLogin(r)
    <2>1. LinkTypeOK'
        BY <1>2 DEF BeginLogin, Begin, Loop, Signed, Backend
    <2>2. OneHolds'
        BY <1>2 DEF BeginLogin, Begin, Loop, OneHolds
    <2>3. TablesNameAccounts'
        BY <1>2 DEF BeginLogin, Begin, Loop, TablesNameAccounts, RequestsAreOfTheRow, Signed, Approved
    <2>4. RequestsAreOfTheRow'
        BY <1>2 DEF BeginLogin, Begin, Loop, OneHolds, TablesNameAccounts, RequestsAreOfTheRow, Signed, Approved
    <2> QED BY <2>1, <2>2, <2>3, <2>4
<1>3. CASE BeginComplete(r)
    <2>1. LinkTypeOK'
        BY <1>3 DEF BeginComplete, Begin, Loop, Signed, Backend
    <2>2. OneHolds'
        BY <1>3 DEF BeginComplete, Begin, Loop, OneHolds
    <2>3. TablesNameAccounts'
        BY <1>3 DEF BeginComplete, Begin, Loop, TablesNameAccounts, RequestsAreOfTheRow, Signed, Approved
    <2>4. RequestsAreOfTheRow'
        BY <1>3 DEF BeginComplete, Begin, Loop, OneHolds, TablesNameAccounts, RequestsAreOfTheRow, Signed, Approved
    <2> QED BY <2>1, <2>2, <2>3, <2>4
<1>4. CASE ProbeAnswers(r)
    <2>1. LinkTypeOK'
        <3>1. request[r].account \in Reported /\ browser \in Reported /\ OwnHash \in Reported
            OBVIOUS
        <3>2. SessionStatus(request[r].account) \in Reported
            BY <3>1 DEF SessionStatus
        <3>3. Found(r) \in Reported
            BY <3>1, <3>2 DEF Found
        <3>4. request' = [request EXCEPT ![r] =
                  [request[r] EXCEPT !.step = "ensuring", !.found = Found(r)]]
            BY <1>4 DEF ProbeAnswers
        <3> DEFINE Row == [step : {"new", "done"} \cup Waiting \cup Holding,
                           kind : {"none", "probe", "login", "complete"},
                           account : Reported, gated : BOOLEAN, found : Reported]
        <3>5. request \in [Request -> Row]
            BY DEF Row
        <3>6. [request[r] EXCEPT !.step = "ensuring", !.found = Found(r)] \in Row
            <4>1. request[r] \in Row
                BY <3>5
            <4>2. "ensuring" \in {"new", "done"} \cup Waiting \cup Holding
                OBVIOUS
            <4> QED BY ONLY <3>3, <4>1, <4>2, RowMoves DEF Row
        <3>7. request' \in [Request -> Row]
            BY <3>4, <3>5, <3>6
        <3> QED BY <1>4, <3>7 DEF ProbeAnswers, Row
    <2>2. OneHolds'
        BY <1>4 DEF ProbeAnswers, Loop, Found, SessionStatus, OneHolds
    <2>3. TablesNameAccounts'
        BY <1>4 DEF ProbeAnswers, Loop, Found, SessionStatus, TablesNameAccounts, RequestsAreOfTheRow, Signed, Approved
    <2>4. RequestsAreOfTheRow'
        BY <1>4 DEF ProbeAnswers, Loop, Found, SessionStatus, OneHolds, TablesNameAccounts, RequestsAreOfTheRow, Signed, Approved
    <2> QED BY <2>1, <2>2, <2>3, <2>4
<1>5. CASE ProbeRefuses(r)
    <2>1. LinkTypeOK'
        BY <1>5 DEF ProbeRefuses, To, Loop, Signed, Backend
    <2>2. OneHolds'
        BY <1>5 DEF ProbeRefuses, To, Loop, OneHolds
    <2>3. TablesNameAccounts'
        BY <1>5 DEF ProbeRefuses, To, Loop, TablesNameAccounts, RequestsAreOfTheRow, Signed, Approved
    <2>4. RequestsAreOfTheRow'
        BY <1>5 DEF ProbeRefuses, To, Loop, OneHolds, TablesNameAccounts, RequestsAreOfTheRow, Signed, Approved
    <2> QED BY <2>1, <2>2, <2>3, <2>4
<1>6. CASE Ensure(r)
    <2>1. LinkTypeOK'
        BY <1>6 DEF Ensure, To, Signed, Backend
    <2>2. OneHolds'
        BY <1>6 DEF Ensure, To, OneHolds
    <2>3. TablesNameAccounts'
        BY <1>6 DEF Ensure, To, TablesNameAccounts, RequestsAreOfTheRow, Signed, Approved
    <2>4. RequestsAreOfTheRow'
        BY <1>6 DEF Ensure, To, OneHolds, TablesNameAccounts, RequestsAreOfTheRow, Signed, Approved
    <2> QED BY <2>1, <2>2, <2>3, <2>4
<1>7. CASE ApproveGate(r)
    <2>1. /\ row.status # "absent" /\ request[r].found \in Signed
          /\ gate.status = "approved" => gate.account = request[r].found
        BY <1>7 DEF ApproveGate, RequestsAreOfTheRow
    <2>2. /\ gate' = [status |-> "approved", account |-> request[r].found]
          /\ row' = [row EXCEPT !.status = "connected", !.account = request[r].found]
          /\ request' = [request EXCEPT ![r].step = "recording"]
          /\ UNCHANGED <<backend, wb, browser, relay>>
        BY <1>7, <2>1 DEF ApproveGate, To
    <2>3. row' = [status |-> "connected", account |-> request[r].found, session |-> row.session]
        BY <2>2
    <2>4. LinkTypeOK'
        <3>1. request[r].found \in Reported
            OBVIOUS
        <3>2. gate' \in [status : {"none", "pending", "approved"}, account : Reported]
            BY <2>2, <3>1
        <3>3. row' \in [status : {"absent", "pending_login", "connected"}, account : Reported,
                        session : {"none", "fresh", "stale"}]
            BY <2>3, <3>1
        <3> QED BY <2>2, <3>2, <3>3
    <2>5. OneHolds'
        BY <1>7 DEF ApproveGate, To, OneHolds
    <2>6. \A a : Approved(a) => Approved(a)'
        BY <2>1, <2>2 DEF Approved
    <2>7. TablesNameAccounts'
        BY <2>1, <2>2, <2>3, <2>6 DEF TablesNameAccounts, Signed, Approved
    <2>8. RequestsAreOfTheRow'
        BY <1>7, <2>1, <2>2, <2>3, <2>6 DEF ApproveGate, OneHolds, RequestsAreOfTheRow, Signed, Approved
    <2> QED BY <2>4, <2>5, <2>7, <2>8
<1>8. CASE RecordSession(r)
    <2>1. LinkTypeOK'
        BY <1>8 DEF RecordSession, To, Signed, Backend
    <2>2. OneHolds'
        BY <1>8 DEF RecordSession, To, OneHolds
    <2>3. TablesNameAccounts'
        BY <1>8 DEF RecordSession, To, TablesNameAccounts, RequestsAreOfTheRow, Signed, Approved
    <2>4. RequestsAreOfTheRow'
        BY <1>8 DEF RecordSession, To, OneHolds, TablesNameAccounts, RequestsAreOfTheRow, Signed, Approved
    <2> QED BY <2>1, <2>2, <2>3, <2>4
<1>9. CASE MarkConnected(r)
    <2>1. LinkTypeOK'
        BY <1>9 DEF MarkConnected, To, Signed, Backend
    <2>2. OneHolds'
        BY <1>9 DEF MarkConnected, To, OneHolds
    <2>3. TablesNameAccounts'
        BY <1>9 DEF MarkConnected, To, TablesNameAccounts, RequestsAreOfTheRow, Signed, Approved
    <2>4. RequestsAreOfTheRow'
        BY <1>9 DEF MarkConnected, To, OneHolds, TablesNameAccounts, RequestsAreOfTheRow, Signed, Approved
    <2> QED BY <2>1, <2>2, <2>3, <2>4
<1>10. CASE StoreHandoff(r)
    <2>1. LinkTypeOK'
        <3>1. relay' \in BOOLEAN
            <4>1. CASE backend = "managed"
                BY <1>10, <4>1, Zenon DEF StoreHandoff
            <4>2. CASE backend # "managed"
                BY <1>10, <4>2, Zenon DEF StoreHandoff
            <4> QED BY <4>1, <4>2
        <3> QED BY <1>10, <3>1 DEF StoreHandoff, To
    <2>2. OneHolds'
        BY <1>10 DEF StoreHandoff, To, Loop, OneHolds
    <2>3. TablesNameAccounts'
        BY <1>10 DEF StoreHandoff, To, Loop, TablesNameAccounts, RequestsAreOfTheRow, Signed, Approved
    <2>4. RequestsAreOfTheRow'
        BY <1>10 DEF StoreHandoff, To, Loop, OneHolds, TablesNameAccounts, RequestsAreOfTheRow, Signed, Approved
    <2> QED BY <2>1, <2>2, <2>3, <2>4
<1>11. CASE CompleteRelay(r)
    <2>1. LinkTypeOK'
        BY <1>11 DEF CompleteRelay, Loop, Signed, Backend
    <2>2. OneHolds'
        BY <1>11 DEF CompleteRelay, Loop, OneHolds
    <2>3. TablesNameAccounts'
        BY <1>11 DEF CompleteRelay, Loop, TablesNameAccounts, RequestsAreOfTheRow, Signed, Approved
    <2>4. RequestsAreOfTheRow'
        BY <1>11 DEF CompleteRelay, Loop, OneHolds, TablesNameAccounts, RequestsAreOfTheRow, Signed, Approved
    <2> QED BY <2>1, <2>2, <2>3, <2>4
<1>12. CASE CompleteFails(r)
    <2>1. LinkTypeOK'
        BY <1>12 DEF CompleteFails, To, Loop, Signed, Backend
    <2>2. OneHolds'
        BY <1>12 DEF CompleteFails, To, Loop, OneHolds
    <2>3. TablesNameAccounts'
        BY <1>12 DEF CompleteFails, To, Loop, TablesNameAccounts, RequestsAreOfTheRow, Signed, Approved
    <2>4. RequestsAreOfTheRow'
        BY <1>12 DEF CompleteFails, To, Loop, OneHolds, TablesNameAccounts, RequestsAreOfTheRow, Signed, Approved
    <2> QED BY <2>1, <2>2, <2>3, <2>4
<1> QED BY <1>1, <1>2, <1>3, <1>4, <1>5, <1>6, <1>7, <1>8, <1>9, <1>10, <1>11, <1>12 DEF RequestStep

\* So does what happens to the browser, the session and the relay, and a crash.
LEMMA WorldKeepsLink ==
    ASSUME LinkInv, BrowserChanges \/ SessionAges \/ RelayExpires \/ LinkCrash \/ UNCHANGED linkVars
    PROVE  LinkInv'
<1> USE AccountAssumption DEF LinkInv, LinkTypeOK, Reported, Waiting, Holding
<1>1. CASE BrowserChanges
    <2>1. LinkTypeOK'
        BY <1>1 DEF BrowserChanges, Signed, Backend
    <2>2. OneHolds'
        BY <1>1 DEF BrowserChanges, OneHolds
    <2>3. TablesNameAccounts'
        BY <1>1 DEF BrowserChanges, TablesNameAccounts, Signed, Approved
    <2>4. RequestsAreOfTheRow'
        BY <1>1 DEF BrowserChanges, TablesNameAccounts, RequestsAreOfTheRow, Signed, Approved
    <2> QED BY <2>1, <2>2, <2>3, <2>4
<1>2. CASE SessionAges
    <2>1. LinkTypeOK'
        BY <1>2 DEF SessionAges, Signed, Backend
    <2>2. OneHolds'
        BY <1>2 DEF SessionAges, OneHolds
    <2>3. TablesNameAccounts'
        BY <1>2 DEF SessionAges, TablesNameAccounts, Signed, Approved
    <2>4. RequestsAreOfTheRow'
        BY <1>2 DEF SessionAges, TablesNameAccounts, RequestsAreOfTheRow, Signed, Approved
    <2> QED BY <2>1, <2>2, <2>3, <2>4
<1>3. CASE RelayExpires
    <2>1. LinkTypeOK'
        <3>1. relay' \in BOOLEAN
            BY <1>3, Zenon DEF RelayExpires
        <3> QED BY <1>3, <3>1 DEF RelayExpires
    <2>2. OneHolds'
        BY <1>3 DEF RelayExpires, OneHolds
    <2>3. TablesNameAccounts'
        BY <1>3 DEF RelayExpires, TablesNameAccounts, Signed, Approved
    <2>4. RequestsAreOfTheRow'
        BY <1>3 DEF RelayExpires, TablesNameAccounts, RequestsAreOfTheRow, Signed, Approved
    <2> QED BY <2>1, <2>2, <2>3, <2>4
<1>4. CASE LinkCrash
    <2>1. LinkTypeOK'
        BY <1>4 DEF LinkCrash, Signed, Backend
    <2>2. OneHolds'
        BY <1>4 DEF LinkCrash, OneHolds
    <2>3. TablesNameAccounts'
        BY <1>4 DEF LinkCrash, TablesNameAccounts, Signed, Approved
    <2>4. RequestsAreOfTheRow'
        BY <1>4 DEF LinkCrash, TablesNameAccounts, RequestsAreOfTheRow, Signed, Approved
    <2> QED BY <2>1, <2>2, <2>3, <2>4
<1>5. CASE UNCHANGED linkVars
    <2>1. LinkTypeOK'
        BY <1>5 DEF linkVars, Signed, Backend
    <2>2. OneHolds'
        BY <1>5 DEF linkVars, OneHolds
    <2>3. TablesNameAccounts'
        BY <1>5 DEF linkVars, TablesNameAccounts, Signed, Approved
    <2>4. RequestsAreOfTheRow'
        BY <1>5 DEF linkVars, TablesNameAccounts, RequestsAreOfTheRow, Signed, Approved
    <2> QED BY <2>1, <2>2, <2>3, <2>4
<1> QED BY <1>1, <1>2, <1>3, <1>4, <1>5

\* The gate is never given to another account.
LEMMA GateStays ==
    ASSUME LinkInv, LinkNext \/ LinkCrash \/ UNCHANGED linkVars, NEW a, Approved(a)
    PROVE  Approved(a)'
<1>1. CASE UNCHANGED gate
    BY <1>1 DEF Approved
<1>2. ASSUME NEW r \in Request, Ensure(r) \/ ApproveGate(r) PROVE Approved(a)'
    <2>1. CASE Ensure(r)
        BY <2>1 DEF Ensure, Approved, LinkInv, TablesNameAccounts
    <2>2. CASE ApproveGate(r)
        BY <2>2 DEF ApproveGate, Approved, LinkInv, LinkTypeOK, RequestsAreOfTheRow
    <2> QED BY <1>2, <2>1, <2>2
<1> QED BY <1>1, <1>2 DEF LinkNext, RequestStep, BeginProbe, BeginLogin, BeginComplete, ProbeAnswers,
    ProbeRefuses, RecordSession, MarkConnected, StoreHandoff, CompleteRelay, CompleteFails,
    BrowserChanges, SessionAges, RelayExpires, LinkCrash, linkVars

\* What the two databases say of the connection agrees in every state of the invariant.
LEMMA LinkAgrees == LinkInv => DatabasesAgree
BY AccountAssumption DEF LinkInv, TablesNameAccounts, LinkTypeOK, Backend, Signed, Approved, DatabasesAgree

-----------------------------------------------------------------------------
(* The calls.                                                              *)

\* What the loops use of a sequence.
LEMMA SequenceParts ==
    ASSUME NEW S, NEW s \in Seq(S)
    PROVE  /\ Len(s) \in Nat /\ (s = <<>> <=> Len(s) = 0)
           /\ \A i \in 1..Len(s) : s[i] \in S
           /\ s # <<>> => /\ Head(s) = s[1] /\ Head(s) \in S
                         /\ Tail(s) \in Seq(S) /\ Len(Tail(s)) = Len(s) - 1
                         /\ \A j \in 1..Len(s) - 1 : Tail(s)[j] = s[j + 1]
<1>1. Len(s) \in Nat /\ \A i \in 1..Len(s) : s[i] \in S
    BY ElementOfSeq, LenProperties
<1>2. s = <<>> <=> Len(s) = 0
    BY EmptySeq, LenProperties
<1>3. ASSUME s # <<>>
      PROVE  /\ Head(s) = s[1] /\ Tail(s) \in Seq(S) /\ Len(Tail(s)) = Len(s) - 1
             /\ \A j \in 1..Len(s) - 1 : Tail(s)[j] = s[j + 1]
    <2>1. Head(s) = s[1]
        BY <1>3
    <2>2. Tail(s) \in Seq(S) /\ Len(Tail(s)) = Len(s) - 1
        BY <1>3, HeadTailProperties
    <2>3. \A j \in 1..Len(s) - 1 : Tail(s)[j] = s[j + 1]
        BY <1>3, <2>2, HeadTailProperties
    <2> QED BY <2>1, <2>2, <2>3
<1> QED BY <1>1, <1>2, <1>3

\* LiepinTypeOK in the terms of this module.
LEMMA CallTypes == LiepinTypeOK <=>
    /\ LinkTypeOK
    /\ call \in [Call -> CallRow]
    /\ attempt \in [Account -> [Candidate -> AttemptRow]]
    /\ opened \subseteq Call \X Account \X Candidate
    /\ \A a \in Account, k \in Candidate : Charges(attempt[a][k])
BY DEF LiepinTypeOK, CallRow, AttemptRow, Charges, Unclaimed

\* Nothing was called, opened or attempted yet.
LEMMA CallsBegin == Init => LiepinInv
<1> SUFFICES ASSUME Init PROVE LiepinInv
    OBVIOUS
<1>1. LinkInv
    BY LinkBegins DEF Init
<1>2. NewCall \in CallRow
    BY DEF NewCall, CallRow, Reported
<1>3. /\ call \in [Call -> CallRow]
      /\ attempt \in [Account -> [Candidate -> AttemptRow]]
    BY <1>2 DEF Init, AttemptRow, AttemptState
<1>4. \A a \in Account, k \in Candidate : Charges(attempt[a][k])
    BY DEF Init, Charges, Unclaimed, Spent
<1>5. LiepinTypeOK
    BY <1>1, <1>3, <1>4, CallTypes DEF Init, LinkInv
<1>6. ItemsAreHandled
    BY DEF Init, NewCall, ItemsAreHandled, CallInv, StartingInv, OpeningInv, EndingInv, Checked
<1>7. OpenedAreItems
    BY DEF Init, OpenedAreItems
<1> QED BY <1>1, <1>5, <1>6, <1>7 DEF LiepinInv

\* A step of the connection leaves every call where it was.
LEMMA LinkKeepsCalls ==
    ASSUME LiepinInv, LinkNext \/ UNCHANGED linkVars, UNCHANGED callVars
    PROVE  LiepinInv'
<1>1. LinkInv'
    BY RequestKeepsLink, WorldKeepsLink DEF LiepinInv, LinkNext
<1>2. UNCHANGED <<call, attempt, opened>>
    BY DEF callVars
<1>3. LiepinTypeOK'
    BY <1>1, <1>2 DEF LiepinInv, LiepinTypeOK, LinkInv
<1>4. \A a : Approved(a) => Approved(a)'
    BY GateStays DEF LiepinInv
<1>5. ItemsAreHandled'
    <2> SUFFICES ASSUME NEW c \in Call PROVE CallInv(c)'
        BY DEF ItemsAreHandled
    <2>1. CallInv(c)
        BY DEF LiepinInv, ItemsAreHandled
    <2>2. (StartingInv(c) /\ OpeningInv(c) /\ EndingInv(c))'
        BY <1>2, <2>1 DEF CallInv, StartingInv, OpeningInv, EndingInv, RestIsOfItems, Handled,
            Distinct, Item, Mine, IsOf
    <2> QED BY <1>2, <1>4, <2>1, <2>2 DEF CallInv
<1>6. OpenedAreItems'
    BY <1>2 DEF LiepinInv, OpenedAreItems, OpenedInv, IsOf
<1> QED BY <1>1, <1>3, <1>5, <1>6 DEF LiepinInv

\* A call cut short.
LEMMA ShortenedRow ==
    ASSUME NEW held \in CallRow
    PROVE  /\ Shortened(held) \in CallRow
           /\ Shortened(held).step = "cut" /\ Shortened(held).account = held.account
<1>1. <<>> \in Seq(Candidate) /\ "cut" \in Ended
    BY DEF Ended
<1>2. PICK none \in Seq(Candidate) : none = <<>>
    BY <1>1
<1>3. Shortened(held) = [held EXCEPT !.step = "cut", !.todo = none, !.items = none]
    BY <1>2 DEF Shortened
<1> QED BY <1>1, <1>3 DEF CallRow

\* A crash cuts every call that was on its way; what it opened stays with it.
LEMMA CrashKeepsCalls == ASSUME LiepinInv, Crash PROVE LiepinInv'
<1>1. LinkInv'
    BY WorldKeepsLink DEF LiepinInv, Crash
<1>2. /\ call' = [c \in Call |-> IF call[c].step \in {"new"} \cup Ended THEN call[c]
                                ELSE Shortened(call[c])]
      /\ UNCHANGED <<attempt, opened>>
    BY DEF Crash
<1>3. /\ call \in [Call -> CallRow] /\ opened \subseteq Call \X Account \X Candidate
    BY CallTypes DEF LiepinInv
<1>4. call' \in [Call -> CallRow]
    BY <1>2, <1>3, ShortenedRow
<1>5. LiepinTypeOK'
    BY <1>1, <1>2, <1>4, CallTypes DEF LiepinInv, LiepinTypeOK, LinkInv, CallRow
<1>6. ASSUME NEW c \in Call
      PROVE  \/ call[c].step \in {"new"} \cup Ended /\ call'[c] = call[c]
             \/ /\ call[c].step \notin {"new"} \cup Ended
                /\ call'[c].step = "cut" /\ call'[c].account = call[c].account
    BY <1>2, <1>3, ShortenedRow
<1>7. ItemsAreHandled'
    <2> SUFFICES ASSUME NEW c \in Call PROVE CallInv(c)'
        BY DEF ItemsAreHandled
    <2>1. call'[c].step \in {"new"} \cup Ended
        BY <1>6 DEF Ended
    <2> QED BY <2>1 DEF CallInv, Checked, Ended, StartingInv, OpeningInv, EndingInv
<1>8. OpenedAreItems'
    <2> SUFFICES ASSUME NEW x \in opened PROVE OpenedInv(x)'
        BY <1>2 DEF OpenedAreItems
    <2>1. OpenedInv(x) /\ x[1] \in Call
        BY <1>3 DEF LiepinInv, OpenedAreItems
    <2>2. CASE call'[x[1]] = call[x[1]]
        BY <1>2, <2>1, <2>2 DEF OpenedInv
    <2>3. CASE call'[x[1]].step = "cut" /\ call'[x[1]].account = call[x[1]].account
        BY <1>2, <2>1, <2>3 DEF OpenedInv, Sent, Ended
    <2> QED BY <1>6, <2>1, <2>2, <2>3
<1> QED BY <1>1, <1>5, <1>7, <1>8 DEF LiepinInv

\* What a step of call c may do to the attempts: none that has ended and none of
\* another call moves.
AttemptsStayOthers(c) ==
    \A a \in Account, k \in Candidate :
        attempt[a][k].state \in Final \/ attempt[a][k].command \in Call \ {c}
            => attempt'[a][k] = attempt[a][k]

\* It is enough to look at the call that steps.
LEMMA OneCallMoves ==
    ASSUME LiepinInv, NEW c \in Call, NEW next \in CallRow, UNCHANGED linkVars,
           call' = [call EXCEPT ![c] = next],
           attempt' \in [Account -> [Candidate -> AttemptRow]],
           \A a \in Account, k \in Candidate : Charges(attempt'[a][k]),
           AttemptsStayOthers(c),
           opened' \subseteq Call \X Account \X Candidate,
           \A x \in opened' : IF x[1] = c THEN OpenedInv(x)' ELSE x \in opened,
           CallInv(c)'
    PROVE  LiepinInv'
<1>1. /\ call \in [Call -> CallRow] /\ opened \subseteq Call \X Account \X Candidate
      /\ attempt \in [Account -> [Candidate -> AttemptRow]]
    BY CallTypes DEF LiepinInv
<1>2. \A d \in Call \ {c} : call'[d] = call[d]
    BY <1>1
<1>3. LinkInv' /\ \A a : Approved(a)' = Approved(a)
    BY WorldKeepsLink DEF LiepinInv, linkVars, Approved
<1>4. LiepinTypeOK'
    <2>1. call' \in [Call -> CallRow]
        BY <1>1
    <2> QED BY <1>3, <2>1, CallTypes DEF LinkInv, LiepinTypeOK, CallRow, AttemptRow, Charges, Unclaimed
<1>5. ItemsAreHandled'
    <2> SUFFICES ASSUME NEW d \in Call \ {c} PROVE CallInv(d)'
        BY DEF ItemsAreHandled
    <2>1. CallInv(d) /\ call'[d] = call[d]
        BY <1>2 DEF LiepinInv, ItemsAreHandled
    <2>2. call[d].items \in Seq(Candidate) /\ call[d].todo \in Seq(Candidate)
        BY <1>1 DEF CallRow
    <2>3. ASSUME call[d].account \in Account, NEW i \in 1..Len(call[d].items), NEW states,
                 IsOf(Item(d, i), d, states)
          PROVE  IsOf(Item(d, i), d, states)'
        <3>1. call[d].items[i] \in Candidate
            BY <2>2, <2>3
        <3> QED BY <2>1, <2>3, <3>1 DEF AttemptsStayOthers, IsOf, Item, Mine
    <2>4. StartingInv(d)'
        <3> SUFFICES ASSUME call[d].step = "starting" PROVE StartingInv(d)'
            BY <2>1 DEF StartingInv
        <3>1. call[d].account \in Account /\ StartingInv(d)
            BY <2>1 DEF CallInv, Checked
        <3>2. Handled(d) <= Len(call[d].items)
            <4>1. Len(call[d].items) \in Nat /\ Len(call[d].todo) \in Nat
                BY <2>2, SequenceParts
            <4>2. \A m, n \in Nat : m - n <= m
                OBVIOUS
            <4> QED BY <4>1, <4>2 DEF Handled
        <3>3. Len(call[d].items) \in Nat /\ Handled(d) \in Int
            BY <2>2, SequenceParts DEF Handled
        <3>4. \A i \in 1..Handled(d) : i \in 1..Len(call[d].items)
            BY <3>2, <3>3
        <3>5. \A i \in 1..Handled(d) : IsOf(Item(d, i), d, {"started"})'
            BY <2>3, <3>1, <3>4 DEF StartingInv
        <3>6. Handled(d)' = Handled(d) /\ RestIsOfItems(d)'
            BY <2>1, <3>1 DEF StartingInv, RestIsOfItems, Handled
        <3> QED BY <2>1, <3>1, <3>5, <3>6 DEF StartingInv, Distinct
    <2>5. OpeningInv(d)'
        <3> SUFFICES ASSUME call[d].step = "opening" PROVE OpeningInv(d)'
            BY <2>1 DEF OpeningInv
        <3>1. call[d].account \in Account /\ OpeningInv(d)
            BY <2>1 DEF CallInv, Checked
        <3>2. \A i \in 1..Len(call[d].items) : IsOf(Item(d, i), d, {"started"})'
            BY <2>3, <3>1 DEF OpeningInv
        <3> QED BY <2>1, <3>1, <3>2 DEF OpeningInv, Distinct
    <2>6. EndingInv(d)'
        <3> SUFFICES ASSUME call[d].step \in {"giving_up", "applying"} PROVE EndingInv(d)'
            BY <2>1 DEF EndingInv
        <3>1. call[d].account \in Account /\ EndingInv(d)
            BY <2>1 DEF CallInv, Checked
        <3>2. /\ Len(call[d].items) \in Nat /\ Len(call[d].todo) \in Nat
              /\ Len(call[d].todo) <= Len(call[d].items)
              /\ Handled(d) = Len(call[d].items) - Len(call[d].todo)
            BY <2>2, <3>1, SequenceParts DEF EndingInv, RestIsOfItems, Handled
        <3>3. \A i \in 1..Handled(d) : i \in 1..Len(call[d].items)
            BY <3>2
        <3>4. \A i \in Handled(d) + 2 .. Len(call[d].items) : i \in 1..Len(call[d].items)
            BY <3>2
        <3>5. call[d].todo # <<>> => Handled(d) + 1 \in 1..Len(call[d].items)
            <4>1. call[d].todo # <<>> => Len(call[d].todo) # 0
                BY <2>2, SequenceParts
            <4>2. \A m, n \in Nat : n # 0 /\ n <= m => m - n + 1 \in 1..m
                OBVIOUS
            <4> QED BY <3>2, <4>1, <4>2
        <3>6. \A i \in 1..Handled(d) : IsOf(Item(d, i), d, Final)'
            BY <2>3, <3>1, <3>3 DEF EndingInv
        <3>7. \A i \in Handled(d) + 2 .. Len(call[d].items) : IsOf(Item(d, i), d, {"started"})'
            BY <2>3, <3>1, <3>4 DEF EndingInv
        <3>8. call[d].todo # <<>> =>
                  IsOf(Item(d, Handled(d) + 1)', d, Going)
            BY <2>1, <2>3, <3>1, <3>5 DEF EndingInv, Item, IsOf, Mine, Handled
        <3>9. Handled(d)' = Handled(d) /\ RestIsOfItems(d)'
            BY <2>1, <3>1 DEF EndingInv, RestIsOfItems, Handled
        <3> QED BY <2>1, <3>1, <3>6, <3>7, <3>8, <3>9 DEF EndingInv, Distinct, Item, Mine
    <2> QED BY <1>3, <2>1, <2>4, <2>5, <2>6 DEF CallInv
<1>6. OpenedAreItems'
    <2> SUFFICES ASSUME NEW x \in opened, x[1] # c PROVE OpenedInv(x)'
        BY DEF OpenedAreItems
    <2>1. OpenedInv(x) /\ x[1] \in Call \ {c} /\ x[2] \in Account /\ x[3] \in Candidate
        BY <1>1 DEF LiepinInv, OpenedAreItems
    <2> QED BY <1>2, <2>1 DEF OpenedInv, AttemptsStayOthers, IsOf
<1> QED BY <1>3, <1>4, <1>5, <1>6 DEF LiepinInv

\* A step that touches no attempt and sends nothing.
LEMMA CallGoesOn ==
    ASSUME LiepinInv, NEW c \in Call, NEW next \in CallRow,
           UNCHANGED <<linkVars, attempt, opened>>,
           call' = [call EXCEPT ![c] = next],
           CallInv(c)',
           \A x \in opened : x[1] = c => OpenedInv(x)'
    PROVE  LiepinInv'
<1>1. /\ attempt' \in [Account -> [Candidate -> AttemptRow]]
      /\ \A a \in Account, k \in Candidate : Charges(attempt'[a][k])
      /\ opened' \subseteq Call \X Account \X Candidate
    BY CallTypes DEF LiepinInv
<1>2. AttemptsStayOthers(c)
    BY DEF AttemptsStayOthers
<1> QED BY <1>1, <1>2, OneCallMoves

\* A step of a call that has sent nothing, to one that does not start anything.
LEMMA EarlyCallGoesOn ==
    ASSUME LiepinInv, NEW c \in Call, NEW next \in CallRow,
           UNCHANGED <<linkVars, attempt, opened>>,
           call' = [call EXCEPT ![c] = next],
           call[c].step \notin Sent \cup Ended,
           next.step \notin Sent \cup {"starting"},
           next.step \in {"readying", "checking"} \cup Checked => next.account \in Account,
           next.step \in Checked => Approved(next.account)
    PROVE  LiepinInv'
<1>1. call'[c] = next
    BY CallTypes DEF LiepinInv
<1>2. CallInv(c)'
    BY <1>1 DEF CallInv, StartingInv, OpeningInv, EndingInv, Sent, Approved, linkVars
<1>3. \A x \in opened : x[1] # c
    BY DEF LiepinInv, OpenedAreItems, OpenedInv
<1> QED BY <1>2, <1>3, CallGoesOn

\* The checks before a search, and a card search.
LEMMA ChecksKeepCalls ==
    ASSUME LiepinInv, NEW c \in Call,
           BeginCall(c) \/ Enforce(c) \/ RequireReady(c) \/ CheckSafety(c) \/ SearchEnds(c)
    PROVE  LiepinInv'
<1>1. call \in [Call -> CallRow] /\ call[c] \in CallRow /\ CallInv(c)
    BY CallTypes DEF LiepinInv, ItemsAreHandled
<1>2. \A step \in {"enforcing", "readying", "checking", "searching", "counting", "done"} :
          /\ [call[c] EXCEPT !.step = step] \in CallRow
          /\ [call[c] EXCEPT !.step = step].step = step
          /\ [call[c] EXCEPT !.step = step].account = call[c].account
    BY <1>1 DEF CallRow, Checked, Ended
<1>3. call[c].step \in {"new", "enforcing", "readying", "checking", "searching"}
    BY DEF BeginCall, Enforce, RequireReady, CheckSafety, SearchEnds, At
<1>4. call[c].step \notin Sent \cup Ended
    BY <1>3 DEF Sent, Ended
<1>5. ASSUME NEW step \in {"enforcing", "readying", "checking", "searching", "counting", "done"},
             call' = [call EXCEPT ![c] = [call[c] EXCEPT !.step = step]],
             UNCHANGED <<linkVars, attempt, opened>>,
             step \in {"readying", "checking", "searching", "counting"} => call[c].account \in Account,
             step \in {"searching", "counting"} => Approved(call[c].account)
      PROVE  LiepinInv'
    <2> DEFINE next == [call[c] EXCEPT !.step = step]
    <2>1. next \in CallRow /\ next.step = step /\ next.account = call[c].account
        BY <1>2
    <2>2. call' = [call EXCEPT ![c] = next]
        BY <1>5
    <2>3. next.step \notin Sent \cup {"starting"}
        BY <2>1 DEF Sent
    <2>4. next.step \in {"readying", "checking"} \cup Checked => next.account \in Account
        BY <1>5, <2>1 DEF Checked
    <2>5. next.step \in Checked => Approved(next.account)
        BY <1>5, <2>1 DEF Checked
    <2> HIDE DEF next
    <2> QED BY <1>4, <1>5, <2>1, <2>2, <2>3, <2>4, <2>5, EarlyCallGoesOn
<1>6. CASE BeginCall(c)
    <2>1. CASE Goes(c, "enforcing")
        <3>1. call' = [call EXCEPT ![c] = [call[c] EXCEPT !.step = "enforcing"]]
            BY <2>1 DEF Goes
        <3> QED BY <1>5, <1>6, <3>1 DEF BeginCall
    <2>2. ASSUME NEW o \in Order,
                 call' = [call EXCEPT ![c] = [NewCall EXCEPT !.step = "enforcing",
                                                 !.mode = "detail", !.todo = o]]
          PROVE  LiepinInv'
        <3> DEFINE next == [NewCall EXCEPT !.step = "enforcing", !.mode = "detail", !.todo = o]
        <3>1. o \in Seq(Candidate)
            BY CallAssumption
        <3>2. next \in CallRow /\ next.step = "enforcing"
            <4>1. NewCall \in CallRow
                BY DEF NewCall, CallRow, Reported
            <4> QED BY <3>1, <4>1 DEF CallRow
        <3>3. next.step \notin Sent \cup {"starting"}
              /\ next.step \notin {"readying", "checking"} \cup Checked
            BY <3>2 DEF Sent, Checked
        <3>4. call' = [call EXCEPT ![c] = next] /\ UNCHANGED <<linkVars, attempt, opened>>
            BY <1>6, <2>2 DEF BeginCall
        <3> HIDE DEF next
        <3> QED BY <1>4, <3>2, <3>3, <3>4, EarlyCallGoesOn
    <2> QED BY <1>6, <2>1, <2>2 DEF BeginCall
<1>7. CASE Enforce(c)
    <2>1. CASE row.status # "absent" /\ Approved(row.account)
        <3> DEFINE next == [call[c] EXCEPT !.step = "readying", !.account = row.account]
        <3>1. row.account \in Account
            BY <2>1, AccountAssumption DEF Approved, LiepinInv, LinkInv, TablesNameAccounts, Signed
        <3>2. next \in CallRow /\ next.step = "readying" /\ next.account \in Account
            BY <1>1, <3>1 DEF CallRow, Reported
        <3>3. next.step \notin Sent \cup {"starting"} /\ next.step \notin Checked
            BY <3>2 DEF Sent, Checked
        <3>4. call' = [call EXCEPT ![c] = next] /\ UNCHANGED <<linkVars, attempt, opened>>
            BY <1>7, <2>1 DEF Enforce
        <3> HIDE DEF next
        <3> QED BY <1>4, <3>2, <3>3, <3>4, EarlyCallGoesOn
    <2>2. CASE ~(row.status # "absent" /\ Approved(row.account))
        <3>1. call' = [call EXCEPT ![c] = [call[c] EXCEPT !.step = "done"]]
            BY <1>7, <2>2 DEF Enforce, Goes
        <3> QED BY <1>5, <1>7, <3>1 DEF Enforce
    <2> QED BY <2>1, <2>2
<1>8. CASE RequireReady(c)
    <2>1. call[c].account \in Account
        BY <1>1, <1>8 DEF RequireReady, At, CallInv
    <2>2. \E step \in {"checking", "done"} : call' = [call EXCEPT ![c] = [call[c] EXCEPT !.step = step]]
        BY <1>8 DEF RequireReady, Goes
    <2> QED BY <1>5, <1>8, <2>1, <2>2 DEF RequireReady
<1>9. CASE CheckSafety(c)
    <2>1. call[c].account \in Account
        BY <1>1, <1>9 DEF CheckSafety, At, CallInv
    <2>2. CASE Safe(call[c].account)
        <3>1. Approved(call[c].account)
            BY <2>2 DEF Safe
        <3>2. \E step \in {"searching", "counting"} :
                 call' = [call EXCEPT ![c] = [call[c] EXCEPT !.step = step]]
            BY <1>9, <2>2 DEF CheckSafety, Goes
        <3> QED BY <1>5, <1>9, <2>1, <3>1, <3>2 DEF CheckSafety
    <2>3. CASE ~Safe(call[c].account)
        <3>1. call' = [call EXCEPT ![c] = [call[c] EXCEPT !.step = "done"]]
            BY <1>9, <2>3 DEF CheckSafety, Goes
        <3> QED BY <1>5, <1>9, <3>1 DEF CheckSafety
    <2> QED BY <2>2, <2>3
<1>10. CASE SearchEnds(c)
    <2>1. call' = [call EXCEPT ![c] = [call[c] EXCEPT !.step = "done"]]
        BY <1>10 DEF SearchEnds, Goes
    <2> QED BY <1>5, <1>10, <2>1 DEF SearchEnds
<1> QED BY <1>6, <1>7, <1>8, <1>9, <1>10

\* count_detail_budget_consumed and build_detail_open_plan.
LEMMA PlanKeepsCalls == ASSUME LiepinInv, NEW c \in Call, Plan(c) PROVE LiepinInv'
<1>1. call[c] \in CallRow /\ CallInv(c) /\ call[c].step = "counting"
    BY CallTypes DEF LiepinInv, ItemsAreHandled, Plan, At
<1>2. call[c].todo \in Seq(Candidate) /\ Len(call[c].todo) \in Nat
    BY <1>1, SequenceParts DEF CallRow
<1>3. Charged(call[c].account) \in Nat
    BY CallAssumption, FS_Subset, FS_CardinalityType DEF Charged
<1> DEFINE room == IF Charged(call[c].account) >= Budget THEN 0 ELSE Budget - Charged(call[c].account)
           last == IF room < Len(call[c].todo) THEN room ELSE Len(call[c].todo)
           plan == SubSeq(call[c].todo, 1, last)
           next == [call[c] EXCEPT !.todo = plan, !.step = IF plan = <<>> THEN "done" ELSE "reserving"]
<1>4. room \in Nat
    BY <1>3, CallAssumption
<1>5. last \in 0..Len(call[c].todo)
    <2> HIDE DEF room
    <2> QED BY <1>2, <1>4
<1>6. plan \in Seq(Candidate)
    <2> HIDE DEF last
    <2> QED BY <1>2, <1>5, SubSeqProperties
<1>7. call' = [call EXCEPT ![c] = next] /\ UNCHANGED <<linkVars, attempt, opened>>
    BY DEF Plan
<1> HIDE DEF plan, room, last
<1>8. /\ next \in CallRow /\ next.step \in {"done", "reserving"}
      /\ next.account = call[c].account
    BY <1>1, <1>6 DEF CallRow, Checked, Ended
<1> HIDE DEF next
<1>9. call[c].account \in Account /\ Approved(call[c].account)
    BY <1>1 DEF CallInv, Checked
<1>10. call[c].step \notin Sent \cup Ended /\ next.step \notin Sent \cup {"starting"}
    BY <1>1, <1>8 DEF Sent, Ended
<1> QED BY <1>7, <1>8, <1>9, <1>10, EarlyCallGoesOn

\* reserve_detail_attempt: an attempt nobody has moves no attempt of another call.
LEMMA ReserveKeepsCalls == ASSUME LiepinInv, NEW c \in Call, Reserve(c) PROVE LiepinInv'
<1>1. /\ call[c] \in CallRow /\ CallInv(c) /\ call[c].step = "reserving"
      /\ call \in [Call -> CallRow]
      /\ attempt \in [Account -> [Candidate -> AttemptRow]]
      /\ opened \subseteq Call \X Account \X Candidate
      /\ \A a \in Account, k \in Candidate : Charges(attempt[a][k])
    BY CallTypes DEF LiepinInv, ItemsAreHandled, Reserve, At
<1> DEFINE k == Head(call[c].todo)
           acc == call[c].account
           items == IF Mine(c, k).state \in Unclaimed THEN Append(call[c].items, k) ELSE call[c].items
           next == [call[c] EXCEPT !.todo = Tail(call[c].todo), !.items = items]
<1>2. acc \in Account /\ Approved(acc)
    BY <1>1 DEF CallInv, Checked
<1>3. k \in Candidate /\ Tail(call[c].todo) \in Seq(Candidate) /\ call[c].items \in Seq(Candidate)
    BY <1>1, SequenceParts DEF Reserve, CallRow
<1>4. call' = [call EXCEPT ![c] = next] /\ UNCHANGED <<linkVars, opened>>
    BY DEF Reserve, Unclaimed
<1>5. attempt' = IF Mine(c, k).state # "none" THEN attempt
                 ELSE [attempt EXCEPT ![acc][k].state = "approved_not_started"]
    BY DEF Reserve
<1> HIDE DEF k
<1>6. items \in Seq(Candidate)
    BY <1>3, AppendProperties
<1> HIDE DEF items
<1>7. next \in CallRow /\ next.step = "reserving" /\ next.account = acc
    BY <1>1, <1>2, <1>3, <1>6 DEF CallRow
<1> HIDE DEF next
<1>8. CASE Mine(c, k).state # "none"
    <2>1. attempt' = attempt
        BY <1>5, <1>8
    <2>2. /\ call[c].step \notin Sent \cup Ended /\ next.step \notin Sent \cup {"starting"}
        BY <1>1, <1>7 DEF Sent, Ended
    <2> QED BY <1>2, <1>4, <1>7, <2>1, <2>2, EarlyCallGoesOn
<1>9. CASE Mine(c, k).state = "none"
    <2>1. attempt' = [attempt EXCEPT ![acc][k].state = "approved_not_started"]
        BY <1>5, <1>9
    <2>2. attempt[acc][k] \in AttemptRow /\ attempt[acc][k].state = "none" /\ Charges(attempt[acc][k])
        BY <1>1, <1>2, <1>3, <1>9 DEF Mine
    <2>3. /\ attempt' \in [Account -> [Candidate -> AttemptRow]]
          /\ \A a \in Account, q \in Candidate : a # acc \/ q # k => attempt'[a][q] = attempt[a][q]
          /\ attempt'[acc][k].state = "approved_not_started"
          /\ attempt'[acc][k].command = attempt[acc][k].command
          /\ attempt'[acc][k].consumption = attempt[acc][k].consumption
        BY <1>1, <1>2, <1>3, <2>1, <2>2 DEF AttemptRow, AttemptState
    <2>4. \A a \in Account, q \in Candidate : Charges(attempt'[a][q])
        BY <1>1, <2>2, <2>3 DEF Charges, Unclaimed, Spent
    <2>5. AttemptsStayOthers(c)
        BY <2>2, <2>3, CallAssumption DEF AttemptsStayOthers, Charges, Unclaimed, Final, Spent
    <2>6. CallInv(c)'
        <3>1. call'[c] = next
            BY <1>1, <1>4
        <3> QED BY <1>2, <1>4, <1>7, <3>1 DEF CallInv, StartingInv, OpeningInv, EndingInv, Approved, linkVars
    <2>7. \A x \in opened' : IF x[1] = c THEN OpenedInv(x)' ELSE x \in opened
        BY <1>1, <1>4 DEF LiepinInv, OpenedAreItems, OpenedInv, Sent, Ended
    <2>8. opened' \subseteq Call \X Account \X Candidate
        BY <1>1, <1>4
    <2> QED BY <1>4, <1>7, <2>3, <2>4, <2>5, <2>6, <2>7, <2>8, OneCallMoves
<1> QED BY <1>8, <1>9

\* The request to the worker is complete, or empty.
LEMMA RequestedKeepsCalls == ASSUME LiepinInv, NEW c \in Call, Requested(c) PROVE LiepinInv'
<1>1. /\ call[c] \in CallRow /\ CallInv(c) /\ call[c].step = "reserving"
      /\ call \in [Call -> CallRow]
    BY CallTypes DEF LiepinInv, ItemsAreHandled, Requested, At
<1> DEFINE next == [call[c] EXCEPT !.todo = call[c].items,
                                   !.step = IF call[c].items = <<>> THEN "done" ELSE "starting"]
<1>2. call' = [call EXCEPT ![c] = next] /\ UNCHANGED <<linkVars, attempt, opened>>
    BY DEF Requested
<1>3. /\ next \in CallRow /\ next.step \in {"done", "starting"}
      /\ next.account = call[c].account /\ next.todo = call[c].items /\ next.items = call[c].items
    BY <1>1 DEF CallRow, Checked, Ended
<1> HIDE DEF next
<1>4. call'[c] = next
    BY <1>1, <1>2
<1>5. next.items \in Seq(Candidate) /\ Len(next.items) \in Nat
    BY <1>3, SequenceParts DEF CallRow
<1>6. Handled(c)' = 0
    BY <1>3, <1>4, <1>5 DEF Handled
<1>7. StartingInv(c)'
    <2>1. RestIsOfItems(c)'
        BY <1>3, <1>4, <1>5, <1>6 DEF RestIsOfItems
    <2>2. \A i \in 1..Handled(c)' : FALSE
        BY <1>6
    <2> QED BY <2>1, <2>2 DEF StartingInv, Distinct
<1>8. CallInv(c)'
    BY <1>1, <1>2, <1>3, <1>4, <1>7 DEF CallInv, OpeningInv, EndingInv, Checked, Approved, linkVars
<1>9. \A x \in opened : x[1] # c
    BY <1>1 DEF LiepinInv, OpenedAreItems, OpenedInv, Sent, Ended
<1> QED BY <1>2, <1>3, <1>8, <1>9, CallGoesOn

\* Where a call is with its items, when something is left to do.
LEMMA NextItem ==
    ASSUME NEW c, call[c] \in CallRow, RestIsOfItems(c), call[c].todo # <<>>
    PROVE  /\ Len(call[c].items) \in Nat /\ Handled(c) \in Nat
           /\ Handled(c) + 1 \in 1..Len(call[c].items)
           /\ Head(call[c].todo) = call[c].items[Handled(c) + 1]
           /\ Head(call[c].todo) \in Candidate
           /\ Tail(call[c].todo) \in Seq(Candidate)
           /\ Len(call[c].items) - Len(Tail(call[c].todo)) = Handled(c) + 1
           /\ Len(Tail(call[c].todo)) <= Len(call[c].items)
           /\ \A j \in 1..Len(Tail(call[c].todo)) :
                 Tail(call[c].todo)[j] = call[c].items[Handled(c) + 1 + j]
           /\ Tail(call[c].todo) = <<>> <=> Handled(c) + 1 = Len(call[c].items)
<1>1. call[c].todo \in Seq(Candidate) /\ call[c].items \in Seq(Candidate)
    BY DEF CallRow
<1> DEFINE todo == call[c].todo
           m == Len(call[c].items)
           n == Len(todo)
<1>2. /\ m \in Nat /\ n \in Nat /\ n # 0
      /\ Head(todo) = todo[1] /\ Head(todo) \in Candidate
      /\ Tail(todo) \in Seq(Candidate) /\ Len(Tail(todo)) = n - 1
      /\ \A j \in 1..n - 1 : Tail(todo)[j] = todo[j + 1]
    BY <1>1, SequenceParts
<1>3. n <= m /\ \A j \in 1..n : todo[j] = call[c].items[m - n + j]
    BY DEF RestIsOfItems, Handled
<1>4. Tail(todo) = <<>> <=> n - 1 = 0
    BY <1>2, SequenceParts
<1>5. Handled(c) = m - n
    BY DEF Handled
<1> HIDE DEF m, n, todo
<1>6. /\ m - n \in Nat /\ m - n + 1 \in 1..m /\ m - (n - 1) = m - n + 1 /\ n - 1 <= m
      /\ n - 1 = 0 <=> m - n + 1 = m
    BY <1>2, <1>3
<1>7. Head(todo) = call[c].items[m - n + 1]
    BY <1>2, <1>3
<1>8. ASSUME NEW j \in 1..n - 1
      PROVE  Tail(todo)[j] = call[c].items[m - n + 1 + j]
    <2>1. j + 1 \in 1..n /\ m - n + (j + 1) = m - n + 1 + j
        BY <1>2, <1>3
    <2> QED BY <1>2, <1>3, <2>1
<1> QED BY <1>2, <1>4, <1>5, <1>6, <1>7, <1>8 DEF m, n, todo

\* What a transition leaves behind.
LEMMA TransitionMoves ==
    ASSUME LiepinInv, NEW c \in Call, NEW k \in Candidate, call[c].account \in Account,
           NEW state \in AttemptState \ Unclaimed, NEW next,
           Transition(c, k, state, next), Allowed(Mine(c, k).state, state),
           Mine(c, k).command \in {c, NoCall}
    PROVE  /\ call' = [call EXCEPT ![c] = next]
           /\ attempt' \in [Account -> [Candidate -> AttemptRow]]
           /\ IsOf(attempt'[call[c].account][k], c, {state})
           /\ \A a \in Account, q \in Candidate :
                 a # call[c].account \/ q # k => attempt'[a][q] = attempt[a][q]
           /\ \A a \in Account, q \in Candidate : Charges(attempt'[a][q])
           /\ AttemptsStayOthers(c)
<1> DEFINE acc == call[c].account
           new == [state |-> state, consumption |-> ConsumptionOf(state), command |-> c]
<1>1. /\ attempt \in [Account -> [Candidate -> AttemptRow]]
      /\ \A a \in Account, q \in Candidate : Charges(attempt[a][q])
    BY CallTypes DEF LiepinInv
<1>2. call' = [call EXCEPT ![c] = next] /\ attempt' = [attempt EXCEPT ![acc][k] = new]
    BY DEF Transition
<1>3. new \in AttemptRow /\ IsOf(new, c, {state})
    BY DEF AttemptRow, ConsumptionOf, IsOf
<1>4. Charges(new)
    <2>1. state \in Spent <=> new.consumption # "not_consumed"
        BY DEF ConsumptionOf, Spent
    <2>2. new.command # NoCall /\ new.state \notin Unclaimed
        BY CallAssumption
    <2> QED BY <2>1, <2>2 DEF Charges
<1> HIDE DEF new
<1>5. /\ attempt' \in [Account -> [Candidate -> AttemptRow]]
      /\ attempt'[acc][k] = new
      /\ \A a \in Account, q \in Candidate : a # acc \/ q # k => attempt'[a][q] = attempt[a][q]
    BY <1>1, <1>2, <1>3
<1>6. \A a \in Account, q \in Candidate : Charges(attempt'[a][q])
    BY <1>1, <1>4, <1>5
<1>7. attempt[acc][k].state \notin Final /\ attempt[acc][k].command \notin Call \ {c}
    BY CallAssumption DEF Allowed, Final, Spent, Mine
<1>8. AttemptsStayOthers(c)
    BY <1>5, <1>7 DEF AttemptsStayOthers
<1> QED BY <1>2, <1>3, <1>5, <1>6, <1>8

\* Starting the next item: one that was started already ends the call.
LEMMA StartKeepsCalls == ASSUME LiepinInv, NEW c \in Call, StartNext(c) PROVE LiepinInv'
<1>1. /\ call[c] \in CallRow /\ CallInv(c) /\ call[c].step = "starting" /\ call[c].todo # <<>>
      /\ call \in [Call -> CallRow]
      /\ \A a \in Account, q \in Candidate : Charges(attempt[a][q])
      /\ opened \subseteq Call \X Account \X Candidate
    BY CallTypes DEF LiepinInv, ItemsAreHandled, StartNext, At
<1> DEFINE k == Head(call[c].todo)
           h == Handled(c)
           next == [call[c] EXCEPT !.todo = Tail(call[c].todo)]
<1>2. /\ call[c].account \in Account /\ Approved(call[c].account)
      /\ RestIsOfItems(c) /\ Distinct(c, h)
      /\ \A i \in 1..h : IsOf(Item(c, i), c, {"started"})
    BY <1>1 DEF CallInv, StartingInv, Checked
<1>3. /\ Len(call[c].items) \in Nat /\ h \in Nat /\ h + 1 \in 1..Len(call[c].items)
      /\ k = call[c].items[h + 1] /\ k \in Candidate /\ Tail(call[c].todo) \in Seq(Candidate)
      /\ Len(call[c].items) - Len(Tail(call[c].todo)) = h + 1
      /\ Len(Tail(call[c].todo)) <= Len(call[c].items)
      /\ \A j \in 1..Len(Tail(call[c].todo)) : Tail(call[c].todo)[j] = call[c].items[h + 1 + j]
    BY <1>1, <1>2, NextItem
<1>4. \A x \in opened : x[1] # c
    BY <1>1 DEF LiepinInv, OpenedAreItems, OpenedInv, Sent, Ended
<1>5. CASE Allowed(Mine(c, k).state, "started")
    <2>1. Mine(c, k).state = "approved_not_started"
        BY <1>5 DEF Allowed, Final, Spent, Progress
    <2>2. Mine(c, k).command = NoCall
        BY <1>1, <1>2, <1>3, <2>1 DEF Mine, Charges, Unclaimed
    <2>3. Transition(c, k, "started", next) /\ UNCHANGED <<linkVars, opened>>
        BY DEF StartNext
    <2>4. "started" \in AttemptState \ Unclaimed
        BY DEF AttemptState, Unclaimed
    <2>5. /\ next \in CallRow /\ next.step = "starting"
          /\ next.account = call[c].account /\ next.items = call[c].items
          /\ next.todo = Tail(call[c].todo)
        BY <1>1, <1>2, <1>3 DEF CallRow
    <2> HIDE DEF next, k, h
    <2>6. /\ call' = [call EXCEPT ![c] = next]
          /\ attempt' \in [Account -> [Candidate -> AttemptRow]]
          /\ IsOf(attempt'[call[c].account][k], c, {"started"})
          /\ \A a \in Account, q \in Candidate :
                a # call[c].account \/ q # k => attempt'[a][q] = attempt[a][q]
          /\ \A a \in Account, q \in Candidate : Charges(attempt'[a][q])
          /\ AttemptsStayOthers(c)
        BY <1>2, <1>3, <1>5, <2>2, <2>3, <2>4, TransitionMoves
    <2>7. call'[c] = next
        BY <1>1, <2>6
    <2>8. Handled(c)' = h + 1
        BY <1>3, <2>5, <2>7 DEF Handled
    <2>9. RestIsOfItems(c)'
        BY <1>3, <2>5, <2>7, <2>8 DEF RestIsOfItems
    <2>10. \A i \in 1..h : call[c].items[i] # k /\ call[c].items[i] \in Candidate
        <3>1. ASSUME NEW i \in 1..h PROVE call[c].items[i] # k
            <4>1. Item(c, i).state = "started"
                BY <1>2 DEF IsOf, h
            <4> QED BY <2>1, <4>1 DEF Item
        <3>2. \A i \in 1..h : call[c].items[i] \in Candidate
            BY <1>1, <1>3, SequenceParts DEF CallRow
        <3> QED BY <3>1, <3>2
    <2>11. ASSUME NEW i \in 1..h + 1 PROVE IsOf(Item(c, i), c, {"started"})'
        <3>1. CASE i = h + 1
            BY <1>3, <2>5, <2>6, <2>7, <3>1 DEF Item, Mine, IsOf
        <3>2. CASE i \in 1..h
            <4>1. IsOf(Item(c, i), c, {"started"})
                BY <1>2, <3>2 DEF h
            <4>2. attempt'[call[c].account][call[c].items[i]] = attempt[call[c].account][call[c].items[i]]
                BY <1>2, <2>6, <2>10, <3>2
            <4> QED BY <2>5, <2>7, <4>1, <4>2 DEF Item, Mine, IsOf
        <3> QED BY <1>3, <3>1, <3>2
    <2>12. \A i, j \in 1..h + 1 : call'[c].items[i] = call'[c].items[j] => i = j
        <3> SUFFICES ASSUME NEW i \in 1..h + 1, NEW j \in 1..h + 1,
                            call[c].items[i] = call[c].items[j]
                     PROVE  i = j
            BY <2>5, <2>7
        <3>1. CASE i \in 1..h /\ j \in 1..h
            BY <1>2, <3>1 DEF Distinct, h
        <3>2. CASE i = h + 1 \/ j = h + 1
            BY <1>3, <2>10, <3>2
        <3> QED BY <1>3, <3>1, <3>2
    <2>13. StartingInv(c)'
        <3>1. \A i \in 1..Handled(c)' : IsOf(Item(c, i), c, {"started"})'
            BY <2>8, <2>11
        <3>2. Distinct(c, Handled(c))'
            BY <2>8, <2>12 DEF Distinct
        <3> QED BY <2>9, <3>1, <3>2 DEF StartingInv
    <2>14. CallInv(c)'
        BY <1>2, <2>3, <2>5, <2>7, <2>13 DEF CallInv, OpeningInv, EndingInv, Approved, linkVars
    <2>15. opened' \subseteq Call \X Account \X Candidate
           /\ \A x \in opened' : IF x[1] = c THEN OpenedInv(x)' ELSE x \in opened
        BY <1>1, <1>4, <2>3
    <2> QED BY <2>3, <2>5, <2>6, <2>14, <2>15, OneCallMoves
<1>6. CASE ~Allowed(Mine(c, k).state, "started")
    <2> DEFINE last == [call[c] EXCEPT !.step = "raised"]
    <2>1. call' = [call EXCEPT ![c] = last] /\ UNCHANGED <<linkVars, attempt, opened>>
        BY <1>6 DEF StartNext, Transition, Goes
    <2>2. /\ last \in CallRow /\ last.step = "raised"
        BY <1>1 DEF CallRow, Ended
    <2> HIDE DEF last, next, k, h
    <2>3. call[c].step \notin Sent \cup Ended /\ last.step \notin Sent \cup {"starting"}
          /\ last.step \notin {"readying", "checking"} \cup Checked
        BY <1>1, <2>2 DEF Sent, Checked, Ended
    <2> QED BY <2>1, <2>2, <2>3, EarlyCallGoesOn
<1> QED BY <1>5, <1>6

\* Sending the request: every item of it was started by this call.
LEMMA DispatchKeepsCalls == ASSUME LiepinInv, NEW c \in Call, Dispatch(c) PROVE LiepinInv'
<1>1. /\ call[c] \in CallRow /\ CallInv(c) /\ call[c].step = "starting" /\ call[c].todo = <<>>
      /\ call \in [Call -> CallRow]
      /\ attempt \in [Account -> [Candidate -> AttemptRow]]
      /\ \A a \in Account, q \in Candidate : Charges(attempt[a][q])
      /\ opened \subseteq Call \X Account \X Candidate
    BY CallTypes DEF LiepinInv, ItemsAreHandled, Dispatch, At
<1> DEFINE next == [call[c] EXCEPT !.step = "opening"]
<1>2. call[c].items \in Seq(Candidate) /\ Len(call[c].items) \in Nat /\ Len(call[c].todo) = 0
    BY <1>1, SequenceParts DEF CallRow
<1>3. Handled(c) = Len(call[c].items)
    BY <1>2 DEF Handled
<1>4. /\ call[c].account \in Account /\ Approved(call[c].account)
      /\ Distinct(c, Len(call[c].items))
      /\ \A i \in 1..Len(call[c].items) : IsOf(Item(c, i), c, {"started"})
    BY <1>1, <1>3 DEF CallInv, StartingInv, Checked
<1>5. /\ call' = [call EXCEPT ![c] = next] /\ UNCHANGED <<linkVars, attempt>>
      /\ opened' = opened \cup {<<c, call[c].account, call[c].items[i]>> : i \in 1..Len(call[c].items)}
    BY DEF Dispatch, Goes
<1>6. /\ next \in CallRow /\ next.step = "opening"
      /\ next.account = call[c].account /\ next.items = call[c].items
    BY <1>1, <1>4 DEF CallRow, Checked
<1> HIDE DEF next
<1>7. call'[c] = next
    BY <1>1, <1>5
<1>8. OpeningInv(c)'
    BY <1>4, <1>5, <1>6, <1>7 DEF OpeningInv, Distinct, Item, Mine, IsOf
<1>9. CallInv(c)'
    BY <1>4, <1>5, <1>6, <1>7, <1>8 DEF CallInv, StartingInv, EndingInv, Approved, linkVars
<1>10. \A x \in opened : x[1] # c
    BY <1>1 DEF LiepinInv, OpenedAreItems, OpenedInv, Sent, Ended
<1>11. \A i \in 1..Len(call[c].items) : call[c].items[i] \in Candidate
    BY <1>1, SequenceParts DEF CallRow
<1>12. opened' \subseteq Call \X Account \X Candidate
    BY <1>1, <1>4, <1>5, <1>11
<1>13. ASSUME NEW x \in opened' PROVE IF x[1] = c THEN OpenedInv(x)' ELSE x \in opened
    <2>1. CASE x \in opened
        BY <1>10, <2>1
    <2>2. CASE x \notin opened
        <3>1. PICK i \in 1..Len(call[c].items) : x = <<c, call[c].account, call[c].items[i]>>
            BY <1>5, <2>2
        <3>2. x[1] = c /\ x[2] = call[c].account /\ x[3] = call[c].items[i]
            BY <3>1
        <3>3. attempt'[x[2]][x[3]].command = c
            BY <1>4, <1>5, <3>2 DEF IsOf, Item, Mine
        <3> QED BY <1>6, <1>7, <3>2, <3>3 DEF OpenedInv, Sent, Ended
    <2> QED BY <2>1, <2>2
<1>14. AttemptsStayOthers(c)
    BY <1>5 DEF AttemptsStayOthers
<1>15. /\ attempt' \in [Account -> [Candidate -> AttemptRow]]
       /\ \A a \in Account, q \in Candidate : Charges(attempt'[a][q])
    BY <1>1, <1>5
<1> QED BY <1>5, <1>6, <1>9, <1>12, <1>13, <1>14, <1>15, OneCallMoves

\* The items are gone through once more, in an order of their own.
LEMMA ItemsComeBack ==
    ASSUME LiepinInv, NEW c \in Call, call[c].step = "opening", NEW next \in CallRow,
           UNCHANGED <<linkVars, attempt, opened>>, call' = [call EXCEPT ![c] = next],
           next.step \in {"giving_up", "applying"}, next.account = call[c].account,
           next.todo = next.items, Len(next.items) = Len(call[c].items),
           NEW order \in Bijection(1..Len(call[c].items), 1..Len(call[c].items)),
           \A i \in 1..Len(call[c].items) : next.items[i] = call[c].items[order[i]]
    PROVE  LiepinInv'
<1> DEFINE n == Len(call[c].items)
<1>1. /\ call[c] \in CallRow /\ CallInv(c) /\ call \in [Call -> CallRow]
    BY CallTypes DEF LiepinInv, ItemsAreHandled
<1>2. call'[c] = next
    BY <1>1
<1>3. n \in Nat /\ (next.items = <<>> <=> n = 0)
    BY <1>1, SequenceParts DEF CallRow
<1>4. /\ order \in [1..n -> 1..n]
      /\ \A i, j \in 1..n : order[i] = order[j] => i = j
      /\ \A j \in 1..n : \E i \in 1..n : order[i] = j
    BY DEF Bijection, Injection, Surjection, IsInjective
<1>5. /\ call[c].account \in Account /\ Approved(call[c].account) /\ Distinct(c, n)
      /\ \A i \in 1..n : IsOf(Item(c, i), c, {"started"})
    BY <1>1 DEF CallInv, OpeningInv, Checked
<1>6. Handled(c)' = 0
    BY <1>2, <1>3 DEF Handled
<1>7. EndingInv(c)'
    <2>1. RestIsOfItems(c)'
        BY <1>2, <1>3, <1>6 DEF RestIsOfItems
    <2>2. ASSUME NEW i \in 1..n PROVE IsOf(Item(c, i), c, {"started"})'
        <3>1. order[i] \in 1..n
            BY <1>4
        <3>2. Item(c, i)' = Item(c, order[i])
            BY <1>2 DEF Item, Mine
        <3> QED BY <1>5, <3>1, <3>2 DEF IsOf
    <2>3. \A i \in 1..Handled(c)' : FALSE
        BY <1>6
    <2>4. \A i \in Handled(c)' + 2 .. n : i \in 1..n
        BY <1>3, <1>6
    <2>5. call'[c].todo # <<>> => Handled(c)' + 1 \in 1..n
        BY <1>2, <1>3, <1>6
    <2>6. Distinct(c, Len(call[c].items))'
        <3> SUFFICES ASSUME NEW i \in 1..n, NEW j \in 1..n, next.items[i] = next.items[j]
                     PROVE  i = j
            BY <1>2 DEF Distinct
        <3>1. order[i] \in 1..n /\ order[j] \in 1..n
            BY <1>4
        <3>2. order[i] = order[j]
            BY <1>5, <3>1 DEF Distinct
        <3> QED BY <1>4, <3>2
    <2>7. call'[c].todo # <<>> => IsOf(Item(c, Handled(c) + 1), c, Going)'
        BY <2>2, <2>5 DEF IsOf, Going
    <2> QED BY <1>2, <2>1, <2>2, <2>3, <2>4, <2>6, <2>7 DEF EndingInv
<1>8. CallInv(c)'
    BY <1>2, <1>5, <1>7 DEF CallInv, StartingInv, OpeningInv, Ended, Approved, linkVars
<1>9. ASSUME NEW x \in opened, x[1] = c PROVE OpenedInv(x)'
    <2>1. /\ x[2] = call[c].account /\ attempt[x[2]][x[3]].command = c
          /\ \E j \in 1..n : call[c].items[j] = x[3]
        BY <1>9 DEF LiepinInv, OpenedAreItems, OpenedInv, Sent
    <2>2. \E i \in 1..n : next.items[i] = x[3]
        <3>1. PICK j \in 1..n : call[c].items[j] = x[3]
            BY <2>1
        <3>2. PICK i \in 1..n : order[i] = j
            BY <1>4
        <3> QED BY <3>1, <3>2
    <2> QED BY <1>2, <1>9, <2>1, <2>2 DEF OpenedInv, Sent, Ended
<1> QED BY <1>8, <1>9, CallGoesOn

\* The worker failed.
LEMMA FailureKeepsCalls == ASSUME LiepinInv, NEW c \in Call, OpenFails(c) PROVE LiepinInv'
<1>1. /\ call[c] \in CallRow /\ call[c].step = "opening"
    BY CallTypes DEF LiepinInv, OpenFails, At
<1> DEFINE n == Len(call[c].items)
           next == [call[c] EXCEPT !.step = "giving_up", !.todo = call[c].items]
           same == [i \in 1..n |-> i]
<1>2. call' = [call EXCEPT ![c] = next] /\ UNCHANGED <<linkVars, attempt, opened>>
    BY DEF OpenFails
<1>3. /\ next \in CallRow /\ next.step = "giving_up" /\ next.account = call[c].account
      /\ next.items = call[c].items /\ next.todo = call[c].items
    BY <1>1 DEF CallRow, Checked
<1>4. same \in Bijection(1..n, 1..n) /\ \A i \in 1..n : same[i] = i
    <2> HIDE DEF n
    <2> QED BY DEF Bijection, Injection, Surjection, IsInjective
<1> HIDE DEF next, same
<1> QED BY <1>1, <1>2, <1>3, <1>4, ItemsComeBack

\* The worker answered.
LEMMA AnswerKeepsCalls == ASSUME LiepinInv, NEW c \in Call, WorkerAnswers(c) PROVE LiepinInv'
<1>1. /\ call[c] \in CallRow /\ call[c].step = "opening"
    BY CallTypes DEF LiepinInv, WorkerAnswers, At
<1> DEFINE n == Len(call[c].items)
<1>2. n \in Nat /\ \A i \in 1..n : call[c].items[i] \in Candidate
    BY <1>1, SequenceParts DEF CallRow
<1>3. PICK order \in Bijection(1..n, 1..n) :
          call' = [call EXCEPT ![c].step = "applying",
                               ![c].items = [i \in 1..n |-> call[c].items[order[i]]],
                               ![c].todo = [i \in 1..n |-> call[c].items[order[i]]]]
    BY DEF WorkerAnswers
<1> DEFINE results == [i \in 1..n |-> call[c].items[order[i]]]
           next == [call[c] EXCEPT !.step = "applying", !.items = results, !.todo = results]
<1>4. order \in [1..n -> 1..n]
    BY DEF Bijection, Injection
<1>5. results \in Seq(Candidate) /\ Len(results) = n
      /\ \A i \in 1..n : results[i] = call[c].items[order[i]]
    <2>1. results \in [1..n -> Candidate]
        BY <1>2, <1>4
    <2> HIDE DEF n
    <2>2. results \in Seq(Candidate)
        BY <1>2, <2>1, SeqDef
    <2>3. Len(results) = n
        BY <1>2, <2>1, <2>2, LenProperties
    <2> QED BY <2>2, <2>3
<1>6. call' = [call EXCEPT ![c] = next] /\ UNCHANGED <<linkVars, attempt, opened>>
    BY <1>3 DEF WorkerAnswers
<1> HIDE DEF results
<1>7. /\ next \in CallRow /\ next.step = "applying" /\ next.account = call[c].account
      /\ next.items = results /\ next.todo = results
    BY <1>1, <1>5 DEF CallRow, Checked
<1> HIDE DEF next
<1> QED BY <1>1, <1>5, <1>6, <1>7, ItemsComeBack

\* The loop over the items has come to its end: each of them has.
LEMMA LoopEndKeepsCalls == ASSUME LiepinInv, NEW c \in Call, LoopEnds(c) PROVE LiepinInv'
<1>1. /\ call[c] \in CallRow /\ CallInv(c) /\ call[c].step \in {"giving_up", "applying"}
      /\ call \in [Call -> CallRow] /\ call[c].todo = <<>>
      /\ opened \subseteq Call \X Account \X Candidate
    BY CallTypes DEF LiepinInv, ItemsAreHandled, LoopEnds, At
<1> DEFINE next == [call[c] EXCEPT !.step = "done"]
<1>2. call' = [call EXCEPT ![c] = next] /\ UNCHANGED <<linkVars, attempt, opened>>
    BY DEF LoopEnds, Goes
<1>3. next \in CallRow /\ next.step = "done" /\ next.account = call[c].account
    BY <1>1 DEF CallRow, Ended
<1> HIDE DEF next
<1>4. call'[c] = next
    BY <1>1, <1>2
<1>5. Len(call[c].items) \in Nat /\ Len(call[c].todo) = 0
    BY <1>1, SequenceParts DEF CallRow
<1>6. Handled(c) = Len(call[c].items)
    BY <1>5 DEF Handled
<1>7. \A i \in 1..Len(call[c].items) : IsOf(Item(c, i), c, Final)
    BY <1>1, <1>6 DEF CallInv, EndingInv
<1>8. CallInv(c)'
    BY <1>3, <1>4 DEF CallInv, StartingInv, OpeningInv, EndingInv, Checked
<1>9. \A x \in opened : x[1] = c => OpenedInv(x)'
    <2> SUFFICES ASSUME NEW x \in opened, x[1] = c PROVE OpenedInv(x)'
        OBVIOUS
    <2>1. x[2] = call[c].account /\ \E i \in 1..Len(call[c].items) : call[c].items[i] = x[3]
        BY <1>1 DEF LiepinInv, OpenedAreItems, OpenedInv, Sent
    <2>2. IsOf(attempt[x[2]][x[3]], c, Final)
        BY <1>7, <2>1 DEF Item, Mine
    <2> QED BY <1>2, <1>3, <1>4, <2>1, <2>2 DEF OpenedInv, Sent, Ended, IsOf
<1> QED BY <1>2, <1>3, <1>8, <1>9, CallGoesOn

\* One transition of an item in hand: it ends, or goes on.  The call may raise after it.
LEMMA ItemMoves ==
    ASSUME LiepinInv, NEW c \in Call, call[c].step \in {"giving_up", "applying"},
           call[c].todo # <<>>, UNCHANGED <<linkVars, opened>>,
           NEW state \in AttemptState \ Unclaimed, NEW next \in CallRow,
           next.step \in {call[c].step, "raised"}, next.account = call[c].account,
           next.items = call[c].items,
           \/ state \in Final /\ next.todo = Tail(call[c].todo)
           \/ state \in Progress /\ next.todo = call[c].todo /\ next.step = call[c].step,
           Allowed(Mine(c, Head(call[c].todo)).state, state),
           Transition(c, Head(call[c].todo), state, next)
    PROVE  LiepinInv'
<1>1. /\ call[c] \in CallRow /\ CallInv(c)
      /\ call \in [Call -> CallRow]
      /\ opened \subseteq Call \X Account \X Candidate
    BY CallTypes DEF LiepinInv, ItemsAreHandled
<1> DEFINE k == Head(call[c].todo)
           acc == call[c].account
           items == call[c].items
<1>0. PICK h : h = Handled(c)
    OBVIOUS
<1>2. /\ acc \in Account /\ Approved(acc)
      /\ RestIsOfItems(c) /\ Distinct(c, Len(items))
      /\ \A i \in 1..h : IsOf(Item(c, i), c, Final)
      /\ IsOf(Item(c, h + 1), c, Going)
      /\ \A i \in h + 2 .. Len(items) : IsOf(Item(c, i), c, {"started"})
    BY <1>0, <1>1 DEF CallInv, EndingInv, Checked
<1>3. /\ Len(items) \in Nat /\ h \in Nat /\ h + 1 \in 1..Len(items)
      /\ k = items[h + 1] /\ k \in Candidate /\ Tail(call[c].todo) \in Seq(Candidate)
      /\ Len(items) - Len(Tail(call[c].todo)) = h + 1
      /\ Len(Tail(call[c].todo)) <= Len(items)
      /\ \A j \in 1..Len(Tail(call[c].todo)) : Tail(call[c].todo)[j] = items[h + 1 + j]
      /\ Tail(call[c].todo) = <<>> <=> h + 1 = Len(items)
    BY <1>0, <1>1, <1>2, NextItem
<1>4. IsOf(Mine(c, k), c, Going)
    BY <1>2, <1>3 DEF Item
<1>5. Mine(c, k).command \in {c, NoCall}
    BY <1>4 DEF IsOf
<1>6. /\ call' = [call EXCEPT ![c] = next]
      /\ attempt' \in [Account -> [Candidate -> AttemptRow]]
      /\ IsOf(attempt'[acc][k], c, {state})
      /\ \A a \in Account, q \in Candidate : a # acc \/ q # k => attempt'[a][q] = attempt[a][q]
      /\ \A a \in Account, q \in Candidate : Charges(attempt'[a][q])
      /\ AttemptsStayOthers(c)
    BY <1>2, <1>3, <1>5, TransitionMoves
<1>7. call'[c] = next
    BY <1>1, <1>6
<1> HIDE DEF k
<1>8. \A i \in 1..Len(items) : items[i] \in Candidate /\ (items[i] = k => i = h + 1)
    BY <1>1, <1>2, <1>3, SequenceParts DEF CallRow, Distinct
<1>9. \A i \in 1..Len(items) : attempt'[next.account][next.items[i]] =
          IF i = h + 1 THEN attempt'[acc][k] ELSE attempt[acc][items[i]]
    BY <1>2, <1>3, <1>6, <1>8
<1>10. \A states : \A i \in 1..Len(items) :
          /\ i # h + 1 /\ IsOf(Item(c, i), c, states) => IsOf(Item(c, i)', c, states)
          /\ i = h + 1 /\ state \in states => IsOf(Item(c, i)', c, states)
    <2>1. \A i \in 1..Len(items) : Item(c, i)' = attempt'[next.account][next.items[i]]
        BY <1>7 DEF Item, Mine
    <2>2. \A i \in 1..Len(items) : Item(c, i) = attempt[acc][items[i]]
        BY DEF Item, Mine
    <2>3. SUFFICES ASSUME NEW states, NEW i \in 1..Len(items)
                   PROVE  /\ i # h + 1 /\ IsOf(Item(c, i), c, states) => IsOf(Item(c, i)', c, states)
                          /\ i = h + 1 /\ state \in states => IsOf(Item(c, i)', c, states)
        OBVIOUS
    <2>4. CASE i = h + 1
        <3>1. Item(c, i)' = attempt'[acc][k] BY <1>9, <2>1, <2>4
        <3> QED BY <1>6, <2>4, <3>1 DEF IsOf
    <2>5. CASE i # h + 1
        <3>1. Item(c, i)' = Item(c, i) BY <1>9, <2>1, <2>2, <2>5
        <3> QED BY <2>5, <3>1 DEF IsOf
    <2> QED BY <2>4, <2>5
<1>11. /\ \A i \in 1..h : i \in 1..Len(items) /\ i # h + 1
       /\ \A i \in h + 2 .. Len(items) : i \in 1..Len(items) /\ i # h + 1
    BY <1>3
<1>12. /\ \A i \in 1..h : IsOf(Item(c, i)', c, Final)
       /\ \A i \in h + 2 .. Len(items) : IsOf(Item(c, i)', c, {"started"})
    BY <1>2, <1>10, <1>11
<1>13. ASSUME state \in Final PROVE \A i \in 1..h + 1 : IsOf(Item(c, i)', c, Final)
    <2>1. IsOf(Item(c, h + 1)', c, Final)
        BY <1>3, <1>10, <1>13
    <2>2. \A i \in 1..h + 1 : i \in 1..h \/ i = h + 1
        BY <1>3
    <2> QED BY <1>12, <2>1, <2>2
<1>14. EndingInv(c)'
    <2> SUFFICES ASSUME next.step = call[c].step PROVE EndingInv(c)'
        BY <1>7 DEF EndingInv
    <2>1. CASE state \in Final /\ next.todo = Tail(call[c].todo)
        <3>1. Handled(c)' = h + 1
            BY <1>3, <1>7, <2>1 DEF Handled
        <3>2. RestIsOfItems(c)'
            BY <1>3, <1>7, <2>1, <3>1 DEF RestIsOfItems
        <3>3. \A i \in 1..h + 1 : IsOf(Item(c, i)', c, Final)
            BY <1>13, <2>1
        <3>4. \A i \in h + 3 .. Len(items) : i \in h + 2 .. Len(items)
            BY <1>3
        <3>5. Tail(call[c].todo) # <<>> => h + 2 \in h + 2 .. Len(items)
            BY <1>3
        <3>6. (h + 1) + 1 = h + 2 /\ (h + 1) + 2 = h + 3
            BY <1>3
        <3>7. Tail(call[c].todo) # <<>> => IsOf(Item(c, h + 2)', c, Going)
            BY <1>12, <3>5 DEF IsOf, Going
        <3> QED BY <1>2, <1>7, <1>12, <2>1, <3>1, <3>2, <3>3, <3>4, <3>6, <3>7
                DEF EndingInv, Distinct, Item, Mine
    <2>2. CASE state \in Progress /\ next.todo = call[c].todo
        <3>1. Handled(c)' = h
            BY <1>0, <1>7, <2>2 DEF Handled
        <3>2. RestIsOfItems(c)'
            BY <1>2, <1>7, <2>2 DEF RestIsOfItems, Handled
        <3>3. IsOf(Item(c, h + 1)', c, Going)
            BY <1>3, <1>10, <2>2 DEF Going
        <3> QED BY <1>2, <1>7, <1>12, <2>2, <3>1, <3>2, <3>3 DEF EndingInv, Distinct, Item, Mine
    <2> QED BY <2>1, <2>2
<1>15. CallInv(c)'
    BY <1>1, <1>2, <1>7, <1>14 DEF CallInv, StartingInv, OpeningInv, Checked, Approved, linkVars
<1>16. opened' \subseteq Call \X Account \X Candidate
    BY <1>1
<1>17. ASSUME NEW x \in opened, x[1] = c PROVE OpenedInv(x)'
    <2>1. PICK i \in 1..Len(items) : items[i] = x[3]
        BY <1>17 DEF LiepinInv, OpenedAreItems, OpenedInv, Sent
    <2>2. x[2] = acc /\ attempt[x[2]][x[3]].command = c
        BY <1>17 DEF LiepinInv, OpenedAreItems, OpenedInv
    <2>3. attempt'[x[2]][x[3]] = Item(c, i)'
        BY <1>7, <2>1, <2>2 DEF Item, Mine
    <2>4. attempt'[x[2]][x[3]].command = c
        <3>1. attempt'[acc][items[i]] = IF i = h + 1 THEN attempt'[acc][k] ELSE attempt[acc][items[i]]
            BY <1>9
        <3> QED BY <1>6, <2>1, <2>2, <3>1 DEF IsOf
    <2>5. CASE next.step = call[c].step
        BY <1>7, <1>17, <2>1, <2>2, <2>4, <2>5 DEF OpenedInv, Sent, Ended
    <2>6. CASE next.step = "raised"
        <3>1. state \in Final /\ next.todo = Tail(call[c].todo)
            BY <2>6
        <3>2. CASE i \in 1..h + 1
            <4>1. attempt'[x[2]][x[3]].state \in Final
                BY <1>13, <2>3, <3>1, <3>2 DEF IsOf
            <4> QED BY <1>7, <1>17, <2>2, <2>4, <2>6, <4>1 DEF OpenedInv, Sent, Ended
        <3>3. CASE i \notin 1..h + 1
            <4>1. /\ i - (h + 1) \in 1..Len(Tail(call[c].todo))
                  /\ h + 1 + (i - (h + 1)) = i
                <5>1. PICK m, n \in Nat : m = Len(items) /\ n = Len(Tail(call[c].todo))
                    BY <1>3, LenProperties
                <5>2. m - n = h + 1 /\ i \in 1..m
                    BY <1>3, <5>1
                <5>3. i - (h + 1) \in 1..n /\ h + 1 + (i - (h + 1)) = i
                    <6> HIDE DEF items
                    <6> QED BY <1>3, <3>3, <5>2
                <5> QED BY <5>1, <5>3
            <4>2. next.todo[i - (h + 1)] = x[3]
                BY <1>3, <2>1, <3>1, <4>1
            <4> QED BY <1>7, <1>17, <2>2, <2>4, <2>6, <3>1, <4>1, <4>2 DEF OpenedInv, Sent, Ended
        <3> QED BY <3>2, <3>3
    <2> QED BY <2>5, <2>6
<1>18. \A x \in opened' : IF x[1] = c THEN OpenedInv(x)' ELSE x \in opened
    BY <1>17
<1> QED BY <1>6, <1>15, <1>16, <1>18, OneCallMoves

\* The next item was started and has not ended.
LEMMA NextIsGoing ==
    ASSUME LiepinInv, NEW c \in Call, call[c].step \in {"giving_up", "applying"}, call[c].todo # <<>>
    PROVE  Mine(c, Head(call[c].todo)).state \in Going
<1>1. /\ call[c] \in CallRow /\ CallInv(c)
    BY CallTypes DEF LiepinInv, ItemsAreHandled
<1>2. RestIsOfItems(c) /\ IsOf(Item(c, Handled(c) + 1), c, Going)
    BY <1>1 DEF CallInv, EndingInv
<1>3. Head(call[c].todo) = call[c].items[Handled(c) + 1]
    BY <1>1, <1>2, NextItem
<1> QED BY <1>2, <1>3 DEF IsOf, Item

\* Giving up the next item, which was started and not touched since.
LEMMA GiveUpKeepsCalls == ASSUME LiepinInv, NEW c \in Call, GiveUpNext(c) PROVE LiepinInv'
<1>1. /\ call[c] \in CallRow /\ call[c].step = "giving_up" /\ call[c].todo # <<>>
    BY CallTypes DEF LiepinInv, GiveUpNext, At
<1> DEFINE next == [call[c] EXCEPT !.todo = Tail(call[c].todo)]
<1>2. Transition(c, Head(call[c].todo), "unknown", next) /\ UNCHANGED <<linkVars, opened>>
    BY DEF GiveUpNext
<1>3. Tail(call[c].todo) \in Seq(Candidate)
    BY <1>1, SequenceParts DEF CallRow
<1>4. /\ next \in CallRow /\ next.step = call[c].step /\ next.account = call[c].account
      /\ next.items = call[c].items /\ next.todo = Tail(call[c].todo)
    BY <1>1, <1>3 DEF CallRow
<1> HIDE DEF next
<1>5. "unknown" \in AttemptState \ Unclaimed /\ "unknown" \in Final
    BY DEF AttemptState, Unclaimed, Final, Spent
<1>6. Allowed(Mine(c, Head(call[c].todo)).state, "unknown")
    BY <1>1, NextIsGoing DEF Going, Progress, Allowed, Final, Spent
<1> QED BY <1>1, <1>2, <1>4, <1>5, <1>6, ItemMoves

\* A result raises before it ends its attempt: what was handled has ended, the rest is left.
LEMMA RaiseKeepsCalls ==
    ASSUME LiepinInv, NEW c \in Call, call[c].step = "applying", call[c].todo # <<>>,
           Goes(c, "raised"), UNCHANGED <<linkVars, attempt, opened>>
    PROVE  LiepinInv'
<1>1. /\ call[c] \in CallRow /\ CallInv(c) /\ call \in [Call -> CallRow]
    BY CallTypes DEF LiepinInv, ItemsAreHandled
<1> DEFINE next == [call[c] EXCEPT !.step = "raised"]
           h == Handled(c)
<1>2. call' = [call EXCEPT ![c] = next]
    BY DEF Goes
<1>3. /\ next \in CallRow /\ next.step = "raised" /\ next.account = call[c].account
      /\ next.todo = call[c].todo
    BY <1>1 DEF CallRow, Ended
<1> HIDE DEF next
<1>4. call'[c] = next
    BY <1>1, <1>2
<1>5. RestIsOfItems(c) /\ \A i \in 1..h : IsOf(Item(c, i), c, Final)
    BY <1>1 DEF CallInv, EndingInv
<1>6. Len(call[c].items) \in Nat /\ Len(call[c].todo) \in Nat
    BY <1>1, SequenceParts DEF CallRow
<1>7. CallInv(c)'
    BY <1>3, <1>4 DEF CallInv, StartingInv, OpeningInv, EndingInv, Checked
<1>8. ASSUME NEW x \in opened, x[1] = c PROVE OpenedInv(x)'
    <2>1. /\ x[2] = call[c].account /\ attempt[x[2]][x[3]].command = c
          /\ \E i \in 1..Len(call[c].items) : call[c].items[i] = x[3]
        BY <1>8 DEF LiepinInv, OpenedAreItems, OpenedInv, Sent
    <2>2. PICK i \in 1..Len(call[c].items) : call[c].items[i] = x[3]
        BY <2>1
    <2>3. CASE i \in 1..h
        <3>1. attempt[x[2]][x[3]].state \in Final
            BY <1>5, <2>1, <2>2, <2>3 DEF IsOf, Item, Mine
        <3> QED BY <1>3, <1>4, <1>8, <2>1, <3>1 DEF OpenedInv, Sent, Ended
    <2>4. CASE i \notin 1..h
        <3>1. i - h \in 1..Len(call[c].todo) /\ h + (i - h) = i
            <4>1. h = Len(call[c].items) - Len(call[c].todo) /\ Len(call[c].todo) <= Len(call[c].items)
                BY <1>5 DEF RestIsOfItems, Handled
            <4> HIDE DEF h
            <4>2. \A m, n \in Nat : h = m - n /\ n <= m /\ i \in 1..m => i - h \in 1..n /\ h + (i - h) = i
                BY <2>4
            <4> QED BY <1>6, <4>1, <4>2
        <3>2. call[c].todo[i - h] = x[3]
            BY <1>5, <2>2, <3>1 DEF RestIsOfItems
        <3> QED BY <1>3, <1>4, <1>8, <2>1, <3>1, <3>2 DEF OpenedInv, Sent, Ended
    <2> QED BY <2>3, <2>4
<1> HIDE DEF h
<1> QED BY <1>2, <1>3, <1>7, <1>8, CallGoesOn

\* Applying what the worker answered, one transition after the other.
LEMMA ApplyKeepsCalls == ASSUME LiepinInv, NEW c \in Call, ApplyNext(c) PROVE LiepinInv'
<1>1. /\ call[c] \in CallRow /\ call[c].step = "applying" /\ call[c].todo # <<>>
      /\ UNCHANGED <<linkVars, opened>>
    BY CallTypes DEF LiepinInv, ApplyNext, At
<1> DEFINE k == Head(call[c].todo)
           rest == [call[c] EXCEPT !.todo = Tail(call[c].todo)]
           last == [rest EXCEPT !.step = "raised"]
<1>2. /\ Progress \subseteq AttemptState \ Unclaimed /\ Final \subseteq AttemptState \ Unclaimed
      /\ "unknown" \in Final
    BY DEF AttemptState, Unclaimed, Final, Spent, Progress
<1>3. Tail(call[c].todo) \in Seq(Candidate)
    BY <1>1, SequenceParts DEF CallRow
<1>4. /\ rest \in CallRow /\ rest.step = call[c].step /\ rest.account = call[c].account
      /\ rest.items = call[c].items /\ rest.todo = Tail(call[c].todo)
    BY <1>1, <1>3 DEF CallRow
<1>5. /\ last \in CallRow /\ last.step = "raised" /\ last.account = call[c].account
      /\ last.items = call[c].items /\ last.todo = Tail(call[c].todo)
    BY <1>1, <1>3 DEF CallRow, Ended
<1>6. \/ \E state \in Progress : Allowed(Mine(c, k).state, state) /\ Transition(c, k, state, call[c])
      \/ \E state \in Final : Transition(c, k, state, rest)
      \/ Transition(c, k, "unknown", last)
      \/ Goes(c, "raised") /\ UNCHANGED attempt
    BY DEF ApplyNext
<1> HIDE DEF k, rest, last
<1>7. CASE \E state \in Progress : Allowed(Mine(c, k).state, state) /\ Transition(c, k, state, call[c])
    BY <1>1, <1>2, <1>7, ItemMoves DEF k
<1>8. ASSUME NEW state \in Final, Transition(c, k, state, rest) PROVE LiepinInv'
    <2>1. CASE Allowed(Mine(c, k).state, state)
        BY <1>1, <1>2, <1>4, <1>8, <2>1, ItemMoves DEF k
    <2>2. CASE ~Allowed(Mine(c, k).state, state)
        <3>1. Goes(c, "raised") /\ UNCHANGED attempt
            BY <1>8, <2>2 DEF Transition
        <3> QED BY <1>1, <3>1, RaiseKeepsCalls
    <2> QED BY <2>1, <2>2
<1>9. CASE Transition(c, k, "unknown", last)
    <2>1. Allowed(Mine(c, k).state, "unknown")
        BY <1>1, NextIsGoing DEF k, Going, Progress, Allowed, Final, Spent
    <2> QED BY <1>1, <1>2, <1>5, <1>9, <2>1, ItemMoves DEF k
<1>10. CASE Goes(c, "raised") /\ UNCHANGED attempt
    BY <1>1, <1>10, RaiseKeepsCalls
<1> QED BY <1>6, <1>7, <1>8, <1>9, <1>10

\* A call that is cut short keeps what it opened.
LEMMA CutKeepsCalls == ASSUME LiepinInv, NEW c \in Call, Cut(c) PROVE LiepinInv'
<1>1. /\ call[c] \in CallRow /\ call \in [Call -> CallRow]
      /\ call[c].step \notin {"new"} \cup Ended
    BY CallTypes DEF LiepinInv, Cut
<1>2. PICK next : next = Shortened(call[c])
    OBVIOUS
<1>3. next \in CallRow /\ next.step = "cut" /\ next.account = call[c].account
    BY <1>1, <1>2, ShortenedRow
<1>4. call' = [call EXCEPT ![c] = next] /\ UNCHANGED <<linkVars, attempt, opened>>
    BY <1>2 DEF Cut
<1>5. call'[c] = next
    BY <1>1, <1>4
<1>6. CallInv(c)'
    BY <1>3, <1>5 DEF CallInv, StartingInv, OpeningInv, EndingInv, Checked
<1>7. \A x \in opened : x[1] = c => OpenedInv(x)'
    BY <1>3, <1>4, <1>5 DEF LiepinInv, OpenedAreItems, OpenedInv, Sent, Ended
<1> QED BY <1>3, <1>4, <1>6, <1>7, CallGoesOn

\* Every step of the connection and of the calls keeps the invariant.
LEMMA LiepinStep == LiepinInv /\ [Next]_vars => LiepinInv'
<1> SUFFICES ASSUME LiepinInv, [Next]_vars PROVE LiepinInv'
    OBVIOUS
<1>1. CASE LinkNext /\ UNCHANGED callVars
    BY <1>1, LinkKeepsCalls
<1>2. CASE Crash
    BY <1>2, CrashKeepsCalls
<1>3. ASSUME NEW c \in Call, CallStep(c) PROVE LiepinInv'
    BY <1>3, ChecksKeepCalls, PlanKeepsCalls, ReserveKeepsCalls, RequestedKeepsCalls, StartKeepsCalls,
       DispatchKeepsCalls, FailureKeepsCalls, AnswerKeepsCalls, GiveUpKeepsCalls, ApplyKeepsCalls,
       LoopEndKeepsCalls, CutKeepsCalls
       DEF CallStep
<1>4. CASE UNCHANGED vars
    BY <1>4, LinkKeepsCalls DEF vars
<1> QED BY <1>1, <1>2, <1>3, <1>4 DEF Next

-----------------------------------------------------------------------------
(* Results.                                                                *)

\* The connection, the calls, their items and what they opened always fit together.
THEOREM LiepinInvariant == Spec => []LiepinInv
<1>1. Init => LiepinInv
    BY CallsBegin
<1>2. LiepinInv /\ [Next]_vars => LiepinInv'
    BY LiepinStep
<1> QED BY <1>1, <1>2, PTL DEF Spec

\* Every variable is what it can be, and an attempt is charged exactly if its view
\* was spent, or may have been.
THEOREM LiepinIsTyped == Spec => []LiepinTypeOK
<1>1. LiepinInv => LiepinTypeOK
    BY DEF LiepinInv
<1> QED BY <1>1, LiepinInvariant, PTL

\* The workbench's connection and the provider store never name two accounts while both
\* call the connection connected (ready_for_start, approve_connection_account_hash).
THEOREM DatabasesStayAgreed == Spec => []DatabasesAgree
<1>1. LiepinInv => DatabasesAgree
    BY LinkAgrees DEF LiepinInv
<1> QED BY <1>1, LiepinInvariant, PTL

\* A call works for the account the gate is approved for, to its end, whatever probes,
\* logins and completions run meanwhile (_enforce_connection_safety).
THEOREM CallsStayApproved == Spec => []CallsUseApprovedAccount
<1>1. LiepinInv => CallsUseApprovedAccount
    BY DEF LiepinInv, ItemsAreHandled, CallInv, CallsUseApprovedAccount
<1> QED BY <1>1, LiepinInvariant, PTL

\* What a call sent to the worker is its own, each candidate once; it is final when the
\* call ends, and after a result that raised all but that result and those behind it
\* (execute_liepin_detail_open_plan, _apply_worker_detail_result).
THEOREM ViewsStayAccounted == Spec => []ViewsAreAccounted
<1>1. LiepinInv => ViewsAreAccounted
    <2> SUFFICES ASSUME LiepinInv, NEW x \in opened
                 PROVE  LET t == attempt[x[2]][x[3]]
                            left == call[x[1]].todo IN
                        /\ t.command = x[1]
                        /\ call[x[1]].step = "done" => t.state \in Final
                        /\ call[x[1]].step = "raised" =>
                              t.state \in Final \/ \E i \in DOMAIN left : left[i] = x[3]
        BY DEF ViewsAreAccounted
    <2>1. x[1] \in Call /\ call \in [Call -> CallRow]
        BY CallTypes DEF LiepinInv
    <2>2. DOMAIN call[x[1]].todo = 1..Len(call[x[1]].todo)
        BY <2>1, LenProperties DEF CallRow
    <2> QED BY <2>2 DEF LiepinInv, OpenedAreItems, OpenedInv
<1> QED BY <1>1, LiepinInvariant, PTL

=============================================================================
