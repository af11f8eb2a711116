----------------------------- MODULE MCWorkbench -----------------------------
(***************************************************************************)
(* Seven parts of the program that share no state, in one run: a behaviour *)
(* is one of one part, and the others stay as they began.                  *)
(*                                                                         *)
(* Triage: one session with a run of each kind, one job, two threads.     *)
(* Notes: two threads in one process and one in another, three tick slots, *)
(*   one change of facts, a lease of two slots.                            *)
(* Ledger: a request by hand and two recommended ones, of two runs, for a  *)
(*   budget of two views a day; a day of three ticks has room for a third  *)
(*   lease of one tick, and a fourth tick starts a new day.                *)
(* Accounts: two browsers that send a request at a time each (two tabs of  *)
(*   one browser differ only in the cookies of that browser, of which      *)
(*   TokenFitsSession then says nothing). The lockout comes after two      *)
(*   failures within a window of one tick of three; four failed attempts   *)
(*   have room for both browsers' passwords in flight after one failure    *)
(*   and one more; three tokens for two logins and a rotation between, in  *)
(*   a behaviour with no more than two failures.                           *)
(* Maintenance: two rows, two backups, two restores, two faults.           *)
(* Board: both runs and a decision without a fault, one run with a fault,  *)
(*   and a Liepin run that is started twice; somebody both runs find.      *)
(* Browser: two searches of a call each; one with two tools and a fault;   *)
(*   one with four tools other than a search; one with two searches that   *)
(*   may overlap; one with three tools that may: open, look, fill.         *)
(*   Two tabs, three actions.                                              *)
(***************************************************************************)
EXTENDS RequirementTriage, NoteWriterLease, DetailOpenLedger, LoginSessions,
        WorkbenchMaintenance, OpenCliSearch, SessionBoard, TLC

CONSTANTS s1, cts1, liepin1, worker, heartbeat, other, hand, auto1, auto2, r1, r2, b1, b2,
          w1, w2, qa, qb, ra, rb
MCSession == {s1}
MCCtsRun == {cts1}
MCLiepinRun == {liepin1}
MCSessionOf == cts1 :> s1 @@ liepin1 :> s1
MCProcessOf == worker :> "p1" @@ heartbeat :> "p1" @@ other :> "p2"
MCBrowserOf == r1 :> b1 @@ r2 :> b2
MCRunOf == hand :> "x2" @@ auto1 :> "x1" @@ auto2 :> "x1"
MCQueryOf == ra :> qa @@ rb :> qb
MCCall == {ra, rb} \X {1, 2}
MCCallerOf == [k \in MCCall |-> k[1]]
One == {k \in MCCall : k[2] = 1}
MCSearchQuotas ==
    {[tools |-> ra :> 1 @@ rb :> 1, calls |-> One, kinds |-> Tool, faults |-> 0],
     [tools |-> ra :> 2 @@ rb :> 0, calls |-> One, kinds |-> Tool, faults |-> 1],
     [tools |-> ra :> 4 @@ rb :> 0, calls |-> One, kinds |-> Tool \ {"search"}, faults |-> 0],
     [tools |-> ra :> 2 @@ rb :> 0, calls |-> MCCall, kinds |-> {"search"}, faults |-> 0],
     [tools |-> ra :> 3 @@ rb :> 0, calls |-> MCCall, kinds |-> {"open", "state", "fill"}, faults |-> 0]}
MCSourceOf == "c1" :> "cts" @@ "l1" :> "liepin"
MCKeysOf == "c1" :> {"provider c1", "field ann"} @@ "l1" :> {"provider l1", "field ann"}
MCBoardQuotas == {[jobs |-> {0, 1}, reviews |-> 1, faults |-> 0],
                  [jobs |-> {0}, reviews |-> 1, faults |-> 1],
                  [jobs |-> {1, 2}, reviews |-> 0, faults |-> 0]}

\* In each of five parts a pair is alike.  As a behaviour is of one part, one
\* permutation may exchange all these pairs at once.
Twin == worker :> heartbeat @@ heartbeat :> worker @@ auto1 :> auto2 @@ auto2 :> auto1
        @@ r1 :> r2 @@ r2 :> r1 @@ b1 :> b2 @@ b2 :> b1
        @@ w1 :> w2 @@ w2 :> w1 @@ ra :> rb @@ rb :> ra @@ qa :> qb @@ qb :> qa
MCSymmetry == {IF swapped THEN Twin ELSE [m \in DOMAIN Twin |-> m] : swapped \in BOOLEAN}

VARIABLE part

\* The bounds of a part at rest are one of their choices, alike for both requests.
PartsInit ==
    /\ part \in {"triage", "notes", "ledger", "accounts", "maintenance", "browser", "board"}
    /\ TriageInit /\ NotesInit /\ LedgerInit /\ LoginInit
    /\ FilesInit /\ SearchInit /\ BoardInit
    /\ part # "browser" => quota.tools[ra] = quota.tools[rb]
    /\ part # "board" => mishaps = 0 /\ reviews = 1

TriageStep == part = "triage" /\ TriageNext
    /\ UNCHANGED <<part, noteVars, ledgerVars, loginVars, fileVars, searchVars, boardVars>>
NoteStep == part = "notes" /\ NotesNext
    /\ UNCHANGED <<part, vars, ledgerVars, loginVars, fileVars, searchVars, boardVars>>
LedgerStep == part = "ledger" /\ LedgerNext
    /\ UNCHANGED <<part, vars, noteVars, loginVars, fileVars, searchVars, boardVars>>
\* Bound: many failed attempts or several sessions, not both.
FewFailures == issued' > 1 => Len(loginAttempts') <= 2
AccountStep == part = "accounts" /\ LoginNext /\ FewFailures
    /\ UNCHANGED <<part, vars, noteVars, ledgerVars, fileVars, searchVars, boardVars>>
FileStep == part = "maintenance" /\ FilesNext
    /\ UNCHANGED <<part, vars, noteVars, ledgerVars, loginVars, searchVars, boardVars>>
BrowserStep == part = "browser" /\ SearchNext
    /\ UNCHANGED <<part, vars, noteVars, ledgerVars, loginVars, fileVars, boardVars>>
BoardStep == part = "board" /\ BoardNext
    /\ UNCHANGED <<part, vars, noteVars, ledgerVars, loginVars, fileVars, searchVars>>

PartsNext == TriageStep \/ NoteStep \/ LedgerStep \/ AccountStep \/ FileStep \/ BrowserStep \/ BoardStep
partVars == <<part, vars, noteVars, ledgerVars, loginVars, fileVars, searchVars, boardVars>>
PartsSpec == PartsInit /\ [][PartsNext]_partVars
=============================================================================
