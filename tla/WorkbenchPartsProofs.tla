------------------------ MODULE WorkbenchPartsProofs ------------------------
(***************************************************************************)
(* Proofs about six parts of the workbench, each for any values of its     *)
(* constants: no note appears twice (NoteWriterLease); no day's views      *)
(* exceed the budget, exactly the decided requests hold leases, and a      *)
(* decision is final (DetailOpenLedger); a restore keeps a whole database  *)
(* (WorkbenchMaintenance); the session page is current (SessionBoard); a   *)
(* login's session, token and lockout hold (LoginSessions); saving,        *)
(* approving, extracting and claiming a triage move the store by its own   *)
(* methods, an approval covers the stored criteria, and a session has one  *)
(* extraction at a time (RequirementTriage).                               *)
(***************************************************************************)
EXTENDS NoteWriterLease, DetailOpenLedger, WorkbenchMaintenance, SessionBoard,
        LoginSessions, RequirementTriage, SourceRunsProofs,
        FiniteSetTheorems, SequenceTheorems, WellFoundedInduction, TLAPS

----------------------------------------------------------------------------
(* Notes: the lease plays no part, it runs out under a slow model call and *)
(* is shared by the threads of a process; the store's own look at the key  *)
(* as it appends carries the proof.                                        *)

NoteInv == NoteTypeOK /\ NoNoteTwice

\* Appending a key under AppendOnce leaves the notes a sequence of distinct
\* keys (try_append_workbench_note).
LEMMA AppendOnceIsDistinct ==
    ASSUME notes \in Seq(Key), NoNoteTwice, NEW k \in Key, AppendOnce(k)
    PROVE  notes' \in Seq(Key) /\ NoNoteTwice'
<1>1. CASE \E i \in DOMAIN notes : notes[i] = k
    BY <1>1 DEF AppendOnce, NoNoteTwice
<1>2. CASE ~ \E i \in DOMAIN notes : notes[i] = k
    <2>1. notes' = Append(notes, k)
        BY <1>2 DEF AppendOnce
    <2>2. /\ notes' \in Seq(Key)
          /\ Len(notes') = Len(notes) + 1
          /\ \A i \in 1..Len(notes) : notes'[i] = notes[i]
          /\ notes'[Len(notes) + 1] = k
        BY <2>1, AppendProperties
    <2>3. Len(notes) \in Nat /\ DOMAIN notes = 1..Len(notes) /\ DOMAIN notes' = 1..Len(notes')
        BY <2>2
    <2>4. ASSUME NEW i \in 1..Len(notes'), NEW j \in 1..Len(notes'), notes'[i] = notes'[j]
          PROVE  i = j
        <3>1. CASE i \in 1..Len(notes) /\ j \in 1..Len(notes)
            BY <2>2, <2>3, <2>4, <3>1 DEF NoNoteTwice
        <3>2. CASE i = Len(notes) + 1 /\ j \in 1..Len(notes)
            BY <1>2, <2>2, <2>3, <2>4, <3>2
        <3>3. CASE i \in 1..Len(notes) /\ j = Len(notes) + 1
            BY <1>2, <2>2, <2>3, <2>4, <3>3
        <3>4. CASE i = Len(notes) + 1 /\ j = Len(notes) + 1
            BY <3>4
        <3> QED BY <2>2, <2>3, <3>1, <3>2, <3>3, <3>4
    <2> QED BY <2>2, <2>3, <2>4 DEF NoNoteTwice
<1> QED BY <1>1, <1>2

\* The session begins without a note and without a lease.
LEMMA NotesBegin == NotesInit => NoteInv
<1> SUFFICES ASSUME NotesInit PROVE NoteInv
    OBVIOUS
<1>1. facts \in 0..MaxFacts /\ slot \in 0..MaxSlot
    BY NoteAssumption DEF NotesInit
<1>2. NoteTypeOK
    BY <1>1, NoteAssumption DEF NotesInit, NoteTypeOK, NoLease, Key
<1>3. NoNoteTwice
    BY DEF NotesInit, NoNoteTwice
<1> QED BY <1>2, <1>3 DEF NoteInv

\* Every step of a tick, of the clock and of the session, and every crash, keeps
\* the notes distinct.
LEMMA NotesStep == NoteInv /\ [NotesNext]_noteVars => NoteInv'
<1> SUFFICES ASSUME NoteInv, [NotesNext]_noteVars PROVE NoteInv'
    OBVIOUS
<1> USE DEF NoteInv, NoteTypeOK
<1>1. ASSUME NEW t \in Thread, BeginTick(t) PROVE NoteInv'
    <2>1. [slot |-> slot, facts |-> facts] \in Key
        BY DEF Key
    <2> QED BY <1>1, <2>1 DEF BeginTick, NoNoteTwice
<1>2. ASSUME NEW t \in Thread, ClaimLease(t) PROVE NoteInv'
    <2>1. [owner |-> ProcessOf[t], left |-> LeaseSlots]
              \in [owner : Process \cup {NoProcess}, left : 0..LeaseSlots]
        BY NoteAssumption
    <2> QED BY <1>2, <2>1 DEF ClaimLease, NoNoteTwice
<1>3. ASSUME NEW t \in Thread, WriteNote(t) PROVE NoteInv'
    <2>1. notes' \in Seq(Key) /\ NoNoteTwice'
        BY <1>3, AppendOnceIsDistinct DEF WriteNote
    <2> QED BY <1>3, <2>1 DEF WriteNote
<1>4. ASSUME NEW t \in Thread, WriteNothing(t) PROVE NoteInv'
    BY <1>4 DEF WriteNothing, NoNoteTwice
<1>5. ASSUME NEW t \in Thread, ReleaseLease(t) PROVE NoteInv'
    <2>1. NoLease \in [owner : Process \cup {NoProcess}, left : 0..LeaseSlots]
        BY NoteAssumption DEF NoLease
    <2> QED BY <1>5, <2>1 DEF ReleaseLease, NoNoteTwice
<1>6. ASSUME NEW p \in Process, Crash(p) PROVE NoteInv'
    BY <1>6 DEF Crash, NoNoteTwice
<1>7. CASE FactsChange
    <2>1. facts' \in 0..MaxFacts
        BY <1>7, NoteAssumption DEF FactsChange
    <2> QED BY <1>7, <2>1 DEF FactsChange, NoNoteTwice
<1>8. CASE SlotPasses
    <2>1. slot' \in 0..MaxSlot
        BY <1>8, NoteAssumption DEF SlotPasses
    <2>2. lease' = [lease EXCEPT !.left = IF lease.left > 0 THEN lease.left - 1 ELSE 0]
        BY <1>8 DEF SlotPasses
    <2>3. (IF lease.left > 0 THEN lease.left - 1 ELSE 0) \in 0..LeaseSlots
        BY NoteAssumption
    <2>4. lease' \in [owner : Process \cup {NoProcess}, left : 0..LeaseSlots]
        BY <2>2, <2>3
    <2> QED BY <1>8, <2>1, <2>4 DEF SlotPasses, NoNoteTwice
<1>9. CASE UNCHANGED noteVars
    BY <1>9 DEF noteVars, NoNoteTwice
<1> QED BY <1>1, <1>2, <1>3, <1>4, <1>5, <1>6, <1>7, <1>8, <1>9 DEF NotesNext

\* The note writer's variables are always what they can be and its notes distinct,
\* for any number of processes, threads and slots.
THEOREM NotesInvariant == NotesSpec => []NoteInv
<1>1. NotesInit => NoteInv
    BY NotesBegin
<1>2. NoteInv /\ [NotesNext]_noteVars => NoteInv'
    BY NotesStep
<1> QED BY <1>1, <1>2, PTL DEF NotesSpec

\* No note appears twice, whoever lost the lease while the model wrote it
\* (tick_session, try_append_workbench_note).
THEOREM NotesStayDistinct == NotesSpec => []NoNoteTwice
<1>1. NoteInv => NoNoteTwice
    BY DEF NoteInv
<1> QED BY <1>1, NotesInvariant, PTL

----------------------------------------------------------------------------
(* Detail opens: no day's views exceed the budget, exactly the decided     *)
(* requests hold leases, one at a time, and a decision is final.           *)

LedgerInv == LedgerTypeOK /\ DecisionsHoldLeases /\ DailyBudgetKept
Decided == {"approved", "rejected", "bypassed", "blocked"}

\* An empty queue satisfies the invariant.
LEMMA InitLedger ==
    ASSUME LedgerInit
    PROVE  LedgerInv
<1>1. 0 \in Time /\ Day(0) = 0
  BY LedgerAssumption DEF Time, Day
<1>2. NoEntry \in Entry
  BY <1>1 DEF NoEntry, Entry
<1>3. LedgerTypeOK
  BY <1>1, <1>2 DEF LedgerInit, LedgerTypeOK, Status
<1>4. DecisionsHoldLeases
  BY DEF LedgerInit, DecisionsHoldLeases, Leased, NoEntry
<1>5. \A day : UsedOn(day) = {}
  BY DEF LedgerInit, UsedOn, NoEntry
<1>6. DailyBudgetKept
  BY <1>5, FS_EmptySet, LedgerAssumption DEF DailyBudgetKept
<1> QED
  BY <1>3, <1>4, <1>6 DEF LedgerInv

\* The times a call may have read are times.
LEMMA NowIsTime == LedgerTypeOK => Now \subseteq Time
BY DEF Now, LedgerTypeOK

-----------------------------------------------------------------------------
(* What a change of the ledger does to the budget.                         *)

\* The views of a day are those of finitely many requests.
LEMMA UsedIsFinite ==
    ASSUME NEW day
    PROVE  IsFiniteSet(UsedOn(day)) /\ Cardinality(UsedOn(day)) \in Nat
BY FS_Subset, FS_CardinalityType, LedgerAssumption DEF UsedOn

\* A change that counts no new request keeps the budget.
LEMMA SameViews ==
    ASSUME DailyBudgetKept,
           \A day \in {Day(instant) : instant \in Time} : UsedOn(day)' \subseteq UsedOn(day)
    PROVE  DailyBudgetKept'
<1> SUFFICES ASSUME NEW day \in {Day(instant) : instant \in Time}
             PROVE  Cardinality(UsedOn(day)') <= DailyLimit
  BY DEF DailyBudgetKept
<1>1. UsedOn(day)' \subseteq UsedOn(day) /\ Cardinality(UsedOn(day)) <= DailyLimit
  BY DEF DailyBudgetKept
<1>2. IsFiniteSet(UsedOn(day)) /\ Cardinality(UsedOn(day)) \in Nat
  BY UsedIsFinite
<1>3. IsFiniteSet(UsedOn(day)') /\ Cardinality(UsedOn(day)') <= Cardinality(UsedOn(day))
  BY <1>1, <1>2, FS_Subset
<1>4. Cardinality(UsedOn(day)') \in Nat
  BY <1>3, FS_CardinalityType
<1> QED
  BY <1>1, <1>2, <1>3, <1>4, LedgerAssumption

\* One lease, taken while there is budget left for its day, keeps the budget.
LEMMA OneMoreView ==
    ASSUME DailyBudgetKept, NEW r \in Request, NEW instant \in Time, MayLease(instant),
           \A q \in Request : ledger'[q] = IF q = r THEN [status |-> "leased", day |-> Day(instant),
                                                          expires |-> instant + ViewLeaseTicks]
                                           ELSE ledger[q]
    PROVE  DailyBudgetKept'
<1> SUFFICES ASSUME NEW day \in {Day(n) : n \in Time}
             PROVE  Cardinality(UsedOn(day)') <= DailyLimit
  BY DEF DailyBudgetKept
<1>1. IsFiniteSet(UsedOn(day)) /\ Cardinality(UsedOn(day)) \in Nat /\ Cardinality(UsedOn(day)) <= DailyLimit
  BY UsedIsFinite DEF DailyBudgetKept
<1>2. CASE day = Day(instant)
  <2>1. UsedOn(day)' \subseteq UsedOn(day) \cup {r}
    BY DEF UsedOn
  <2>2. /\ IsFiniteSet(UsedOn(day) \cup {r})
        /\ Cardinality(UsedOn(day) \cup {r}) <= Cardinality(UsedOn(day)) + 1
    <3>1. /\ IsFiniteSet(UsedOn(day) \cup {r})
          /\ \/ Cardinality(UsedOn(day) \cup {r}) = Cardinality(UsedOn(day))
             \/ Cardinality(UsedOn(day) \cup {r}) = Cardinality(UsedOn(day)) + 1
      BY <1>1, FS_AddElement, Zenon
    <3> QED
      BY <1>1, <3>1
  <2>3. /\ IsFiniteSet(UsedOn(day)')
        /\ Cardinality(UsedOn(day)') <= Cardinality(UsedOn(day) \cup {r})
    BY <2>1, <2>2, FS_Subset
  <2>4. Cardinality(UsedOn(day)) < DailyLimit
    BY <1>2 DEF MayLease
  <2>5. Cardinality(UsedOn(day)') \in Nat /\ Cardinality(UsedOn(day) \cup {r}) \in Nat
    BY <2>2, <2>3, FS_CardinalityType
  <2> QED
    BY <1>1, <2>2, <2>3, <2>4, <2>5, LedgerAssumption
<1>3. CASE day # Day(instant)
  <2>1. UsedOn(day)' \subseteq UsedOn(day)
    BY <1>3 DEF UsedOn
  <2>2. IsFiniteSet(UsedOn(day)') /\ Cardinality(UsedOn(day)') <= Cardinality(UsedOn(day))
    BY <1>1, <2>1, FS_Subset
  <2>3. Cardinality(UsedOn(day)') \in Nat
    BY <2>2, FS_CardinalityType
  <2> QED
    BY <1>1, <2>2, <2>3, LedgerAssumption
<1> QED
  BY <1>2, <1>3

\* Steps that leave the requests, the ledger and the intents alone keep both invariants.
LEMMA TablesUntouched ==
    ASSUME LedgerInv, UNCHANGED <<status, ledger, intent>>
    PROVE  DecisionsHoldLeases' /\ DailyBudgetKept'
BY DEF LedgerInv, DecisionsHoldLeases, DailyBudgetKept, Leased, UsedOn

\* Reconciliation changes what became of a lease, not that it counts nor for which day.
LEMMA ReconcileKeeps ==
    ASSUME LedgerInv, NEW instant \in Time, ReconcileLeases(instant)
    PROVE  /\ ledger' \in [Request -> Entry]
           /\ DecisionsHoldLeases' /\ DailyBudgetKept'
           /\ \A r \in Request : ledger'[r].day = ledger[r].day /\ ledger'[r].expires = ledger[r].expires
<1>1. \A r \in Request :
         /\ ledger[r] \in Entry /\ ledger'[r] \in Entry
         /\ ledger'[r].day = ledger[r].day /\ ledger'[r].expires = ledger[r].expires
         /\ ledger'[r].status = IF r \in ExpiredLeases(instant) THEN "maybe_used" ELSE ledger[r].status
  BY DEF LedgerInv, LedgerTypeOK, ReconcileLeases, Entry
<1>2. ledger' \in [Request -> Entry]
  BY <1>1 DEF ReconcileLeases
<1>3. DecisionsHoldLeases'
  BY <1>1 DEF LedgerInv, DecisionsHoldLeases, ReconcileLeases, ExpiredLeases, Leased
<1>4. \A day : UsedOn(day)' \subseteq UsedOn(day)
  BY <1>1 DEF UsedOn, ExpiredLeases, Leased
<1>5. DailyBudgetKept'
  BY <1>4, SameViews DEF LedgerInv
<1> QED
  BY <1>1, <1>2, <1>3, <1>5

\* A lease for a request that holds none, or its refusal, keeps the types and both
\* invariants, and touches no other request.
LEMMA LeaseOrBlockKeeps ==
    ASSUME LedgerInv, NEW r \in Request, status[r] \in {"none", "pending"},
           NEW decision \in {"approved", "bypassed"}, NEW instant \in Time, LeaseOrBlock(r, decision, instant)
    PROVE  /\ status' \in [Request -> Status] /\ ledger' \in [Request -> Entry]
           /\ intent' \subseteq Request /\ usedCount' \in [SourceRun -> Nat] /\ blockedCount' \in [SourceRun -> Nat]
           /\ DecisionsHoldLeases' /\ DailyBudgetKept'
           /\ \A q \in Request : q # r => status'[q] = status[q] /\ ledger'[q] = ledger[q]
<1> USE DEF LedgerInv, LedgerTypeOK
<1>1. ledger[r].status = "none" /\ r \notin intent /\ RunOf[r] \in SourceRun
  BY LedgerAssumption DEF DecisionsHoldLeases
<1>2. CASE MayLease(instant) /\ Lease(r, decision, instant)
  <2> DEFINE row == [status |-> "leased", day |-> Day(instant), expires |-> instant + ViewLeaseTicks]
  <2>1. row \in Entry
    BY DEF Entry
  <2>2. /\ status' \in [Request -> Status] /\ ledger' \in [Request -> Entry] /\ intent' \subseteq Request
    BY <1>2, <2>1 DEF Lease, Status
  <2>3. usedCount' \in [SourceRun -> Nat] /\ blockedCount' \in [SourceRun -> Nat]
    BY <1>1, <1>2 DEF Lease
  <2>4. \A q \in Request : /\ status'[q] = IF q = r THEN decision ELSE status[q]
                           /\ ledger'[q] = IF q = r THEN row ELSE ledger[q]
    BY <1>2 DEF Lease
  <2>5. DecisionsHoldLeases'
    <3>1. row.status = "leased" /\ intent' = intent \cup {r} /\ Leased = {}
      BY <1>2 DEF Lease, MayLease
    <3> QED
      BY <2>4, <3>1 DEF DecisionsHoldLeases, Leased
  <2>6. DailyBudgetKept'
    BY <1>2, <2>4, OneMoreView
  <2> QED
    BY <2>2, <2>3, <2>4, <2>5, <2>6
<1>3. CASE ~MayLease(instant) /\ Block(r)
  <2>1. /\ status' \in [Request -> Status] /\ ledger' = ledger /\ intent' = intent /\ usedCount' = usedCount
    BY <1>3 DEF Block, Status
  <2>2. blockedCount' \in [SourceRun -> Nat]
    BY <1>1, <1>3 DEF Block
  <2>3. \A q \in Request : status'[q] = IF q = r THEN "blocked" ELSE status[q]
    BY <1>3 DEF Block
  <2>4. DecisionsHoldLeases'
    BY <1>1, <2>1, <2>3 DEF DecisionsHoldLeases, Leased
  <2>5. DailyBudgetKept'
    BY <2>1, SameViews DEF UsedOn
  <2> QED
    BY <2>1, <2>2, <2>3, <2>4, <2>5
<1> QED
  BY <1>2, <1>3 DEF LeaseOrBlock

\* The recommendations of a completed run lease at most one request, and decide or queue
\* only requests that did not exist.
LEMMA RecommendKeeps ==
    ASSUME LedgerInv, NEW x \in SourceRun, NEW R \in SUBSET AutoRequest, Recommend(x, R)
    PROVE  /\ LedgerInv'
           /\ \A q \in Request : status[q] # "none" => status'[q] = status[q] /\ ledger'[q] = ledger[q]
<1> USE DEF LedgerInv, LedgerTypeOK
<1>1. R \subseteq Request /\ IsFiniteSet(R)
  BY FS_Subset, LedgerAssumption
<1>2. PICK instant \in Now, first \in R :
          LET lucky == IF mode[x] = "bypass_confirm" /\ MayLease(instant) THEN {first} ELSE {}
              unlucky == IF mode[x] = "bypass_confirm" THEN R \ lucky ELSE {} IN
          /\ status' = [r \in Request |-> CASE r \in lucky -> "bypassed"
                                            [] r \in unlucky -> "blocked"
                                            [] r \in R \ (lucky \cup unlucky) -> "pending"
                                            [] OTHER -> status[r]]
          /\ ledger' = [r \in Request |->
                            IF r \in lucky THEN [status |-> "leased", day |-> Day(instant),
                                                 expires |-> instant + ViewLeaseTicks]
                            ELSE ledger[r]]
          /\ intent' = intent \cup lucky
          /\ usedCount' = [usedCount EXCEPT ![x] = @ + Cardinality(lucky)]
          /\ blockedCount' = [blockedCount EXCEPT ![x] = @ + Cardinality(unlucky)]
  BY DEF Recommend
<1> DEFINE lucky == IF mode[x] = "bypass_confirm" /\ MayLease(instant) THEN {first} ELSE {}
           unlucky == IF mode[x] = "bypass_confirm" THEN R \ lucky ELSE {}
           row == [status |-> "leased", day |-> Day(instant), expires |-> instant + ViewLeaseTicks]
<1>3. /\ lucky \subseteq R /\ unlucky \subseteq R /\ lucky \cap unlucky = {}
      /\ lucky # {} => lucky = {first} /\ MayLease(instant)
  OBVIOUS
<1>4. instant \in Time /\ row \in Entry
  BY NowIsTime DEF Entry
<1>5. \A r \in R : status[r] = "none" /\ ledger[r].status = "none" /\ r \notin intent
  BY <1>1 DEF Recommend, DecisionsHoldLeases
<1>6. /\ \A q \in Request : /\ q \in lucky => status'[q] = "bypassed" /\ ledger'[q] = row
                            /\ q \notin lucky => ledger'[q] = ledger[q]
                            /\ q \in R \ lucky => status'[q] \in {"blocked", "pending"}
                            /\ q \notin R => status'[q] = status[q]
      /\ intent' = intent \cup lucky
  BY <1>2, <1>3
<1>7. LedgerTypeOK'
  <2>1. status' \in [Request -> Status]
    BY <1>2, <1>6 DEF Status
  <2>2. ledger' \in [Request -> Entry] /\ intent' \subseteq Request
    BY <1>1, <1>2, <1>3, <1>4, <1>6
  <2>3. Cardinality(lucky) \in Nat /\ Cardinality(unlucky) \in Nat
    BY <1>1, <1>3, FS_Subset, FS_CardinalityType
  <2>4. usedCount' \in [SourceRun -> Nat] /\ blockedCount' \in [SourceRun -> Nat]
    <3> HIDE DEF lucky, unlucky
    <3>1. /\ usedCount' = [usedCount EXCEPT ![x] = @ + Cardinality(lucky)]
          /\ blockedCount' = [blockedCount EXCEPT ![x] = @ + Cardinality(unlucky)]
      BY <1>2 DEF lucky, unlucky
    <3> QED
      BY <2>3, <3>1
  <2> QED
    BY <2>1, <2>2, <2>4 DEF Recommend
<1> HIDE DEF lucky, unlucky
<1>8. DecisionsHoldLeases'
  <2>1. lucky # {} => Leased = {}
    BY <1>3 DEF MayLease
  <2>2. \A q \in Request : /\ status'[q] \in {"approved", "bypassed"} <=> ledger'[q].status # "none"
                           /\ q \in intent' <=> ledger'[q].status # "none"
    BY <1>3, <1>5, <1>6 DEF DecisionsHoldLeases
  <2>3. \A q, r \in Leased' : q = r
    BY <1>3, <1>6, <2>1 DEF DecisionsHoldLeases, Leased
  <2> QED
    BY <2>2, <2>3 DEF DecisionsHoldLeases
<1>9. DailyBudgetKept'
  <2>1. CASE lucky = {}
    BY <1>6, <2>1, SameViews DEF UsedOn
  <2>2. CASE lucky # {}
    <3>1. \A q \in Request : ledger'[q] = IF q = first THEN row ELSE ledger[q]
      BY <1>3, <1>6, <2>2
    <3> QED
      BY <1>1, <1>3, <1>4, <2>2, <3>1, OneMoreView
  <2> QED
    BY <2>1, <2>2
<1> QED
  BY <1>3, <1>5, <1>6, <1>7, <1>8, <1>9

-----------------------------------------------------------------------------
(* The steps.                                                              *)

\* What a step may never do to a request that is decided.
Keeps(r) == /\ status'[r] = status[r]
            /\ ledger'[r].day = ledger[r].day /\ ledger'[r].expires = ledger[r].expires

\* Every step keeps the invariant and every decision.
LEMMA NextLedger ==
    ASSUME LedgerInv, [LedgerNext]_ledgerVars
    PROVE  LedgerInv' /\ \A r \in Request : status[r] \in Decided => Keeps(r)
<1> DEFINE Goal == LedgerInv' /\ \A r \in Request : status[r] \in Decided => Keeps(r)
<1> USE DEF Keeps
<1>1. ASSUME NEW r \in Request, NEW what \in {"creating", "approving"}, BeginCall(r, what) PROVE Goal
  <2>1. PICK instant \in Now : ReconcileLeases(instant)
    BY <1>1 DEF BeginCall
  <2>2. instant \in Time
    BY NowIsTime DEF LedgerInv
  <2>3. call' \in [Request -> {"none", "creating", "approving"}] /\ UNCHANGED <<clock, connected, mode>>
    BY <1>1 DEF BeginCall, LedgerInv, LedgerTypeOK
  <2>4. UNCHANGED <<status, intent, usedCount, blockedCount>>
    BY <2>1 DEF ReconcileLeases
  <2> QED
    BY <2>1, <2>2, <2>3, <2>4, ReconcileKeeps DEF LedgerInv, LedgerTypeOK
<1>2. ASSUME NEW r \in Request, CreateRequest(r) \/ ApproveRequest(r) PROVE Goal
  <2>0. /\ call' \in [Request -> {"none", "creating", "approving"}] /\ UNCHANGED <<clock, connected, mode>>
    BY <1>2 DEF CreateRequest, ApproveRequest, Ends, LedgerInv, LedgerTypeOK
  <2>1. CASE UNCHANGED tables
    BY <2>0, <2>1, TablesUntouched DEF tables, LedgerInv, LedgerTypeOK
  <2>2. ASSUME NEW decision \in {"approved", "bypassed"}, NEW instant \in Now,
               status[r] \in {"none", "pending"}, LeaseOrBlock(r, decision, instant)
        PROVE  Goal
    <3>1. instant \in Time
      BY NowIsTime DEF LedgerInv
    <3> QED
      BY <2>0, <2>2, <3>1, LeaseOrBlockKeeps DEF LedgerInv, LedgerTypeOK, Decided
  <2>3. CASE status[r] = "none" /\ status' = [status EXCEPT ![r] = "pending"]
             /\ UNCHANGED <<ledger, intent, usedCount, blockedCount>>
    <3>1. LedgerTypeOK'
      BY <2>0, <2>3 DEF LedgerInv, LedgerTypeOK, Status
    <3>2. DecisionsHoldLeases'
      BY <2>3 DEF LedgerInv, LedgerTypeOK, DecisionsHoldLeases, Leased
    <3>3. DailyBudgetKept'
      BY <2>3, SameViews DEF LedgerInv, UsedOn
    <3> QED
      BY <2>3, <3>1, <3>2, <3>3 DEF LedgerInv, LedgerTypeOK, Decided
  <2> QED
    BY <1>2, <2>1, <2>2, <2>3 DEF CreateRequest, ApproveRequest
<1>3. ASSUME NEW r \in Request, RejectRequest(r) PROVE Goal
  <2>1. LedgerTypeOK'
    BY <1>3 DEF RejectRequest, LedgerInv, LedgerTypeOK, Status
  <2>2. DecisionsHoldLeases'
    BY <1>3 DEF RejectRequest, LedgerInv, LedgerTypeOK, DecisionsHoldLeases, Leased
  <2>3. DailyBudgetKept'
    BY <1>3, SameViews DEF RejectRequest, LedgerInv, UsedOn
  <2> QED
    BY <1>3, <2>1, <2>2, <2>3 DEF RejectRequest, LedgerInv, LedgerTypeOK, Decided
<1>4. ASSUME NEW x \in SourceRun, NEW R \in SUBSET AutoRequest, Recommend(x, R) PROVE Goal
  BY <1>4, RecommendKeeps DEF Decided
<1>5. CASE ListRequests
  <2>1. PICK instant \in Now : ReconcileLeases(instant)
    BY <1>5 DEF ListRequests
  <2>2. instant \in Time
    BY NowIsTime DEF LedgerInv
  <2>3. UNCHANGED <<clock, connected, mode, call, status, intent, usedCount, blockedCount>>
    BY <1>5, <2>1 DEF ListRequests, ReconcileLeases
  <2> QED
    BY <2>1, <2>2, <2>3, ReconcileKeeps DEF LedgerInv, LedgerTypeOK
<1>6. CASE (\E x \in SourceRun : SetMode(x)) \/ ChangeConnection \/ ClockTicks \/ UNCHANGED ledgerVars
  <2>1. UNCHANGED <<call, status, ledger, intent, usedCount, blockedCount>>
    BY <1>6 DEF SetMode, ChangeConnection, ClockTicks, ledgerVars, tables
  <2>2. clock' \in Time
    BY <1>6, LedgerAssumption DEF SetMode, ChangeConnection, ClockTicks, ledgerVars, LedgerInv, LedgerTypeOK, Time
  <2>3. connected' \in BOOLEAN
    BY <1>6 DEF SetMode, ChangeConnection, ClockTicks, ledgerVars, LedgerInv, LedgerTypeOK
  <2>4. mode' \in [SourceRun -> {"human_confirm", "bypass_confirm"}]
    BY <1>6 DEF SetMode, ChangeConnection, ClockTicks, ledgerVars, LedgerInv, LedgerTypeOK
  <2> QED
    BY <2>1, <2>2, <2>3, <2>4, TablesUntouched DEF LedgerInv, LedgerTypeOK
<1> QED
  BY <1>1, <1>2, <1>3, <1>4, <1>5, <1>6 DEF LedgerNext

-----------------------------------------------------------------------------
(* Theorems.                                                               *)

\* The queue and the ledger keep their invariant in every reachable state.
THEOREM LedgerInvariant == LedgerSpec => []LedgerInv
<1>1. LedgerInit => LedgerInv
  BY InitLedger
<1>2. LedgerInv /\ [LedgerNext]_ledgerVars => LedgerInv'
  BY NextLedger
<1> QED
  BY <1>1, <1>2, PTL DEF LedgerSpec

\* No day's views exceed the budget, whatever requests, approvals and recommendations race
\* for the last view and however late their clocks were read
\* (_lease_liepin_detail_open_request_conn).
THEOREM BudgetIsKept == LedgerSpec => []DailyBudgetKept
<1>1. LedgerInv => DailyBudgetKept
  BY DEF LedgerInv
<1> QED
  BY <1>1, LedgerInvariant, PTL

\* Exactly the approved and bypassed requests hold a ledger row and a write intent, and
\* one lease is open at a time (approve_liepin_detail_open_request, the recommendations).
THEOREM LeasesAreDecided == LedgerSpec => []DecisionsHoldLeases
<1>1. LedgerInv => DecisionsHoldLeases
  BY DEF LedgerInv
<1> QED
  BY <1>1, LedgerInvariant, PTL

\* A decided request stays decided, and its lease keeps its day and its end: no repeated or
\* late call takes a second lease for it or revives it.
THEOREM DecisionsStay == LedgerSpec => DecisionsAreFinal
<1>1. LedgerInv /\ [LedgerNext]_ledgerVars =>
         \A r \in Request : status[r] \in {"approved", "rejected", "bypassed", "blocked"} =>
             /\ status'[r] = status[r]
             /\ ledger'[r].day = ledger[r].day /\ ledger'[r].expires = ledger[r].expires
  BY NextLedger DEF Decided, Keeps
<1> QED
  BY <1>1, LedgerInvariant, PTL DEF LedgerSpec, DecisionsAreFinal

----------------------------------------------------------------------------
(* Backups and restores: who may be at work, and what the files of the     *)
(* database are at each step of a restore that fails, is undone or killed. *)

FileRow == Row \cup ({"backup", "restore"} \X Nat)
DbFile == [id : Nat, rows : SUBSET FileRow]
DbFiles == [db : DbFile, wal : DbFile]
Backup == [rows : SUBSET FileRow, described : BOOLEAN]
Command == [step : Steps, backup : Nat, original : SUBSET FileRow,
            failed : {"no", "undo", "delete"} \cup Guarded]
BackupSteps == {"describe", "audit backup"}
Undone == {"replace", "audit restore"}

FileTypes ==
    /\ live \in DbFiles /\ old \in DbFiles /\ temp \in DbFile
    /\ backups \in Seq(Backup) /\ command \in Command
    /\ file \in Nat /\ restores \in Nat /\ errors \in Nat

\* Who may be at work: the server or a restore, and a backup beside the server.
AtWork ==
    /\ command.step \in {"idle"} \cup BackupSteps => command.backup = 0
    /\ command.step \notin {"idle", "killed"} \cup BackupSteps => command.backup # 0
    /\ command.backup # 0 => ~serverUp
    /\ serverUp => Exists(live.db)
    /\ command.step \in BackupSteps => Exists(live.db) /\ Len(backups) > 0
    /\ command.step \in Guarded \cup {"delete", "restored"} => command.failed = "no"
    /\ command.step \in {"unlink", "move back"} => command.failed \in Guarded
    /\ \A f \in {live.db, old.db} : ~Exists(f) => f.rows = {}

OriginalIsThere ==
    \E db \in {live.db, old.db}, wal \in {live.wal, old.wal} :
        Rows([db |-> db, wal |-> wal]) = command.original

\* The copy of the backup that is to replace the database.
CopyIsReady == Exists(temp) /\ temp.rows = backups[command.backup].rows

\* Where the original and the backup are at each step of a restore.
RestorePhase ==
    /\ AtStep("quarantine db") => Rows(live) = command.original /\ old = NoFiles /\ CopyIsReady
    /\ AtStep("quarantine wal") =>
          /\ live.db = NoFile /\ old.wal = NoFile /\ CopyIsReady
          /\ Rows([db |-> old.db, wal |-> live.wal]) = command.original
    /\ AtStep("replace") => live = NoFiles /\ Rows(old) = command.original /\ CopyIsReady
    /\ AtStep("audit restore") =>
          /\ live.db.rows = backups[command.backup].rows /\ Exists(live.db)
          /\ live.wal = NoFile /\ temp = NoFile /\ Rows(old) = command.original
    /\ \/ AtStep("delete") \/ AtStep("restored")
       \/ AtStep("raised") /\ command.failed = "delete"
       => Restored /\ temp = NoFile
    /\ AtStep("unlink") /\ command.failed \in Undone => Rows(old) = command.original
    /\ AtStep("move back") /\ command.failed \in Undone =>
          Rows([db |-> IF Exists(old.db) THEN old.db ELSE live.db, wal |-> old.wal]) = command.original
    /\ AtStep("raised") /\ command.failed \in Undone => Rows(live) = command.original
    /\ AtStep("raised") /\ command.failed = "undo" => OriginalIsThere
    /\ AtStep("raised") => command.failed # "no"
    /\ AtStep("killed") => OriginalOrBackup

FilesInv == MaintenanceTypeOK /\ FileTypes /\ AtWork /\ RestorePhase

\* What a file and its log hold is rows.
LEMMA RowsAreRows ==
    ASSUME NEW files \in DbFiles PROVE Rows(files) \in SUBSET FileRow
BY DEF Rows, DbFile, DbFiles

\* What closing the last connection leaves, and an audit row.
LEMMA SettledFiles ==
    ASSUME NEW files \in DbFiles
    PROVE  /\ Settled(files) \in DbFiles
           /\ Settled(files).db.id = files.db.id /\ Settled(files).db.rows = Rows(files)
           /\ Settled(files).wal = NoFile
BY RowsAreRows DEF Settled, NoFile, DbFile, DbFiles

LEMMA AuditedFiles ==
    ASSUME FileTypes, NEW row \in FileRow
    PROVE  /\ Audited(live, row) \in DbFiles
           /\ Audited(live, row).db.id = live.db.id
           /\ Audited(live, row).wal.id \in {0, live.db.id}
           /\ ~serverUp => /\ Audited(live, row).db.rows = Rows(live) \cup {row}
                           /\ Audited(live, row).wal = NoFile
<1> DEFINE written == [live EXCEPT !.wal = [id |-> live.db.id,
                          rows |-> (Rows(live) \ live.db.rows) \cup {row}]]
<1>1. live \in DbFiles /\ Rows(live) \in SUBSET FileRow
    BY RowsAreRows DEF FileTypes
<1>2. [id |-> live.db.id, rows |-> (Rows(live) \ live.db.rows) \cup {row}] \in DbFile
    BY <1>1 DEF DbFile, DbFiles
<1>3. /\ written \in DbFiles /\ written.db = live.db
      /\ written.wal = [id |-> live.db.id, rows |-> (Rows(live) \ live.db.rows) \cup {row}]
    BY <1>1, <1>2 DEF DbFiles
<1>4. Rows(written) = Rows(live) \cup {row}
    BY <1>3 DEF Rows
<1>5. Audited(live, row) = IF serverUp THEN written ELSE Settled(written)
    BY DEF Audited
<1> HIDE DEF written
<1>6. CASE serverUp
    BY <1>3, <1>5, <1>6
<1>7. CASE ~serverUp
    BY <1>3, <1>4, <1>5, <1>7, SettledFiles DEF NoFile
<1> QED BY <1>6, <1>7

\* Every file is one of those made.
MadeIn(n) ==
    /\ live.db.id \in 0..n /\ live.wal.id \in 0..n
    /\ old.db.id \in 0..n /\ old.wal.id \in 0..n /\ temp.id \in 0..n

LEMMA EveryFile == MaintenanceTypeOK => MadeIn(file)
BY DEF MadeIn, MaintenanceTypeOK

\* While no restore is under way there is nothing to say of one.
LEMMA NoRestore == AtWork /\ command.backup = 0 => RestorePhase
BY DEF AtWork, RestorePhase, AtStep, OriginalOrBackup, BackupSteps, Guarded

LEMMA NoRestoreNext == AtWork' /\ command'.backup = 0 => RestorePhase'
<1>1. (AtWork /\ command.backup = 0 => RestorePhase)'
    BY NoRestore, PTL
<1> QED BY <1>1

LEMMA FilesBegin == FilesInit => FilesInv
BY MaintenanceAssumption DEF FilesInit, FilesInv, MaintenanceTypeOK, FileTypes, AtWork, RestorePhase, NoCommand,
   NoFiles, NoFile, Exists, DbFile, DbFiles, Command, FileRow, Steps, Guarded, BackupSteps, AtStep, OriginalOrBackup

\* The server at work, beside a backup or alone.
LEMMA ServerKeepsFiles == FilesInv /\ ServerStep => FilesInv'
<1> SUFFICES ASSUME FilesInv, ServerStep PROVE FilesInv'
    OBVIOUS
<1> USE DEF FilesInv
<1>0. Rows(live) \in SUBSET FileRow /\ live \in DbFiles
    BY RowsAreRows DEF FileTypes
<1>1. CASE Start
    <2>1. /\ UNCHANGED <<old, temp, backups, command, restores, errors>>
          /\ serverUp' /\ command.backup = 0
        BY <1>1 DEF Start, AtWork, BackupSteps
    <2> DEFINE log == [id |-> live.db.id, rows |-> Rows(live) \ live.db.rows]
               none == [id |-> file + 1, rows |-> {}]
    <2>2. /\ log \in DbFile /\ log.id = live.db.id
          /\ none \in DbFile /\ none.id = file + 1 /\ Exists(none) /\ none.rows = {}
        BY <1>0 DEF FileTypes, DbFile, DbFiles, Exists
    <2>3. \/ live' = [live EXCEPT !.wal = log] /\ file' = file /\ Exists(live.db)
          \/ live' = [db |-> none, wal |-> none] /\ file' = file + 1
        BY <1>1 DEF Start
    <2> HIDE DEF log, none
    <2>4. /\ live' \in DbFiles
          /\ \/ live'.db = live.db /\ live'.wal = log /\ file' = file /\ Exists(live.db)
             \/ live'.db = none /\ live'.wal = none /\ file' = file + 1
        BY <1>0, <2>2, <2>3 DEF DbFiles
    <2>5. FileTypes'
        BY <2>1, <2>4 DEF FileTypes
    <2>6. MaintenanceTypeOK'
        <3>1. /\ live'.db.id \in 0..file' /\ live'.wal.id \in 0..file' /\ old.db.id \in 0..file'
              /\ old.wal.id \in 0..file' /\ temp.id \in 0..file'
            BY <2>2, <2>4, EveryFile DEF FileTypes, MadeIn
        <3>2. Exists(live'.db)
            BY <2>2, <2>4 DEF Exists
        <3> QED BY <2>1, <3>1, <3>2 DEF MaintenanceTypeOK
    <2>7. AtWork'
        BY <2>1, <2>2, <2>4 DEF AtWork, Exists, BackupSteps, AtStep
    <2> QED BY <2>1, <2>5, <2>6, <2>7, NoRestoreNext
<1>2. ASSUME NEW w \in Row, Write(w) PROVE FilesInv'
    <2>1. command' = command /\ command.backup = 0
        BY <1>2 DEF Write, AtWork
    <2>2. live.wal \in DbFile /\ w \in FileRow
        BY <1>0 DEF FileRow, DbFiles
    <2>3. [live.wal EXCEPT !.rows = @ \cup {w}] \in DbFile
          /\ [live.wal EXCEPT !.rows = @ \cup {w}].id = live.wal.id
        BY <2>2 DEF DbFile
    <2>4. live' = [live EXCEPT !.wal = [live.wal EXCEPT !.rows = @ \cup {w}]]
        BY <1>0, <1>2, <2>2 DEF Write, DbFile, DbFiles
    <2>5. live' \in DbFiles /\ live'.db = live.db /\ live'.wal.id = live.wal.id
        BY <1>0, <2>3, <2>4 DEF DbFiles
    <2>6. FileTypes'
        BY <1>2, <2>5 DEF FileTypes, Write
    <2>7. MaintenanceTypeOK'
        BY <1>2, <2>5 DEF MaintenanceTypeOK, Write, Exists
    <2>8. AtWork'
        BY <1>2, <2>5 DEF AtWork, Write, Exists, BackupSteps, AtStep
    <2> QED BY <2>1, <2>6, <2>7, <2>8, NoRestoreNext
<1>3. CASE Stop
    <2>1. /\ UNCHANGED <<old, temp, backups, command, file, restores, errors>>
          /\ serverUp /\ ~serverUp' /\ command.backup = 0
        BY <1>3 DEF Stop, AtWork
    <2>2. FileTypes' /\ live'.db.id = live.db.id /\ live'.wal.id \in {0, live.wal.id}
        BY <1>0, <1>3, <2>1, SettledFiles DEF FileTypes, Stop, NoFile
    <2>3. MaintenanceTypeOK'
        <3>1. /\ live'.db.id \in 0..file /\ live'.wal.id \in 0..file /\ old.db.id \in 0..file
              /\ old.wal.id \in 0..file /\ temp.id \in 0..file
            BY <2>2, EveryFile DEF FileTypes, MadeIn
        <3> QED BY <2>1, <3>1 DEF MaintenanceTypeOK
    <2>4. AtWork'
        BY <2>1, <2>2 DEF AtWork, Exists, BackupSteps, AtStep
    <2> QED BY <2>1, <2>2, <2>3, <2>4, NoRestoreNext
<1> QED BY <1>1, <1>2, <1>3 DEF ServerStep

\* A command that goes on to its next step.
LEMMA NextStep ==
    ASSUME command \in Command, NEW s \in Steps, StepTo(s)
    PROVE  /\ command' \in Command /\ command'.step = s
           /\ command'.backup = command.backup /\ command'.original = command.original
           /\ command'.failed = command.failed
BY DEF StepTo, Command

LEMMA TypesAgain ==
    ASSUME MadeIn(file)', FileTypes', command'.backup \in 0..Len(backups'),
           restores' \in 0..MaxRestores, errors' \in 0..MaxFaults,
           ~Exists(live.db)' => ~serverUp' \/ command'.step \notin {"idle", "describe", "audit backup"}
    PROVE  MaintenanceTypeOK'
<1>1. command'.step \in Steps
    BY DEF FileTypes, Command
<1>2. \A f \in {live'.db, live'.wal, old'.db, old'.wal, temp'} : f.id \in 0..file'
    BY DEF MadeIn
<1> QED BY <1>1, <1>2 DEF MaintenanceTypeOK

\* A backup, with the server at work or without.
LEMMA BackupKeepsFiles == FilesInv /\ BackupStep => FilesInv'
<1> SUFFICES ASSUME FilesInv, BackupStep PROVE FilesInv'
    OBVIOUS
<1> USE DEF FilesInv
<1>a. backups \in Seq(Backup) /\ Len(backups) \in Nat /\ \A i \in 1..Len(backups) : backups[i] \in Backup
    BY LenProperties, ElementOfSeq DEF FileTypes
<1>0. /\ Rows(live) \in SUBSET FileRow /\ MadeIn(file)
      /\ restores \in 0..MaxRestores /\ errors \in 0..MaxFaults
    <2>1. Rows(live) \in SUBSET FileRow
        BY RowsAreRows DEF FileTypes
    <2> QED BY <2>1, EveryFile DEF MaintenanceTypeOK
<1>1. CASE Copy
    <2>1. UNCHANGED <<serverUp, live, old, temp, file, restores, errors>>
        BY <1>1 DEF Copy
    <2>a. StepTo("describe") /\ command.backup = 0 /\ Exists(live.db)
        BY <1>1 DEF Copy, AtWork, AtStep
    <2>2. [rows |-> Rows(live), described |-> FALSE] \in Backup
        BY <1>0 DEF Backup
    <2>3. backups' \in Seq(Backup) /\ Len(backups') = Len(backups) + 1
        <3>1. backups' = Append(backups, [rows |-> Rows(live), described |-> FALSE])
            BY <1>1 DEF Copy
        <3> QED BY <1>a, <2>2, <3>1, AppendProperties
    <2>b. Len(backups') \in Nat /\ Len(backups') > 0
        BY <1>a, <2>3
    <2>4. command' \in Command /\ command'.step = "describe" /\ command'.backup = 0
        BY <2>a, NextStep DEF FileTypes, Steps
    <2>5. FileTypes'
        BY <2>1, <2>3, <2>4 DEF FileTypes
    <2>6. MaintenanceTypeOK'
        <3>1. MadeIn(file)'
            BY <1>0, <2>1 DEF MadeIn
        <3>2. command'.backup \in 0..Len(backups')
            <4>1. 0 \in 0..Len(backups')
                BY <2>b
            <4> QED BY <2>4, <4>1
        <3>3. Exists(live.db)'
            BY <2>1, <2>a
        <3> QED BY <1>0, <2>1, <2>5, <3>1, <3>2, <3>3, TypesAgain
    <2>7. AtWork'
        BY <2>1, <2>a, <2>b, <2>4 DEF AtWork, AtStep, BackupSteps, Guarded, Quarantining
    <2> QED BY <2>4, <2>5, <2>6, <2>7, NoRestoreNext
<1>2. CASE Describe
    <2>0. Len(backups) \in 1..Len(backups)
        <3>1. Len(backups) > 0
            BY <1>2 DEF Describe, AtWork, AtStep, BackupSteps
        <3> QED BY <1>a, <3>1
    <2>1. UNCHANGED <<serverUp, live, old, temp, file, restores, errors>>
        BY <1>2 DEF Describe
    <2>a. StepTo("audit backup") /\ command.backup = 0 /\ Exists(live.db)
        BY <1>2 DEF Describe, AtWork, AtStep, BackupSteps
    <2>2. [backups[Len(backups)] EXCEPT !.described = TRUE] \in Backup
        <3>1. backups[Len(backups)] \in Backup
            BY <1>a, <2>0
        <3> QED BY <3>1 DEF Backup
    <2>3. backups' \in Seq(Backup) /\ Len(backups') = Len(backups)
        <3> DEFINE last == [backups[Len(backups)] EXCEPT !.described = TRUE]
        <3>1. backups' = [backups EXCEPT ![Len(backups)] = last]
            BY <1>2 DEF Describe
        <3> HIDE DEF last
        <3>2. last \in Backup
            BY <2>2 DEF last
        <3> QED BY <1>a, <2>0, <3>1, <3>2, ExceptSeq
    <2>b. Len(backups') \in Nat /\ Len(backups') > 0
        BY <1>a, <2>0, <2>3
    <2>4. command' \in Command /\ command'.step = "audit backup" /\ command'.backup = 0
        BY <2>a, NextStep DEF FileTypes, Steps
    <2>5. FileTypes'
        BY <2>1, <2>3, <2>4 DEF FileTypes
    <2>6. MaintenanceTypeOK'
        <3>1. MadeIn(file)'
            BY <1>0, <2>1 DEF MadeIn
        <3>2. command'.backup \in 0..Len(backups')
            <4>1. 0 \in 0..Len(backups')
                BY <2>b
            <4> QED BY <2>4, <4>1
        <3>3. Exists(live.db)'
            BY <2>1, <2>a
        <3> QED BY <1>0, <2>1, <2>5, <3>1, <3>2, <3>3, TypesAgain
    <2>7. AtWork'
        BY <2>1, <2>a, <2>b, <2>4 DEF AtWork, AtStep, BackupSteps, Guarded, Quarantining
    <2> QED BY <2>4, <2>5, <2>6, <2>7, NoRestoreNext
<1>3. CASE AuditBackup
    <2>1. /\ UNCHANGED <<serverUp, old, temp, backups, file, restores, errors>>
          /\ command' = NoCommand /\ Exists(live.db)
          /\ live' = Audited(live, <<"backup", Len(backups)>>)
        BY <1>3 DEF AuditBackup, AtWork, AtStep, BackupSteps
    <2>2. <<"backup", Len(backups)>> \in FileRow
        BY <1>0 DEF FileRow
    <2>3. live' \in DbFiles /\ live'.db.id = live.db.id /\ live'.wal.id \in {0, live.db.id}
        BY <2>1, <2>2, AuditedFiles
    <2>4. command' \in Command /\ command'.step = "idle" /\ command'.backup = 0
        BY <2>1 DEF NoCommand, Command, Steps
    <2>5. FileTypes'
        BY <2>1, <2>3, <2>4 DEF FileTypes
    <2>6. MaintenanceTypeOK'
        <3>1. MadeIn(file)'
            BY <1>0, <2>1, <2>3 DEF MadeIn, FileTypes
        <3>2. Exists(live.db)'
            BY <2>1, <2>3 DEF Exists
        <3> QED BY <1>a, <1>0, <2>1, <2>3, <2>4, <2>5, <3>1, <3>2, TypesAgain
    <2>7. AtWork'
        BY <2>1, <2>3, <2>4 DEF AtWork, AtStep, BackupSteps, Guarded, Quarantining, Exists
    <2> QED BY <2>4, <2>5, <2>6, <2>7, NoRestoreNext
<1> QED BY <1>1, <1>2, <1>3 DEF BackupStep

\* A file put under one of two names.
LEMMA PutFile ==
    ASSUME NEW files \in DbFiles, NEW one \in DbFile
    PROVE  /\ [files EXCEPT !.db = one] \in DbFiles
           /\ [files EXCEPT !.db = one].db = one /\ [files EXCEPT !.db = one].wal = files.wal
           /\ [files EXCEPT !.wal = one] \in DbFiles
           /\ [files EXCEPT !.wal = one].wal = one /\ [files EXCEPT !.wal = one].db = files.db
BY DEF DbFiles

LEMMA NoFileIsAFile ==
    /\ NoFile \in DbFile /\ NoFile.id = 0 /\ NoFile.rows = {} /\ ~Exists(NoFile)
    /\ NoFiles \in DbFiles /\ NoFiles.db = NoFile /\ NoFiles.wal = NoFile
BY DEF NoFile, NoFiles, DbFile, DbFiles, Exists

\* What a database holds is told by its two files.
LEMMA RowsOfFiles ==
    ASSUME NEW f, NEW g, f.db = g.db, f.wal = g.wal PROVE Rows(f) = Rows(g)
BY DEF Rows

LEMMA FilesOfTypes ==
    FileTypes => /\ live.db \in DbFile /\ live.wal \in DbFile /\ old.db \in DbFile /\ old.wal \in DbFile
                 /\ temp \in DbFile /\ live \in DbFiles /\ old \in DbFiles /\ command \in Command
BY DEF FileTypes, DbFiles

LEMMA ZeroIsMade == FileTypes => 0 \in 0..file
BY DEF FileTypes

\* A step of a restore leaves the backups and their number alone.
LEMMA RestoreTypes ==
    ASSUME MaintenanceTypeOK, AtWork, command.backup # 0, FileTypes', MadeIn(file)',
           command'.backup = command.backup, UNCHANGED <<serverUp, backups, restores>>,
           errors' \in 0..MaxFaults
    PROVE  MaintenanceTypeOK'
<1>1. ~serverUp'
    BY DEF AtWork
<1>2. command'.backup \in 0..Len(backups') /\ restores' \in 0..MaxRestores
    BY DEF MaintenanceTypeOK
<1> QED BY <1>1, <1>2, TypesAgain

LEMMA BeginKeepsFiles ==
    ASSUME FilesInv, NEW b \in DOMAIN backups, BeginRestore(b) PROVE FilesInv'
<1> USE DEF FilesInv
<1>0. /\ Rows(live) \in SUBSET FileRow /\ MadeIn(file) /\ file \in Nat /\ MaxRestores \in Nat
      /\ restores \in 0..MaxRestores /\ errors \in 0..MaxFaults
    <2>1. Rows(live) \in SUBSET FileRow
        BY RowsAreRows DEF FileTypes
    <2> QED BY <2>1, EveryFile, MaintenanceAssumption DEF MaintenanceTypeOK, FileTypes
<1>a. b \in 1..Len(backups) /\ backups[b] \in Backup /\ b # 0 /\ b \in Nat
    <2>1. Len(backups) \in Nat /\ DOMAIN backups = 1..Len(backups)
        BY LenProperties DEF FileTypes
    <2>2. b \in 1..Len(backups)
        BY <2>1
    <2>3. backups[b] \in Backup
        BY <2>2, ElementOfSeq DEF FileTypes
    <2> QED BY <2>1, <2>2, <2>3
<1>1. UNCHANGED <<serverUp, live, backups, errors>>
    BY DEF BeginRestore
<1>2. temp' = [id |-> file + 1, rows |-> backups[b].rows] /\ old' = NoFiles
    BY DEF BeginRestore
<1>3. file' = file + 1 /\ restores' = restores + 1 /\ restores < MaxRestores
    BY DEF BeginRestore
<1>4. command' = [step |-> "quarantine db", backup |-> b, original |-> Rows(live), failed |-> "no"]
    BY DEF BeginRestore
<1>5. ~serverUp /\ ~serverUp'
    BY DEF BeginRestore
<1>6. temp' \in DbFile /\ temp'.id = file + 1 /\ temp'.rows = backups[b].rows /\ Exists(temp')
    BY <1>0, <1>a, <1>2 DEF DbFile, Backup, Exists
<1>7. /\ command' \in Command /\ command'.step = "quarantine db" /\ command'.backup = b
      /\ command'.original = Rows(live) /\ command'.failed = "no"
    BY <1>0, <1>a, <1>4 DEF Command, Steps, Guarded, Quarantining
<1>8. FileTypes'
    <2>1. file' \in Nat /\ restores' \in Nat
        BY <1>0, <1>3
    <2> QED BY <1>1, <1>2, <1>6, <1>7, <2>1, NoFileIsAFile DEF FileTypes
<1>9. MaintenanceTypeOK'
    <2>1. MadeIn(file)'
        BY <1>0, <1>1, <1>2, <1>3, <1>6, NoFileIsAFile DEF MadeIn
    <2>2. restores' \in 0..MaxRestores
        BY <1>0, <1>3
    <2>3. command'.backup \in 0..Len(backups')
        <3>1. b \in 0..Len(backups)
            BY <1>a
        <3> QED BY <1>1, <1>7, <3>1
    <2> QED BY <1>0, <1>1, <1>5, <1>8, <2>1, <2>2, <2>3, TypesAgain
<1>10. AtWork'
    <2>1. old'.db = NoFile
        BY <1>2, NoFileIsAFile
    <2> QED BY <1>a, <1>1, <1>5, <1>7, <2>1, NoFileIsAFile DEF AtWork, BackupSteps, AtStep
<1>11. RestorePhase'
    <2>1. Rows(live)' = command'.original /\ CopyIsReady'
        BY <1>1, <1>6, <1>7 DEF CopyIsReady
    <2> QED BY <1>2, <1>7, <2>1 DEF RestorePhase, AtStep
<1> QED BY <1>8, <1>9, <1>10, <1>11

\* The database and its log go to their quarantined names.
LEMMA QuarantineKeepsFiles == FilesInv /\ (QuarantineDb \/ QuarantineWal) => FilesInv'
<1> SUFFICES ASSUME FilesInv, QuarantineDb \/ QuarantineWal PROVE FilesInv'
    OBVIOUS
<1> USE DEF FilesInv
<1>0. MadeIn(file) /\ 0 \in 0..file /\ errors \in 0..MaxFaults
    BY EveryFile, ZeroIsMade DEF MaintenanceTypeOK
<1>1. CASE QuarantineDb
    <2>1. UNCHANGED <<serverUp, temp, backups, file, restores, errors>>
        BY <1>1 DEF QuarantineDb
    <2>2. /\ live' \in DbFiles /\ live'.db = NoFile /\ live'.wal = live.wal
          /\ old' \in DbFiles /\ old'.db = live.db /\ old'.wal = old.wal
        <3>1. old' = [old EXCEPT !.db = live.db] /\ live' = [live EXCEPT !.db = NoFile]
            BY <1>1 DEF QuarantineDb
        <3> QED BY <3>1, PutFile, FilesOfTypes, NoFileIsAFile
    <2>3. /\ Rows(live) = command.original /\ old.wal = NoFile /\ CopyIsReady
          /\ command.backup # 0 /\ ~serverUp /\ command.failed = "no"
        BY <1>1, NoFileIsAFile DEF QuarantineDb, RestorePhase, AtWork, AtStep, BackupSteps, Guarded,
           Quarantining
    <2>4. /\ command' \in Command /\ command'.step = "quarantine wal"
          /\ command'.backup = command.backup /\ command'.original = command.original
          /\ command'.failed = "no"
        BY <1>1, <2>3, NextStep, FilesOfTypes DEF QuarantineDb, Steps, Guarded, Quarantining
    <2>5. FileTypes'
        BY <2>1, <2>2, <2>4 DEF FileTypes
    <2>6. MaintenanceTypeOK'
        <3>1. MadeIn(file)'
            BY <1>0, <2>1, <2>2, NoFileIsAFile DEF MadeIn
        <3> QED BY <1>0, <2>1, <2>3, <2>4, <2>5, <3>1, RestoreTypes
    <2>7. AtWork'
        BY <2>1, <2>2, <2>3, <2>4, NoFileIsAFile DEF AtWork, AtStep, BackupSteps
    <2>8. RestorePhase'
        <3>1. CopyIsReady'
            BY <2>1, <2>3, <2>4 DEF CopyIsReady
        <3>2. Rows([db |-> old'.db, wal |-> live'.wal]) = command'.original
            BY <2>2, <2>3, <2>4, RowsOfFiles
        <3> QED BY <2>2, <2>3, <2>4, <3>1, <3>2 DEF RestorePhase, AtStep
    <2> QED BY <2>5, <2>6, <2>7, <2>8
<1>2. CASE QuarantineWal
    <2>1. UNCHANGED <<serverUp, temp, backups, file, restores, errors>>
        BY <1>2 DEF QuarantineWal
    <2>2. /\ live' \in DbFiles /\ live'.wal = NoFile /\ live'.db = live.db
          /\ old' \in DbFiles /\ old'.wal = live.wal /\ old'.db = old.db
        <3>1. old' = [old EXCEPT !.wal = live.wal] /\ live' = [live EXCEPT !.wal = NoFile]
            BY <1>2 DEF QuarantineWal
        <3> QED BY <3>1, PutFile, FilesOfTypes, NoFileIsAFile
    <2>3. /\ Rows([db |-> old.db, wal |-> live.wal]) = command.original /\ live.db = NoFile
          /\ CopyIsReady /\ command.backup # 0 /\ ~serverUp /\ command.failed = "no"
        BY <1>2 DEF QuarantineWal, RestorePhase, AtWork, AtStep, BackupSteps, Guarded, Quarantining
    <2>4. /\ command' \in Command /\ command'.step = "replace"
          /\ command'.backup = command.backup /\ command'.original = command.original
          /\ command'.failed = "no"
        BY <1>2, <2>3, NextStep, FilesOfTypes DEF QuarantineWal, Steps, Guarded, Quarantining
    <2>5. FileTypes'
        BY <2>1, <2>2, <2>4 DEF FileTypes
    <2>6. MaintenanceTypeOK'
        <3>1. MadeIn(file)'
            BY <1>0, <2>1, <2>2, <2>3, NoFileIsAFile DEF MadeIn
        <3> QED BY <1>0, <2>1, <2>3, <2>4, <2>5, <3>1, RestoreTypes
    <2>7. AtWork'
        BY <2>1, <2>2, <2>3, <2>4, NoFileIsAFile DEF AtWork, AtStep, BackupSteps
    <2>8. RestorePhase'
        <3>1. CopyIsReady'
            BY <2>1, <2>3, <2>4 DEF CopyIsReady
        <3>2. Rows(old') = command'.original
            BY <2>2, <2>3, <2>4, RowsOfFiles
        <3>3. live' = NoFiles
            <4>1. live' = [db |-> live'.db, wal |-> live'.wal]
                BY <2>2 DEF DbFiles
            <4> QED BY <2>2, <2>3, <4>1 DEF NoFiles
        <3> QED BY <2>4, <3>1, <3>2, <3>3 DEF RestorePhase, AtStep
    <2> QED BY <2>5, <2>6, <2>7, <2>8
<1> QED BY <1>1, <1>2

\* The copy takes the database's name, with nothing beside it.
LEMMA ReplaceKeepsFiles == FilesInv /\ ReplaceDb => FilesInv'
<1> SUFFICES ASSUME FilesInv, ReplaceDb PROVE FilesInv'
    OBVIOUS
<1> USE DEF FilesInv
<1>0. MadeIn(file) /\ 0 \in 0..file /\ errors \in 0..MaxFaults
    BY EveryFile, ZeroIsMade DEF MaintenanceTypeOK
<1>1. UNCHANGED <<serverUp, old, backups, file, restores, errors>> /\ temp' = NoFile
    BY DEF ReplaceDb
<1>2. live' \in DbFiles /\ live'.db = temp /\ live'.wal = live.wal
    <2>1. live' = [live EXCEPT !.db = temp]
        BY DEF ReplaceDb
    <2> QED BY <2>1, PutFile, FilesOfTypes
<1>3. /\ live = NoFiles /\ Rows(old) = command.original /\ CopyIsReady
      /\ command.backup # 0 /\ ~serverUp /\ command.failed = "no"
    BY DEF ReplaceDb, RestorePhase, AtWork, AtStep, BackupSteps, Guarded
<1>4. /\ command' \in Command /\ command'.step = "audit restore"
      /\ command'.backup = command.backup /\ command'.original = command.original
      /\ command'.failed = "no"
    BY <1>3, NextStep, FilesOfTypes DEF ReplaceDb, Steps, Guarded
<1>5. FileTypes'
    BY <1>1, <1>2, <1>4, NoFileIsAFile DEF FileTypes
<1>6. MaintenanceTypeOK'
    <2>1. MadeIn(file)'
        BY <1>0, <1>1, <1>2, <1>3, NoFileIsAFile DEF MadeIn
    <2> QED BY <1>0, <1>1, <1>3, <1>4, <1>5, <2>1, RestoreTypes
<1>7. AtWork'
    BY <1>1, <1>2, <1>3, <1>4 DEF AtWork, AtStep, BackupSteps, CopyIsReady
<1>8. RestorePhase'
    BY <1>1, <1>2, <1>3, <1>4, NoFileIsAFile DEF RestorePhase, AtStep, CopyIsReady
<1> QED BY <1>5, <1>6, <1>7, <1>8

\* The audit row of the restore goes into the backup now in place.
LEMMA AuditKeepsFiles == FilesInv /\ AuditRestore => FilesInv'
<1> SUFFICES ASSUME FilesInv, AuditRestore PROVE FilesInv'
    OBVIOUS
<1> USE DEF FilesInv
<1>0. MadeIn(file) /\ errors \in 0..MaxFaults /\ <<"restore", restores>> \in FileRow
    BY EveryFile DEF MaintenanceTypeOK, FileTypes, FileRow
<1>1. /\ UNCHANGED <<serverUp, old, temp, backups, file, restores, errors>>
      /\ live' = Audited(live, <<"restore", restores>>)
    BY DEF AuditRestore
<1>2. /\ live.db.rows = backups[command.backup].rows /\ Exists(live.db)
      /\ live.wal = NoFile /\ temp = NoFile /\ Rows(old) = command.original
      /\ command.backup # 0 /\ ~serverUp /\ command.failed = "no"
    BY DEF AuditRestore, RestorePhase, AtWork, AtStep, BackupSteps, Guarded
<1>3. /\ live' \in DbFiles /\ live'.db.id = live.db.id /\ live'.wal = NoFile
      /\ live'.db.rows = Rows(live) \cup {<<"restore", restores>>}
    BY <1>0, <1>1, <1>2, AuditedFiles
<1>4. /\ command' \in Command /\ command'.step = "delete"
      /\ command'.backup = command.backup /\ command'.original = command.original
      /\ command'.failed = "no"
    BY <1>2, NextStep, FilesOfTypes DEF AuditRestore, Steps
<1>5. FileTypes'
    BY <1>1, <1>3, <1>4 DEF FileTypes
<1>6. MaintenanceTypeOK'
    <2>1. MadeIn(file)'
        BY <1>0, <1>1, <1>2, <1>3, NoFileIsAFile DEF MadeIn
    <2> QED BY <1>0, <1>1, <1>2, <1>4, <1>5, <2>1, RestoreTypes
<1>7. AtWork'
    BY <1>1, <1>2, <1>3, <1>4 DEF AtWork, AtStep, BackupSteps, Exists
<1>8. RestorePhase'
    <2>1. Rows(live) = live.db.rows
        BY <1>2, NoFileIsAFile DEF Rows
    <2>2. Rows(live') = live'.db.rows
        BY <1>3, NoFileIsAFile DEF Rows
    <2>3. Restored'
        BY <1>1, <1>2, <1>3, <1>4, <2>1, <2>2 DEF Restored
    <2> QED BY <1>1, <1>2, <1>4, <2>3 DEF RestorePhase, AtStep
<1> QED BY <1>5, <1>6, <1>7, <1>8

\* The quarantined files are deleted once the backup is in place.
LEMMA DeleteKeepsFiles == FilesInv /\ DeleteOld => FilesInv'
<1> SUFFICES ASSUME FilesInv, DeleteOld PROVE FilesInv'
    OBVIOUS
<1> USE DEF FilesInv
<1>0. MadeIn(file) /\ 0 \in 0..file /\ errors \in 0..MaxFaults
    BY EveryFile, ZeroIsMade DEF MaintenanceTypeOK
<1>1. UNCHANGED <<serverUp, live, temp, backups, file, restores, errors>>
    BY DEF DeleteOld
<1>2. /\ Restored /\ temp = NoFile /\ command.backup # 0 /\ ~serverUp /\ command.failed = "no"
      /\ command.step = "delete"
    BY DEF DeleteOld, RestorePhase, AtWork, AtStep, BackupSteps
<1>3. old' \in DbFiles /\ old'.db = NoFile /\ old'.wal \in {old.wal, NoFile}
    <2>1. old' = [old EXCEPT !.db = NoFile] \/ old' = NoFiles
        BY DEF DeleteOld
    <2>2. CASE old' = [old EXCEPT !.db = NoFile]
        BY <2>2, PutFile, FilesOfTypes, NoFileIsAFile
    <2>3. CASE old' = NoFiles
        BY <2>3, NoFileIsAFile
    <2> QED BY <2>1, <2>2, <2>3
<1>4. /\ command' \in Command /\ command'.step \in {"delete", "restored"}
      /\ command'.backup = command.backup /\ command'.original = command.original
      /\ command'.failed = "no"
    BY <1>2, NextStep, FilesOfTypes DEF DeleteOld, Steps
<1>5. FileTypes'
    BY <1>1, <1>3, <1>4 DEF FileTypes
<1>6. MaintenanceTypeOK'
    <2>1. MadeIn(file)'
        BY <1>0, <1>1, <1>3, NoFileIsAFile DEF MadeIn
    <2> QED BY <1>0, <1>1, <1>2, <1>4, <1>5, <2>1, RestoreTypes
<1>7. AtWork'
    BY <1>1, <1>2, <1>3, <1>4, NoFileIsAFile DEF AtWork, AtStep, BackupSteps
<1>8. RestorePhase'
    <2>1. Restored'
        BY <1>1, <1>2, <1>4 DEF Restored
    <2> QED BY <1>1, <1>2, <1>4, <2>1 DEF RestorePhase, AtStep
<1> QED BY <1>5, <1>6, <1>7, <1>8

\* What was quarantined moves back under the live names.
LEMMA UndoKeepsFiles == FilesInv /\ (Unlink \/ MoveBack) => FilesInv'
<1> SUFFICES ASSUME FilesInv, Unlink \/ MoveBack PROVE FilesInv'
    OBVIOUS
<1> USE DEF FilesInv
<1>0. MadeIn(file) /\ 0 \in 0..file /\ errors \in 0..MaxFaults
    BY EveryFile, ZeroIsMade DEF MaintenanceTypeOK
<1>1. CASE Unlink
    <2>1. UNCHANGED <<serverUp, old, temp, backups, file, restores, errors>> /\ live' = NoFiles
        BY <1>1 DEF Unlink
    <2>2. /\ command.failed \in Undone => Rows(old) = command.original
          /\ command.backup # 0 /\ ~serverUp /\ command.failed \in Guarded
        BY <1>1 DEF Unlink, RestorePhase, AtWork, AtStep, BackupSteps, Guarded
    <2>3. /\ command' \in Command /\ command'.step = "move back"
          /\ command'.backup = command.backup /\ command'.original = command.original
          /\ command'.failed = command.failed
        BY <1>1, NextStep, FilesOfTypes DEF Unlink, Steps
    <2>4. FileTypes'
        BY <2>1, <2>3, NoFileIsAFile DEF FileTypes
    <2>5. MaintenanceTypeOK'
        <3>1. MadeIn(file)'
            BY <1>0, <2>1, NoFileIsAFile DEF MadeIn
        <3> QED BY <1>0, <2>1, <2>2, <2>3, <2>4, <3>1, RestoreTypes
    <2>6. AtWork'
        BY <2>1, <2>2, <2>3, NoFileIsAFile DEF AtWork, AtStep, BackupSteps, Guarded, Quarantining
    <2>7. Rows([db |-> IF Exists(old.db) THEN old.db ELSE NoFile, wal |-> old.wal]) = Rows(old)
        <3>1. CASE Exists(old.db)
            BY <3>1, RowsOfFiles
        <3>2. CASE ~Exists(old.db)
            <4>1. old.db.rows = {} /\ old.db.id = 0
                BY <3>2 DEF AtWork, Exists
            <4> QED BY <3>2, <4>1, NoFileIsAFile DEF Rows
        <3> QED BY <3>1, <3>2
    <2>8. RestorePhase'
        BY <2>1, <2>2, <2>3, <2>7, NoFileIsAFile DEF RestorePhase, AtStep
    <2> QED BY <2>4, <2>5, <2>6, <2>8
<1>2. CASE MoveBack
    <2>1. UNCHANGED <<serverUp, backups, file, restores, errors>>
        BY <1>2 DEF MoveBack
    <2>2. /\ command.failed \in Undone =>
                Rows([db |-> IF Exists(old.db) THEN old.db ELSE live.db, wal |-> old.wal])
                    = command.original
          /\ command.backup # 0 /\ ~serverUp /\ command.failed \in Guarded
          /\ command.step = "move back"
        BY <1>2 DEF MoveBack, RestorePhase, AtWork, AtStep, BackupSteps, Guarded
    <2>3. CASE Exists(old.db)
        <3>1. command' = command /\ temp' = temp
            BY <1>2, <2>3 DEF MoveBack
        <3>2. /\ live' \in DbFiles /\ live'.db = old.db /\ live'.wal = live.wal
              /\ old' \in DbFiles /\ old'.db = NoFile /\ old'.wal = old.wal
            <4>1. live' = [live EXCEPT !.db = old.db] /\ old' = [old EXCEPT !.db = NoFile]
                BY <1>2, <2>3 DEF MoveBack
            <4> QED BY <4>1, PutFile, FilesOfTypes, NoFileIsAFile
        <3>3. FileTypes'
            BY <2>1, <3>1, <3>2 DEF FileTypes
        <3>4. MaintenanceTypeOK'
            <4>1. MadeIn(file)'
                BY <1>0, <2>1, <3>1, <3>2, NoFileIsAFile DEF MadeIn
            <4> QED BY <1>0, <2>1, <2>2, <3>1, <3>3, <4>1, RestoreTypes
        <3>5. AtWork'
            BY <2>1, <2>2, <2>3, <3>1, <3>2, NoFileIsAFile DEF AtWork, AtStep, BackupSteps
        <3>6. RestorePhase'
            <4>1. ~Exists(old'.db)
                BY <3>2, NoFileIsAFile
            <4>2. Rows([db |-> live'.db, wal |-> old'.wal]) = Rows([db |-> old.db, wal |-> old.wal])
                BY <3>2
            <4> QED BY <2>2, <2>3, <3>1, <4>1, <4>2 DEF RestorePhase, AtStep
        <3> QED BY <3>3, <3>4, <3>5, <3>6
    <2>4. CASE ~Exists(old.db)
        <3>1. old' = NoFiles /\ temp' = NoFile
            BY <1>2, <2>4 DEF MoveBack
        <3>2. live' \in DbFiles /\ live'.db = live.db /\ live'.wal = old.wal
            <4>1. live' = [live EXCEPT !.wal = old.wal]
                BY <1>2, <2>4 DEF MoveBack
            <4> QED BY <4>1, PutFile, FilesOfTypes
        <3>3. /\ command' \in Command /\ command'.step = "raised"
              /\ command'.backup = command.backup /\ command'.original = command.original
              /\ command'.failed = command.failed
            BY <1>2, <2>4, NextStep, FilesOfTypes DEF MoveBack, Steps
        <3>4. FileTypes'
            BY <2>1, <3>1, <3>2, <3>3, NoFileIsAFile DEF FileTypes
        <3>5. MaintenanceTypeOK'
            <4>1. MadeIn(file)'
                BY <1>0, <2>1, <3>1, <3>2, NoFileIsAFile DEF MadeIn
            <4> QED BY <1>0, <2>1, <2>2, <3>3, <3>4, <4>1, RestoreTypes
        <3>6. AtWork'
            BY <2>1, <2>2, <3>1, <3>2, <3>3, NoFileIsAFile DEF AtWork, AtStep, BackupSteps, Guarded,
               Quarantining
        <3>7. RestorePhase'
            <4>1. Rows(live') = Rows([db |-> live.db, wal |-> old.wal])
                BY <3>2, RowsOfFiles
            <4> QED BY <2>2, <2>4, <3>3, <4>1 DEF RestorePhase, AtStep, Guarded, Quarantining
        <3> QED BY <3>4, <3>5, <3>6, <3>7
    <2> QED BY <2>3, <2>4
<1> QED BY <1>1, <1>2

\* A command that has ended makes room for the next one.
LEMMA ReturnKeepsFiles == FilesInv /\ Return => FilesInv'
<1> SUFFICES ASSUME FilesInv, Return PROVE FilesInv'
    OBVIOUS
<1> USE DEF FilesInv
<1>1. /\ UNCHANGED <<serverUp, live, old, temp, backups, file, restores, errors>>
      /\ command' = NoCommand
    BY DEF Return
<1>2. /\ command' \in Command /\ command'.step = "idle" /\ command'.backup = 0
    BY <1>1 DEF NoCommand, Command, Steps
<1>3. FileTypes'
    BY <1>1, <1>2 DEF FileTypes
<1>4. MaintenanceTypeOK'
    <2>1. MadeIn(file)'
        BY <1>1, EveryFile DEF MadeIn
    <2>2. 0 \in 0..Len(backups')
        BY <1>3, LenProperties DEF FileTypes
    <2>3. restores' \in 0..MaxRestores /\ errors' \in 0..MaxFaults
        BY <1>1 DEF MaintenanceTypeOK
    <2>4. ~Exists(live.db)' => ~serverUp'
        BY <1>1 DEF AtWork
    <2> QED BY <1>2, <1>3, <2>1, <2>2, <2>3, <2>4, TypesAgain
<1>5. AtWork'
    BY <1>1, <1>2 DEF AtWork, AtStep, BackupSteps, Guarded, Quarantining
<1> QED BY <1>2, <1>3, <1>4, <1>5, NoRestoreNext

-----------------------------------------------------------------------------
(* What the invariant says of a restore that ended and of one cut off.     *)

LEMMA RestoreEndsWhole == AtWork /\ RestorePhase => RestoreIsWhole
BY DEF RestorePhase, RestoreIsWhole, AtStep, Undone

LEMMA SomethingIsThere == FileTypes /\ AtWork /\ RestorePhase => OriginalOrBackup
<1> SUFFICES ASSUME FileTypes, AtWork, RestorePhase, command.backup # 0, command.failed \notin Quarantining
             PROVE  \/ backups[command.backup].rows \subseteq Rows(live) /\ ~Exists(temp)
                    \/ OriginalIsThere
    BY DEF OriginalOrBackup, OriginalIsThere
<1>0. command.step \in Steps \ ({"idle"} \cup BackupSteps)
    <2>1. command.step \in Steps
        BY DEF FileTypes, Command
    <2> QED BY <2>1 DEF AtWork
<1>a. ASSUME NEW f \in {live.db, old.db}, NEW g \in {live.wal, old.wal},
             Rows([db |-> f, wal |-> g]) = command.original
      PROVE  OriginalIsThere
    BY <1>a DEF OriginalIsThere
<1>b. Rows([db |-> live.db, wal |-> live.wal]) = Rows(live) /\ Rows([db |-> old.db, wal |-> old.wal]) = Rows(old)
    BY RowsOfFiles
<1>1. CASE Rows(live) = command.original \/ Rows(old) = command.original
    BY <1>a, <1>b, <1>1
<1>2. CASE Restored /\ temp = NoFile
    BY <1>2, NoFileIsAFile DEF Restored
<1>3. CASE AtStep("killed")
    BY <1>3 DEF RestorePhase, OriginalOrBackup, OriginalIsThere
<1>4. CASE AtStep("quarantine wal")
    BY <1>a, <1>4 DEF RestorePhase
<1>5. CASE AtStep("move back")
    <2>1. command.failed \in Undone
        BY <1>5 DEF AtWork, AtStep, Guarded, Undone
    <2>2. Rows([db |-> IF Exists(old.db) THEN old.db ELSE live.db, wal |-> old.wal]) = command.original
        BY <1>5, <2>1 DEF RestorePhase
    <2> QED BY <1>a, <2>2
<1>6. CASE AtStep("raised")
    <2>1. command.failed \in {"no", "undo", "delete"} \cup Undone
        BY DEF FileTypes, Command, Guarded, Undone
    <2> QED BY <1>1, <1>2, <1>6, <2>1 DEF RestorePhase
<1>7. CASE AtStep("unlink")
    <2>1. command.failed \in Undone
        BY <1>7 DEF AtWork, AtStep, Guarded, Undone
    <2> QED BY <1>1, <1>7, <2>1 DEF RestorePhase
<1>8. CASE AtStep("quarantine db") \/ AtStep("replace") \/ AtStep("audit restore")
    BY <1>1, <1>8 DEF RestorePhase
<1>9. CASE AtStep("delete") \/ AtStep("restored")
    BY <1>2, <1>9 DEF RestorePhase
<1> QED BY <1>0, <1>3, <1>4, <1>5, <1>6, <1>7, <1>8, <1>9 DEF Steps, BackupSteps, Guarded, Quarantining, AtStep

-----------------------------------------------------------------------------
(* Errors and kills.                                                       *)

\* An error of a backup ends it; one of a restore begins to put the original back, or
\* is raised.
LEMMA ErrorKeepsFiles == FilesInv /\ Error => FilesInv'
<1> SUFFICES ASSUME FilesInv, Error PROVE FilesInv'
    OBVIOUS
<1> USE DEF FilesInv
<1>0. /\ MadeIn(file) /\ 0 \in 0..file /\ restores \in 0..MaxRestores /\ errors' \in 0..MaxFaults
      /\ errors' \in Nat
    <2>1. errors < MaxFaults /\ errors' = errors + 1 /\ errors \in Nat /\ MaxFaults \in Nat
        BY MaintenanceAssumption DEF Error, FileTypes
    <2>2. errors' \in 0..MaxFaults /\ errors' \in Nat
        BY <2>1
    <2> QED BY <2>2, EveryFile, ZeroIsMade DEF MaintenanceTypeOK
<1>1. UNCHANGED <<serverUp, old, backups, file, restores>>
    BY DEF Error
<1>2. CASE command.step \in BackupSteps /\ command' = NoCommand /\ UNCHANGED <<live, temp>>
    <2>1. /\ command' \in Command /\ command'.step = "idle" /\ command'.backup = 0
        BY <1>2 DEF NoCommand, Command, Steps
    <2>2. FileTypes'
        BY <1>0, <1>1, <1>2, <2>1 DEF FileTypes
    <2>3. MaintenanceTypeOK'
        <3>1. MadeIn(file)'
            BY <1>0, <1>1, <1>2 DEF MadeIn
        <3>2. 0 \in 0..Len(backups')
            BY <2>2, LenProperties DEF FileTypes
        <3>3. restores' \in 0..MaxRestores
            BY <1>0, <1>1
        <3>4. ~Exists(live.db)' => ~serverUp'
            BY <1>1, <1>2 DEF AtWork
        <3> QED BY <1>0, <2>1, <2>2, <3>1, <3>2, <3>3, <3>4, TypesAgain
    <2>4. AtWork'
        BY <1>1, <1>2, <2>1 DEF AtWork, AtStep, BackupSteps, Guarded, Quarantining
    <2> QED BY <2>1, <2>2, <2>3, <2>4, NoRestoreNext
<1>3. ASSUME command.step \in Guarded,
             command' = [command EXCEPT !.step = "unlink", !.failed = command.step],
             \/ UNCHANGED live
             \/ AtStep("audit restore") /\ live' = [live EXCEPT !.wal = [id |-> live.db.id, rows |-> {}]],
             temp' = temp
      PROVE  FilesInv'
    <2>1. live' \in DbFiles /\ live'.db = live.db /\ live'.wal.id \in {live.wal.id, live.db.id}
        <3>1. CASE live' = live
            BY <3>1, FilesOfTypes
        <3>2. CASE live' = [live EXCEPT !.wal = [id |-> live.db.id, rows |-> {}]]
            <4> DEFINE log == [id |-> live.db.id, rows |-> {}]
            <4>1. log \in DbFile /\ log.id = live.db.id
                BY FilesOfTypes DEF DbFile
            <4>2. live' = [live EXCEPT !.wal = log]
                BY <3>2
            <4> HIDE DEF log
            <4> QED BY <4>1, <4>2, PutFile, FilesOfTypes
        <3> QED BY <1>3, <3>1, <3>2
    <2>2. command.backup # 0 /\ ~serverUp
        BY <1>3 DEF AtWork, BackupSteps, Guarded, Quarantining
    <2>3. /\ command' \in Command /\ command'.step = "unlink" /\ command'.failed = command.step
          /\ command'.backup = command.backup /\ command'.original = command.original
        BY <1>3, FilesOfTypes DEF Command, Steps
    <2>4. FileTypes'
        BY <1>0, <1>1, <1>3, <2>1, <2>3 DEF FileTypes
    <2>5. MaintenanceTypeOK'
        <3>1. MadeIn(file)'
            BY <1>0, <1>1, <1>3, <2>1 DEF MadeIn
        <3> QED BY <1>0, <1>1, <2>2, <2>3, <2>4, <3>1, RestoreTypes
    <2>6. AtWork'
        BY <1>1, <1>3, <2>1, <2>2, <2>3 DEF AtWork, AtStep, BackupSteps, Guarded, Quarantining
    <2>7. RestorePhase'
        <3>1. command.step \in Undone => Rows(old) = command.original
            BY DEF RestorePhase, AtStep, Undone
        <3> QED BY <1>1, <2>3, <3>1 DEF RestorePhase, AtStep
    <2> QED BY <2>4, <2>5, <2>6, <2>7
<1>4. ASSUME command.step \in {"delete", "unlink", "move back"},
             command' = [command EXCEPT !.step = "raised",
                             !.failed = IF AtStep("delete") THEN "delete"
                                        ELSE IF command.failed \in Quarantining THEN @ ELSE "undo"],
             temp' = NoFile, live' = live
      PROVE  FilesInv'
    <2>1. command.backup # 0 /\ ~serverUp
        BY <1>4 DEF AtWork, BackupSteps, Guarded, Quarantining
    <2>2. /\ command' \in Command /\ command'.step = "raised"
          /\ command'.backup = command.backup /\ command'.original = command.original
          /\ command'.failed = IF AtStep("delete") THEN "delete"
                               ELSE IF command.failed \in Quarantining THEN command.failed ELSE "undo"
        BY <1>4, FilesOfTypes DEF Command, Steps
    <2>3. FileTypes'
        BY <1>0, <1>1, <1>4, <2>2, NoFileIsAFile DEF FileTypes
    <2>4. MaintenanceTypeOK'
        <3>1. MadeIn(file)'
            BY <1>0, <1>1, <1>4, NoFileIsAFile DEF MadeIn
        <3> QED BY <1>0, <1>1, <2>1, <2>2, <2>3, <3>1, RestoreTypes
    <2>5. AtWork'
        BY <1>1, <1>4, <2>1, <2>2 DEF AtWork, AtStep, BackupSteps, Guarded, Quarantining
    <2>6. RestorePhase'
        <3>1. AtStep("delete") => Restored'
            BY <1>1, <1>4, <2>2 DEF RestorePhase, Restored
        <3>2. ~AtStep("delete") /\ command.failed \notin Quarantining => OriginalIsThere'
            <4>1. SUFFICES ASSUME ~AtStep("delete"), command.failed \notin Quarantining
                           PROVE  OriginalIsThere
                BY <1>1, <1>4, <2>2 DEF OriginalIsThere
            <4>2. command.failed \in Undone
                BY <1>4, <4>1 DEF AtWork, AtStep, Guarded, Undone
            <4>3. CASE command.step = "unlink"
                <5>1. Rows([db |-> old.db, wal |-> old.wal]) = command.original
                    BY <4>2, <4>3, RowsOfFiles DEF RestorePhase, AtStep
                <5> QED BY <5>1 DEF OriginalIsThere
            <4>4. CASE command.step = "move back"
                <5>1. Rows([db |-> IF Exists(old.db) THEN old.db ELSE live.db, wal |-> old.wal])
                          = command.original
                    BY <4>2, <4>4 DEF RestorePhase, AtStep
                <5> QED BY <5>1 DEF OriginalIsThere
            <4> QED BY <1>4, <4>1, <4>3, <4>4 DEF AtStep
        <3>3. /\ command'.failed \notin {"no"} \cup Undone
              /\ command'.failed = "delete" => AtStep("delete")
              /\ command'.failed = "undo" => ~AtStep("delete") /\ command.failed \notin Quarantining
            BY <2>2 DEF Undone, Quarantining
        <3> QED BY <1>4, <2>2, <3>1, <3>2, <3>3 DEF RestorePhase, AtStep
    <2> QED BY <2>3, <2>4, <2>5, <2>6
<1> QED BY <1>2, <1>3, <1>4 DEF Error, BackupSteps

\* A killed command leaves the files as they are.
LEMMA KillKeepsFiles == FilesInv /\ Kill => FilesInv'
<1> SUFFICES ASSUME FilesInv, Kill PROVE FilesInv'
    OBVIOUS
<1> USE DEF FilesInv
<1>0. errors' \in 0..MaxFaults /\ errors' \in Nat
    <2>1. errors < MaxFaults /\ errors' = errors + 1 /\ errors \in Nat /\ MaxFaults \in Nat
        BY MaintenanceAssumption DEF Kill, FileTypes
    <2> QED BY <2>1
<1>1. UNCHANGED <<serverUp, live, old, temp, backups, file, restores>>
    BY DEF Kill
<1>2. /\ command' \in Command /\ command'.step = "killed"
      /\ command'.backup = command.backup /\ command'.original = command.original
      /\ command'.failed = command.failed
    BY NextStep, FilesOfTypes DEF Kill, Steps
<1>3. FileTypes'
    BY <1>0, <1>1, <1>2 DEF FileTypes
<1>4. MaintenanceTypeOK'
    <2>1. MadeIn(file)'
        BY <1>1, EveryFile DEF MadeIn
    <2>2. command'.backup \in 0..Len(backups') /\ restores' \in 0..MaxRestores
        BY <1>1, <1>2 DEF MaintenanceTypeOK
    <2>3. ~Exists(live.db)' => ~serverUp'
        BY <1>1 DEF AtWork
    <2> QED BY <1>0, <1>3, <2>1, <2>2, <2>3, TypesAgain
<1>5. AtWork'
    BY <1>1, <1>2 DEF AtWork, AtStep, BackupSteps, Guarded, Quarantining
<1>6. RestorePhase'
    <2>1. OriginalOrBackup'
        BY <1>1, <1>2, SomethingIsThere DEF OriginalOrBackup
    <2> QED BY <1>2, <2>1 DEF RestorePhase, AtStep
<1> QED BY <1>3, <1>4, <1>5, <1>6

LEMMA FilesStep == FilesInv /\ [FilesNext]_fileVars => FilesInv'
<1> SUFFICES ASSUME FilesInv, [FilesNext]_fileVars PROVE FilesInv'
    OBVIOUS
<1>1. CASE UNCHANGED fileVars
    <2>1. UNCHANGED <<serverUp, live, old, temp, backups, command, file, restores, errors>>
        BY <1>1 DEF fileVars
    <2>2. MaintenanceTypeOK' /\ FileTypes'
        BY <2>1 DEF FilesInv, MaintenanceTypeOK, FileTypes
    <2>3. AtWork'
        BY <2>1 DEF FilesInv, AtWork, AtStep
    <2>4. RestorePhase'
        BY <2>1 DEF FilesInv, RestorePhase, AtStep, OriginalOrBackup, OriginalIsThere, CopyIsReady, Restored
    <2> QED BY <2>2, <2>3, <2>4 DEF FilesInv
<1>2. ASSUME RestoreStep PROVE FilesInv'
    BY <1>2, BeginKeepsFiles, QuarantineKeepsFiles, ReplaceKeepsFiles, AuditKeepsFiles, DeleteKeepsFiles,
       UndoKeepsFiles, ReturnKeepsFiles DEF RestoreStep
<1> QED BY <1>1, <1>2, ServerKeepsFiles, BackupKeepsFiles, ErrorKeepsFiles, KillKeepsFiles DEF FilesNext

LEMMA FilesInvHolds == FilesSpec => []FilesInv
BY FilesBegin, FilesStep, PTL DEF FilesSpec

\* A restore that returns has put the whole backup in place, one that fails after the
\* quarantine the whole original, and wherever a restore is, or was killed, the backup is in
\* place or the original is still there, log included (restore_workbench).
THEOREM RestoresKeepADatabase == FilesSpec => []RestoreKeepsADatabase
<1>1. FilesInv => RestoreKeepsADatabase
    BY RestoreEndsWhole, SomethingIsThere DEF FilesInv, RestoreKeepsADatabase
<1> QED BY <1>1, FilesInvHolds, PTL

----------------------------------------------------------------------------
(* The session page: what it has read is as new as the last event it has   *)
(* handled, whatever of the lanes and reviews changes under it.            *)

\* The first of some numbers.
LEMMA FirstOf ==
    ASSUME NEW S, S \subseteq Nat, S # {}
    PROVE  Min(S) \in S
<1>1. \E x \in S : \A y \in S : ~(<<y, x>> \in OpToRel(<, Nat))
    BY WFMin, NatLessThanWellFounded
<1>2. \A x \in Nat, y \in Nat : <<y, x>> \in OpToRel(<, Nat) <=> y < x
    BY DEF OpToRel
<1>3. PICK x \in S : \A y \in S : <<y, x>> \notin OpToRel(<, Nat)
    BY <1>1
<1>4. \A y \in S : x <= y
    <2> TAKE y \in S
    <2>1. x \in Nat /\ y \in Nat
        BY <1>3
    <2>2. ~(y < x)
        BY <1>2, <1>3, <2>1
    <2> QED BY <2>1, <2>2
<1> QED BY <1>3, <1>4 DEF Min

Ahead == {i \in (page.at + 1)..Len(events) : events[i] = "session"}

LEMMA NextEventIsAhead ==
    ASSUME page.at \in Nat, Len(events) \in Nat
    PROVE  /\ NextEvent = 0 => Ahead = {}
           /\ NextEvent # 0 => NextEvent \in Ahead
<1>1. NextEvent = IF Ahead # {} THEN Min(Ahead) ELSE 0
    BY DEF NextEvent, SelectInSubSeq, Ahead
<1>2. Ahead \subseteq Nat /\ \A i \in Ahead : i # 0
    BY DEF Ahead
<1> HIDE DEF Ahead
<1> QED BY <1>1, <1>2, FirstOf

-----------------------------------------------------------------------------
(* The tables and what a page has read of them.                            *)

\* A record of tables is told by its four fields.
IsTables(t) == t \in [run : {t.run}, linked : {t.linked}, lane : {t.lane}, items : {t.items}]

LEMMA SameTables ==
    ASSUME NEW s, NEW t, IsTables(s), IsTables(t), s.run = t.run, s.linked = t.linked,
           s.lane = t.lane, s.items = t.items
    PROVE  s = t
BY DEF IsTables

LEMMA TablesAreTables ==
    /\ IsTables(Tables) /\ Tables.run = run /\ Tables.linked = linked
    /\ Tables.lane = lane /\ Tables.items = items
BY DEF IsTables, Tables

Runs == [Kind -> [status : {"queued", "blocked", "running", "completed", "failed"},
                  auth : {"not_required", "login_required"},
                  warning : {"none", "login", "blocked", "partial", "failed"}]]
Jobs == [AnyJob -> {"never", "absent", "queued", "running", "ended"}]
LaneRow == {NoLane} \cup [seq : 1..2, status : {"completed", "partial", "blocked"}]
Queries == {"idle", "asked", "half", "read", "failed"}
Pages == [open : BOOLEAN, at : Nat, query : Queries]

ItemsOK == DOMAIN items \subseteq Item /\ \A i \in DOMAIN items : items[i] \in {"new", "promising", "rejected"}

StoreTypes ==
    /\ run \in Runs /\ job \in Jobs /\ lane \in [LaneJob -> LaneRow] /\ ItemsOK
    /\ events \in Seq({"session", "no session"})
    /\ reviews \in Nat /\ mishaps \in Nat
Flags == linked \in BOOLEAN /\ untold \in BOOLEAN
PageTypes == page \in Pages /\ page.at <= Len(events) /\ IsTables(reading) /\ IsTables(shown)

\* What a page's request has read, unless an event is still to come or a change told
\* nobody here.
ReadIsCurrent ==
    Ahead = {} /\ ~untold =>
        /\ page.query = "half" => reading.run = run /\ reading.linked = linked
        /\ page.query = "read" => reading = Tables
        /\ page.query = "idle" => shown = Tables

BoardInv == StoreTypes /\ Flags /\ PageTypes /\ ReadIsCurrent

LEMMA BoardTypes == StoreTypes /\ Flags /\ PageTypes => BoardTypeOK
<1> SUFFICES ASSUME StoreTypes, Flags, PageTypes PROVE BoardTypeOK
    OBVIOUS
<1>1. run \in Runs /\ job \in Jobs /\ lane \in [LaneJob -> LaneRow] /\ ItemsOK
    BY DEF StoreTypes
<1>2. events \in Seq({"session", "no session"}) /\ reviews \in Nat /\ mishaps \in Nat
    BY DEF StoreTypes
<1>3. page.open \in BOOLEAN /\ page.query \in Queries
    BY DEF PageTypes, Pages
<1>4. page.at \in 0..Len(events)
    <2>1. page.at \in Nat /\ Len(events) \in Nat /\ page.at <= Len(events)
        BY <1>2, LenProperties DEF PageTypes, Pages
    <2> QED BY <2>1
<1>5. linked \in BOOLEAN /\ untold \in BOOLEAN
    BY DEF Flags
<1> QED BY <1>1, <1>2, <1>3, <1>4, <1>5 DEF BoardTypeOK, Runs, Jobs, LaneRow, ItemsOK, Queries

LEMMA BoardBegins == BoardInit => BoardInv
<1> SUFFICES ASSUME BoardInit PROVE BoardInv
    OBVIOUS
<1>1. StoreTypes
    BY BoardAssumption DEF BoardInit, StoreTypes, Runs, Jobs, LaneRow, ItemsOK
<1>2. Flags
    BY DEF BoardInit, Flags
<1>3. page \in Pages /\ page.at = 0 /\ page.query = "asked" /\ events = <<>>
    BY DEF BoardInit, Pages, Queries
<1>4. PageTypes
    BY <1>3, TablesAreTables DEF BoardInit, PageTypes
<1>5. ReadIsCurrent
    BY <1>3 DEF ReadIsCurrent
<1> QED BY <1>1, <1>2, <1>4, <1>5 DEF BoardInv

-----------------------------------------------------------------------------
(* The store's steps.                                                      *)

EventTypes == events \in Seq({"session", "no session"})

LEMMA PageNumbers ==
    ASSUME StoreTypes, PageTypes
    PROVE  page.at \in Nat /\ Len(events) \in Nat /\ page.at <= Len(events) /\ EventTypes
BY LenProperties DEF StoreTypes, PageTypes, Pages, EventTypes

LEMMA EventAppended ==
    ASSUME EventTypes, NEW scope \in {"session", "no session"}, events' = Append(events, scope)
    PROVE  EventTypes' /\ Len(events') = Len(events) + 1 /\ events'[Len(events) + 1] = scope
BY AppendProperties DEF EventTypes

\* An event of the session is ahead of every page.
LEMMA ToldPage ==
    ASSUME BoardInv, Tell, UNCHANGED pageVars
    PROVE  PageTypes' /\ ReadIsCurrent' /\ EventTypes' /\ untold' = untold
<1>1. /\ page' = page /\ reading' = reading /\ shown' = shown
      /\ untold' = untold /\ events' = Append(events, "session")
    BY DEF Tell, pageVars
<1>2. page.at \in Nat /\ Len(events) \in Nat /\ page.at <= Len(events) /\ EventTypes
    BY PageNumbers DEF BoardInv
<1>3. EventTypes' /\ Len(events') = Len(events) + 1 /\ events'[Len(events) + 1] = "session"
    BY <1>1, <1>2, EventAppended
<1>4. Len(events') \in (page'.at + 1)..Len(events') /\ page'.at <= Len(events')
    BY <1>1, <1>2, <1>3
<1>5. Ahead' # {}
    BY <1>3, <1>4 DEF Ahead
<1>6. PageTypes'
    BY <1>1, <1>4 DEF BoardInv, PageTypes
<1> QED BY <1>1, <1>3, <1>5, <1>6 DEF ReadIsCurrent

LEMMA NextIsMore == \A m \in Nat, n \in Nat : m <= n => m <= n + 1
OBVIOUS

\* A change that no event of the session tells.
LEMMA UntoldPage ==
    ASSUME BoardInv, untold' = TRUE, UNCHANGED pageVars,
           events' = events \/ events' = Append(events, "no session")
    PROVE  PageTypes' /\ ReadIsCurrent' /\ EventTypes'
<1>1. page' = page /\ reading' = reading /\ shown' = shown
    BY DEF pageVars
<1>2. page.at \in Nat /\ Len(events) \in Nat /\ page.at <= Len(events) /\ EventTypes
    BY PageNumbers DEF BoardInv
<1>3. EventTypes' /\ Len(events') \in {Len(events), Len(events) + 1}
    <2>1. CASE events' = events
        <3>1. EventTypes'
            BY <1>2, <2>1 DEF EventTypes
        <3> QED BY <2>1, <3>1
    <2>2. CASE events' = Append(events, "no session")
        <3>1. EventTypes' /\ Len(events') = Len(events) + 1
            BY <1>2, <2>2, EventAppended
        <3> QED BY <3>1
    <2> QED BY <2>1, <2>2
<1>4. page'.at <= Len(events')
    <2>1. page.at <= Len(events) /\ page.at <= Len(events) + 1
        BY <1>2, NextIsMore
    <2> QED BY <1>1, <1>3, <2>1
<1>5. PageTypes'
    BY <1>1, <1>4 DEF BoardInv, PageTypes
<1> QED BY <1>3, <1>5 DEF ReadIsCurrent

RunRow == [status : {"queued", "blocked", "running", "completed", "failed"},
           auth : {"not_required", "login_required"},
           warning : {"none", "login", "blocked", "partial", "failed"}]

\* A run's row, a job's and a lane's, each replaced.
LEMMA PutRow ==
    ASSUME run \in Runs, NEW k \in Kind, NEW row \in RunRow
    PROVE  [run EXCEPT ![k] = row] \in Runs /\ run[k] \in RunRow
BY DEF Runs, RunRow

LEMMA PutJob ==
    ASSUME job \in Jobs, NEW j \in AnyJob, NEW ended \in {"never", "absent", "queued", "running", "ended"}
    PROVE  [job EXCEPT ![j] = ended] \in Jobs
BY DEF Jobs

LEMMA JobKinds == \A j \in AnyJob : KindOf(j) \in Kind
BY DEF KindOf, Kind

LEMMA EndedRun ==
    ASSUME StoreTypes, NEW j \in AnyJob,
           NEW ended \in {"queued", "blocked", "running", "completed", "failed"},
           NEW warning \in {"none", "login", "blocked", "partial", "failed"}, EndRun(j, ended, warning)
    PROVE  run' \in Runs /\ job' \in Jobs
<1> DEFINE row == [run[KindOf(j)] EXCEPT !.status = ended, !.warning = warning]
<1>1. KindOf(j) \in Kind /\ run \in Runs /\ job \in Jobs
    BY JobKinds DEF StoreTypes
<1>2. run[KindOf(j)] \in RunRow
    BY <1>1 DEF Runs, RunRow
<1>3. row \in RunRow
    BY <1>2 DEF RunRow
<1>4. run' = [run EXCEPT ![KindOf(j)] = row]
    BY <1>1, <1>2 DEF EndRun, Runs, RunRow
<1> HIDE DEF row
<1>5. run' \in Runs
    BY <1>1, <1>3, <1>4, PutRow
<1>6. job' \in Jobs
    BY <1>1, PutJob DEF EndRun
<1> QED BY <1>5, <1>6

\* The row a lane's events leave.
LEMMA LaneRowKept ==
    ASSUME NEW row \in LaneRow, NEW ended \in {"completed", "partial", "blocked"}, NEW recommends
    PROVE  AfterEvents(row, LaneEvents(ended, recommends)) \in LaneRow
<1> DEFINE first == [seq |-> 1, status |-> ended]
           second == [seq |-> 2, status |-> "completed"]
<1>1. first \in LaneRow /\ second \in LaneRow
    BY DEF LaneRow
<1>2. LaneEvents(ended, recommends) = IF recommends THEN <<first, second>> ELSE <<first>>
    BY DEF LaneEvents
<1> HIDE DEF first, second
<1>3. \A r \in LaneRow, e \in LaneRow : AfterEvent(r, e) \in LaneRow
    BY DEF AfterEvent
<1>4. AfterEvent(row, first) \in LaneRow /\ AfterEvent(AfterEvent(row, first), second) \in LaneRow
    BY <1>1, <1>3
<1>5. CASE recommends
    BY <1>2, <1>4, <1>5 DEF AfterEvents
<1>6. CASE ~recommends
    BY <1>2, <1>4, <1>6 DEF AfterEvents
<1> QED BY <1>5, <1>6

\* The items found join those there are.
LEMMA FoundItems ==
    ASSUME ItemsOK, NEW k, NEW found \in Found(k), items' = WithFound(found) PROVE ItemsOK'
BY DEF ItemsOK, WithFound, Found

\* What an action of the store has to keep.
LEMMA StoreTypesAgain ==
    ASSUME run' \in Runs, job' \in Jobs, lane' \in [LaneJob -> LaneRow], ItemsOK', EventTypes',
           reviews' \in Nat, mishaps' \in Nat
    PROVE  StoreTypes'
BY DEF StoreTypes, EventTypes

LEMMA OneLess == \A n \in Nat : n > 0 => n - 1 \in Nat
OBVIOUS

LEMMA StartKeepsBoard == ASSUME BoardInv, NEW j \in AnyJob, StartRun(j) PROVE BoardInv'
<1> DEFINE row == [status |-> "queued", auth |-> "not_required", warning |-> "none"]
<1>1. /\ job' = [job EXCEPT ![j] = "queued"] /\ run' = [run EXCEPT ![KindOf(j)] = row] /\ Tell
      /\ UNCHANGED <<linked, lane, items, pageVars, reviews, mishaps>>
    BY DEF StartRun
<1>2. row \in RunRow
    BY DEF RunRow
<1> HIDE DEF row
<1>3. PageTypes' /\ ReadIsCurrent' /\ EventTypes' /\ untold' = untold
    BY <1>1, ToldPage
<1>4. run' \in Runs /\ job' \in Jobs
    BY <1>1, <1>2, PutRow, PutJob, JobKinds DEF BoardInv, StoreTypes
<1>5. lane' \in [LaneJob -> LaneRow] /\ ItemsOK' /\ reviews' \in Nat /\ mishaps' \in Nat
    BY <1>1 DEF BoardInv, StoreTypes, ItemsOK
<1>6. Flags'
    BY <1>1, <1>3 DEF BoardInv, Flags
<1> QED BY <1>3, <1>4, <1>5, <1>6, StoreTypesAgain DEF BoardInv

LEMMA ClaimKeepsBoard == ASSUME BoardInv, NEW j \in AnyJob, ClaimJob(j) PROVE BoardInv'
<1> DEFINE row == [run[KindOf(j)] EXCEPT !.status = "running"]
<1>1. /\ job' = [job EXCEPT ![j] = "running"] /\ run' = [run EXCEPT ![KindOf(j)].status = "running"]
      /\ Tell /\ UNCHANGED <<linked, lane, items, pageVars, reviews, mishaps>>
    BY DEF ClaimJob
<1>2. run \in Runs /\ job \in Jobs /\ KindOf(j) \in Kind /\ run[KindOf(j)] \in RunRow
    BY PutRow, JobKinds DEF BoardInv, StoreTypes, Runs, RunRow
<1>3. row \in RunRow
    BY <1>2 DEF RunRow
<1>4. run' = [run EXCEPT ![KindOf(j)] = row]
    BY <1>1, <1>2
<1> HIDE DEF row
<1>5. run' \in Runs /\ job' \in Jobs
    BY <1>1, <1>2, <1>3, <1>4, PutRow, PutJob
<1>6. PageTypes' /\ ReadIsCurrent' /\ EventTypes' /\ untold' = untold
    BY <1>1, ToldPage
<1>7. lane' \in [LaneJob -> LaneRow] /\ ItemsOK' /\ reviews' \in Nat /\ mishaps' \in Nat
    BY <1>1 DEF BoardInv, StoreTypes, ItemsOK
<1>8. Flags'
    BY <1>1, <1>6 DEF BoardInv, Flags
<1> QED BY <1>5, <1>6, <1>7, <1>8, StoreTypesAgain DEF BoardInv

LEMMA EndKeepsBoard ==
    ASSUME BoardInv, (\E j \in AnyJob : FailJob(j)) \/ CompleteCtsRun \/ (\E j \in LaneJob : CompleteLane(j))
    PROVE  BoardInv'
<1>0. StoreTypes /\ job \in Jobs /\ run \in Runs /\ LaneJob \subseteq AnyJob /\ CtsJob \in AnyJob /\ ItemsOK
      /\ lane \in [LaneJob -> LaneRow] /\ reviews \in Nat /\ mishaps \in Nat
    BY DEF BoardInv, StoreTypes, AnyJob
<1>1. ASSUME NEW j \in AnyJob, FailJob(j) PROVE BoardInv'
    <2>1. /\ EndRun(j, "failed", "failed") /\ Tell
          /\ UNCHANGED <<linked, lane, items, pageVars, reviews, mishaps>>
        BY <1>1 DEF FailJob
    <2>2. run' \in Runs /\ job' \in Jobs
        BY <1>0, <2>1, EndedRun
    <2>3. PageTypes' /\ ReadIsCurrent' /\ EventTypes' /\ untold' = untold
        BY <2>1, ToldPage
    <2>4. lane' \in [LaneJob -> LaneRow] /\ ItemsOK' /\ reviews' \in Nat /\ mishaps' \in Nat
        BY <1>0, <2>1 DEF ItemsOK
    <2>5. Flags'
        BY <2>1, <2>3 DEF BoardInv, Flags
    <2> QED BY <2>2, <2>3, <2>4, <2>5, StoreTypesAgain DEF BoardInv
<1>2. CASE CompleteCtsRun
    <2>1. /\ EndRun(CtsJob, "completed", "none") /\ Tell /\ linked' = TRUE
          /\ UNCHANGED <<lane, pageVars, reviews, mishaps>>
        BY <1>2 DEF CompleteCtsRun
    <2>2. run' \in Runs /\ job' \in Jobs
        BY <1>0, <2>1, EndedRun
    <2>3. PageTypes' /\ ReadIsCurrent' /\ EventTypes' /\ untold' = untold
        BY <2>1, ToldPage
    <2>4. ItemsOK'
        BY <1>0, <1>2, FoundItems DEF CompleteCtsRun
    <2>5. lane' \in [LaneJob -> LaneRow] /\ reviews' \in Nat /\ mishaps' \in Nat
        BY <1>0, <2>1
    <2>6. Flags'
        BY <2>1, <2>3 DEF BoardInv, Flags
    <2> QED BY <2>2, <2>3, <2>4, <2>5, <2>6, StoreTypesAgain DEF BoardInv
<1>3. ASSUME NEW j \in LaneJob, CompleteLane(j) PROVE BoardInv'
    <2>1. Tell /\ UNCHANGED <<linked, pageVars, reviews, mishaps>>
        BY <1>3 DEF CompleteLane
    <2>2. PICK ended \in {"completed", "partial", "blocked"}, found \in Found("liepin"), recommends \in BOOLEAN :
              /\ items' = WithFound(found)
              /\ lane' = [lane EXCEPT ![j] = AfterEvents(lane[j], LaneEvents(ended, recommends))]
              /\ \/ EndRun(j, "blocked", "blocked") \/ EndRun(j, "completed", "partial")
                 \/ EndRun(j, "completed", "none")
        BY <1>3 DEF CompleteLane
    <2>3. run' \in Runs /\ job' \in Jobs
        BY <1>0, <2>2, EndedRun
    <2>4. PageTypes' /\ ReadIsCurrent' /\ EventTypes' /\ untold' = untold
        BY <2>1, ToldPage
    <2>5. ItemsOK'
        BY <1>0, <2>2, FoundItems
    <2>6. lane' \in [LaneJob -> LaneRow]
        BY <1>0, <2>2, LaneRowKept
    <2>7. reviews' \in Nat /\ mishaps' \in Nat
        BY <1>0, <2>1
    <2>8. Flags'
        BY <2>1, <2>4 DEF BoardInv, Flags
    <2> QED BY <2>3, <2>4, <2>5, <2>6, <2>7, <2>8, StoreTypesAgain DEF BoardInv
<1> QED BY <1>1, <1>2, <1>3

LEMMA ElsewhereKeepsBoard == ASSUME BoardInv, AttachRuntime \/ MarkBoardConnected PROVE BoardInv'
<1>0. /\ job \in Jobs /\ run \in Runs /\ ItemsOK /\ lane \in [LaneJob -> LaneRow]
      /\ reviews \in Nat /\ mishaps \in Nat
    BY DEF BoardInv, StoreTypes
<1>1. /\ untold' = TRUE /\ UNCHANGED <<job, lane, items, pageVars, reviews, mishaps>>
      /\ events' = events \/ events' = Append(events, "no session")
    BY DEF AttachRuntime, MarkBoardConnected, TellNobodyHere
<1>2. PageTypes' /\ ReadIsCurrent' /\ EventTypes'
    BY <1>1, UntoldPage
<1>3. run' \in Runs
    <2> DEFINE row == [status |-> "queued", auth |-> "not_required", warning |-> "none"]
    <2>1. row \in RunRow /\ "liepin" \in Kind
        BY DEF RunRow, Kind
    <2>2. run' = run \/ run' = [run EXCEPT !["liepin"] = row]
        BY DEF AttachRuntime, MarkBoardConnected
    <2> HIDE DEF row
    <2> QED BY <1>0, <2>1, <2>2, PutRow
<1>4. job' \in Jobs /\ lane' \in [LaneJob -> LaneRow] /\ ItemsOK' /\ reviews' \in Nat /\ mishaps' \in Nat
    BY <1>0, <1>1 DEF ItemsOK
<1>5. Flags'
    <2>1. linked' = linked \/ linked' = TRUE
        BY DEF AttachRuntime, MarkBoardConnected
    <2> QED BY <1>1, <2>1 DEF BoardInv, Flags
<1> QED BY <1>2, <1>3, <1>4, <1>5, StoreTypesAgain DEF BoardInv

LEMMA ProbeKeepsBoard == ASSUME BoardInv, BlockBoardForProbe PROVE BoardInv'
<1> DEFINE row == [status |-> "blocked", auth |-> "login_required", warning |-> "login"]
<1>0. /\ job \in Jobs /\ run \in Runs /\ ItemsOK /\ lane \in [LaneJob -> LaneRow]
      /\ reviews \in Nat /\ mishaps \in Nat
    BY DEF BoardInv, StoreTypes
<1>1. /\ mishaps > 0 /\ mishaps' = mishaps - 1 /\ run' = [run EXCEPT !["liepin"] = row]
      /\ Tell /\ UNCHANGED <<linked, job, lane, items, pageVars, reviews>>
    BY DEF BlockBoardForProbe
<1>2. row \in RunRow /\ "liepin" \in Kind
    BY DEF RunRow, Kind
<1> HIDE DEF row
<1>3. PageTypes' /\ ReadIsCurrent' /\ EventTypes' /\ untold' = untold
    BY <1>1, ToldPage
<1>4. run' \in Runs
    BY <1>0, <1>1, <1>2, PutRow
<1>5. mishaps' \in Nat
    BY <1>0, <1>1, OneLess
<1>6. job' \in Jobs /\ lane' \in [LaneJob -> LaneRow] /\ ItemsOK' /\ reviews' \in Nat
    BY <1>0, <1>1 DEF ItemsOK
<1>7. Flags'
    BY <1>1, <1>3 DEF BoardInv, Flags
<1> QED BY <1>3, <1>4, <1>5, <1>6, <1>7, StoreTypesAgain DEF BoardInv

LEMMA ReviewKeepsBoard == ASSUME BoardInv, NEW i \in Item, Review(i) PROVE BoardInv'
<1>0. /\ job \in Jobs /\ run \in Runs /\ ItemsOK /\ lane \in [LaneJob -> LaneRow]
      /\ reviews \in Nat /\ mishaps \in Nat
    BY DEF BoardInv, StoreTypes
<1>1. /\ reviews > 0 /\ reviews' = reviews - 1 /\ Tell
      /\ UNCHANGED <<run, linked, job, lane, pageVars, mishaps>>
    BY DEF Review
<1>2. PICK to \in {"promising", "rejected"} : items' = [items EXCEPT ![i] = to]
    BY DEF Review
<1>3. PageTypes' /\ ReadIsCurrent' /\ EventTypes' /\ untold' = untold
    BY <1>1, ToldPage
<1>4. ItemsOK'
    BY <1>0, <1>2 DEF ItemsOK
<1>5. reviews' \in Nat
    BY <1>0, <1>1, OneLess
<1>6. run' \in Runs /\ job' \in Jobs /\ lane' \in [LaneJob -> LaneRow] /\ mishaps' \in Nat
    BY <1>0, <1>1
<1>7. Flags'
    BY <1>1, <1>3 DEF BoardInv, Flags
<1> QED BY <1>3, <1>4, <1>5, <1>6, <1>7, StoreTypesAgain DEF BoardInv

-----------------------------------------------------------------------------
(* The page's steps.                                                       *)

LEMMA StoreKept ==
    ASSUME BoardInv, UNCHANGED boardStoreVars, UNCHANGED reviews, mishaps' \in Nat
    PROVE  /\ StoreTypes' /\ Tables' = Tables /\ events' = events
           /\ run' = run /\ linked' = linked /\ lane' = lane /\ items' = items
<1>1. UNCHANGED <<run, linked, job, lane, items, events>>
    BY DEF boardStoreVars
<1>2. StoreTypes'
    BY <1>1 DEF BoardInv, StoreTypes, ItemsOK
<1>3. Tables' = Tables
    BY <1>1 DEF Tables
<1> QED BY <1>1, <1>2, <1>3

LEMMA MishapsKept == BoardInv => /\ mishaps \in Nat
                                 /\ mishaps > 0 /\ mishaps' = mishaps - 1 => mishaps' \in Nat
BY OneLess DEF BoardInv, StoreTypes

\* A page that asks again has read nothing yet.
LEMMA AskedPage ==
    ASSUME BoardInv, UNCHANGED boardStoreVars, UNCHANGED reviews, mishaps' \in Nat, shown' = shown,
           NEW p, AskTables(p), [p EXCEPT !.query = "asked"] \in Pages,
           [p EXCEPT !.query = "asked"].query = "asked", [p EXCEPT !.query = "asked"].at <= Len(events)
    PROVE  BoardInv'
<1>1. page' = [p EXCEPT !.query = "asked"] /\ reading' = shown /\ untold' = FALSE
    BY DEF AskTables
<1>2. StoreTypes' /\ events' = events /\ linked' = linked
    BY StoreKept
<1>3. Flags'
    BY <1>1, <1>2 DEF BoardInv, Flags
<1>4. PageTypes'
    BY <1>1, <1>2 DEF BoardInv, PageTypes
<1>5. ReadIsCurrent'
    BY <1>1 DEF ReadIsCurrent
<1> QED BY <1>2, <1>3, <1>4, <1>5 DEF BoardInv

\* The page as an event, a lost stream or a reload leaves it.
LEMMA PageReset ==
    ASSUME page \in Pages, NEW n \in Nat, NEW open \in BOOLEAN, NEW p,
           p = [page EXCEPT !.at = n] \/ p = [page EXCEPT !.open = open] \/ p = [page EXCEPT !.open = open, !.at = n]
    PROVE  /\ [p EXCEPT !.query = "asked"] \in Pages /\ [p EXCEPT !.query = "asked"].query = "asked"
           /\ [p EXCEPT !.query = "asked"].at \in {n, page.at}
BY DEF Pages, Queries

LEMMA PageAsksAgain == ASSUME BoardInv, ReceiveEvent \/ LoseStream \/ Reload PROVE BoardInv'
<1>0. /\ page \in Pages /\ page.at \in Nat /\ Len(events) \in Nat /\ page.at <= Len(events)
    BY PageNumbers DEF BoardInv, PageTypes
<1>1. CASE ReceiveEvent
    <2>1. /\ NextEvent # 0 /\ AskTables([page EXCEPT !.at = NextEvent])
          /\ UNCHANGED <<boardStoreVars, shown, reviews, mishaps>>
        BY <1>1 DEF ReceiveEvent
    <2>2. NextEvent \in Ahead
        BY <1>0, <2>1, NextEventIsAhead
    <2>3. NextEvent \in Nat /\ NextEvent <= Len(events)
        BY <1>0, <2>2 DEF Ahead
    <2>4. LET p == [page EXCEPT !.at = NextEvent]
          IN  /\ [p EXCEPT !.query = "asked"] \in Pages /\ [p EXCEPT !.query = "asked"].query = "asked"
              /\ [p EXCEPT !.query = "asked"].at <= Len(events)
        BY <1>0, <2>3, PageReset
    <2> QED BY <2>1, <2>4, AskedPage, MishapsKept
<1>2. CASE LoseStream
    <2>1. /\ AskTables([page EXCEPT !.open = FALSE]) /\ mishaps' \in Nat
          /\ UNCHANGED <<boardStoreVars, shown, reviews>>
        BY <1>2, MishapsKept DEF LoseStream
    <2>2. LET p == [page EXCEPT !.open = FALSE]
          IN  /\ [p EXCEPT !.query = "asked"] \in Pages /\ [p EXCEPT !.query = "asked"].query = "asked"
              /\ [p EXCEPT !.query = "asked"].at <= Len(events)
        BY <1>0, PageReset
    <2> QED BY <2>1, <2>2, AskedPage
<1>3. CASE Reload
    <2>1. /\ AskTables([page EXCEPT !.open = TRUE, !.at = 0]) /\ mishaps' \in Nat
          /\ UNCHANGED <<boardStoreVars, shown, reviews>>
        BY <1>3, MishapsKept DEF Reload
    <2>2. LET p == [page EXCEPT !.open = TRUE, !.at = 0]
          IN  /\ [p EXCEPT !.query = "asked"] \in Pages /\ [p EXCEPT !.query = "asked"].query = "asked"
              /\ [p EXCEPT !.query = "asked"].at <= Len(events)
        <3>1. 0 <= Len(events)
            BY <1>0
        <3> QED BY <1>0, <3>1, PageReset
    <2> QED BY <2>1, <2>2, AskedPage
<1> QED BY <1>1, <1>2, <1>3

LEMMA PageTo ==
    ASSUME page \in Pages, NEW query \in Queries
    PROVE  /\ [page EXCEPT !.query = query] \in Pages /\ [page EXCEPT !.query = query].query = query
           /\ [page EXCEPT !.query = query].at = page.at
BY DEF Pages

LEMMA SameAhead == ASSUME events' = events, page'.at = page.at PROVE Ahead' = Ahead
BY DEF Ahead

\* A step that only moves the query on, or opens the stream where it was.
LEMMA PageReads ==
    ASSUME BoardInv, Reopen \/ ReadSession \/ ReadLanes \/ Show \/ FailRequest PROVE BoardInv'
<1>0. /\ page \in Pages /\ page.at <= Len(events) /\ IsTables(reading) /\ IsTables(shown)
      /\ {"idle", "half", "read", "failed"} \subseteq Queries
    BY DEF BoardInv, PageTypes, Queries
<1>1. UNCHANGED boardStoreVars /\ UNCHANGED reviews /\ mishaps' \in Nat /\ untold' = untold
    BY MishapsKept DEF Reopen, ReadSession, ReadLanes, Show, FailRequest
<1>2. /\ StoreTypes' /\ Tables' = Tables /\ events' = events
      /\ run' = run /\ linked' = linked /\ lane' = lane /\ items' = items
    BY <1>1, StoreKept
<1>3. Flags'
    BY <1>1, <1>2 DEF BoardInv, Flags
<1>4. CASE Reopen
    <2>1. page' = [page EXCEPT !.open = TRUE] /\ reading' = reading /\ shown' = shown
        BY <1>4 DEF Reopen
    <2>2. page' \in Pages /\ page'.at = page.at /\ page'.query = page.query
        BY <1>0, <2>1 DEF Pages
    <2>3. PageTypes'
        BY <1>0, <1>2, <2>1, <2>2 DEF PageTypes
    <2>4. ReadIsCurrent'
        BY <1>1, <1>2, <2>1, <2>2, SameAhead DEF BoardInv, ReadIsCurrent
    <2> QED BY <1>2, <1>3, <2>3, <2>4 DEF BoardInv
<1>5. CASE ReadSession
    <2>1. /\ page' = [page EXCEPT !.query = "half"] /\ shown' = shown
          /\ reading' = [Tables EXCEPT !.lane = shown.lane, !.items = shown.items]
        BY <1>5 DEF ReadSession
    <2>2. page' \in Pages /\ page'.at = page.at /\ page'.query = "half"
        BY <1>0, <2>1, PageTo
    <2>3. IsTables(reading') /\ reading'.run = run /\ reading'.linked = linked
        BY <2>1, TablesAreTables DEF IsTables
    <2>4. PageTypes'
        BY <1>0, <1>2, <2>1, <2>2, <2>3 DEF PageTypes
    <2>5. ReadIsCurrent'
        BY <1>2, <2>2, <2>3 DEF ReadIsCurrent
    <2> QED BY <1>2, <1>3, <2>4, <2>5 DEF BoardInv
<1>6. CASE ReadLanes
    <2>1. /\ page.query = "half" /\ page' = [page EXCEPT !.query = "read"] /\ shown' = shown
          /\ reading' = [reading EXCEPT !.lane = lane, !.items = items]
        BY <1>6 DEF ReadLanes
    <2>2. page' \in Pages /\ page'.at = page.at /\ page'.query = "read"
        BY <1>0, <2>1, PageTo
    <2>3. /\ IsTables(reading') /\ reading'.run = reading.run /\ reading'.linked = reading.linked
          /\ reading'.lane = lane /\ reading'.items = items
        BY <1>0, <2>1 DEF IsTables
    <2>4. PageTypes'
        BY <1>0, <1>2, <2>1, <2>2, <2>3 DEF PageTypes
    <2>5. Ahead = {} /\ ~untold => reading' = Tables
        <3>1. SUFFICES ASSUME Ahead = {} /\ ~untold PROVE reading' = Tables
            OBVIOUS
        <3>2. reading.run = run /\ reading.linked = linked
            BY <2>1, <3>1 DEF BoardInv, ReadIsCurrent
        <3> QED BY <2>3, <3>2, TablesAreTables, SameTables
    <2>6. ReadIsCurrent'
        BY <1>1, <1>2, <2>2, <2>5, SameAhead DEF ReadIsCurrent
    <2> QED BY <1>2, <1>3, <2>4, <2>6 DEF BoardInv
<1>7. CASE Show
    <2>1. page.query = "read" /\ page' = [page EXCEPT !.query = "idle"] /\ shown' = reading /\ reading' = reading
        BY <1>7 DEF Show
    <2>2. page' \in Pages /\ page'.at = page.at /\ page'.query = "idle"
        BY <1>0, <2>1, PageTo
    <2>3. PageTypes'
        BY <1>0, <1>2, <2>1, <2>2 DEF PageTypes
    <2>4. Ahead = {} /\ ~untold => shown' = Tables
        BY <2>1 DEF BoardInv, ReadIsCurrent
    <2>5. ReadIsCurrent'
        BY <1>1, <1>2, <2>2, <2>4, SameAhead DEF ReadIsCurrent
    <2> QED BY <1>2, <1>3, <2>3, <2>5 DEF BoardInv
<1>8. CASE FailRequest
    <2>1. page' = [page EXCEPT !.query = "failed"] /\ shown' = shown /\ reading' = shown
        BY <1>8 DEF FailRequest
    <2>2. page' \in Pages /\ page'.at = page.at /\ page'.query = "failed"
        BY <1>0, <2>1, PageTo
    <2>3. PageTypes'
        BY <1>0, <1>2, <2>1, <2>2 DEF PageTypes
    <2>4. ReadIsCurrent'
        BY <2>2 DEF ReadIsCurrent
    <2> QED BY <1>2, <1>3, <2>3, <2>4 DEF BoardInv
<1> QED BY <1>4, <1>5, <1>6, <1>7, <1>8

LEMMA BoardStep == BoardInv /\ [BoardNext]_boardVars => BoardInv'
<1> SUFFICES ASSUME BoardInv, [BoardNext]_boardVars PROVE BoardInv'
    OBVIOUS
<1>1. CASE UNCHANGED boardVars
    <2>1. UNCHANGED <<run, linked, job, lane, items, events, page, reading, shown, untold, reviews, mishaps>>
        BY <1>1 DEF boardVars, boardStoreVars, pageVars
    <2>2. StoreTypes' /\ Flags' /\ PageTypes'
        BY <2>1 DEF BoardInv, StoreTypes, Flags, PageTypes, ItemsOK
    <2>3. ReadIsCurrent'
        BY <2>1 DEF BoardInv, ReadIsCurrent, Ahead, Tables
    <2> QED BY <2>2, <2>3 DEF BoardInv
<1>2. ASSUME NEW j \in AnyJob, StartRun(j) \/ ClaimJob(j) \/ FailJob(j) PROVE BoardInv'
    BY <1>2, StartKeepsBoard, ClaimKeepsBoard, EndKeepsBoard
<1>3. CASE CompleteCtsRun \/ \E j \in LaneJob : CompleteLane(j)
    BY <1>3, EndKeepsBoard
<1>4. CASE AttachRuntime \/ BlockBoardForProbe \/ MarkBoardConnected \/ \E i \in Item : Review(i)
    BY <1>4, ElsewhereKeepsBoard, ProbeKeepsBoard, ReviewKeepsBoard
<1>5. CASE \/ ReceiveEvent \/ LoseStream \/ Reload
           \/ Reopen \/ ReadSession \/ ReadLanes \/ Show \/ FailRequest
    BY <1>5, PageAsksAgain, PageReads
<1> QED BY <1>1, <1>2, <1>3, <1>4, <1>5 DEF BoardNext

LEMMA BoardInvHolds == BoardSpec => []BoardInv
BY BoardBegins, BoardStep, PTL DEF BoardSpec

\* An open page that has handled every event of its session and whose query is answered
\* shows the tables as they are, unless a change was one that no event of the session tells
\* (_event_generator, createWorkbenchEventStream).
THEOREM PagesAreCurrent == BoardSpec => []PageIsCurrent
<1>1. BoardInv => PageIsCurrent
    <2>1. SUFFICES ASSUME BoardInv PROVE PageIsCurrent
        OBVIOUS
    <2>2. BoardTypeOK
        BY <2>1, BoardTypes DEF BoardInv
    <2>3. NextEvent = 0 => Ahead = {}
        BY <2>1, PageNumbers, NextEventIsAhead DEF BoardInv
    <2>4. NextEvent = 0 /\ page.query = "idle" /\ ~untold => shown = Tables
        BY <2>1, <2>3 DEF BoardInv, ReadIsCurrent
    <2> QED BY <2>2, <2>4 DEF PageIsCurrent
<1> QED BY <1>1, BoardInvHolds, PTL

----------------------------------------------------------------------------
(* Logins: only the newest login's session can answer, the lockout bounds  *)
(* the passwords judged in a window, and a browser that sends one request  *)
(* at a time holds its session's token.                                    *)
(*                                                                         *)
(* The lockout counts before the password is judged, so the bound is one   *)
(* on recorded failures and on requests about to record one, together      *)
(* (GuessesInFlight).  The token needs to know that a session is never     *)
(* referred to from two browsers (OneBrowserPerSession), and what a        *)
(* request of the browser carries until it is answered (AnswersFit).       *)

\* Who refers to a session: a browser by its cookie, or for it a request.
OneBrowserPerSession ==
    /\ \A b, d \in Browser : cookie[b] = cookie[d] /\ cookie[b] # 0 => b = d
    /\ \A b \in Browser, r \in WebRequest :
          cookie[b] = webRequest[r].session /\ cookie[b] # 0 => b = BrowserOf[r]
    /\ \A r, q \in WebRequest :
          webRequest[r].session = webRequest[q].session /\ webRequest[r].session # 0
          => BrowserOf[r] = BrowserOf[q]

ForSession == {"me", "me admitted", "me done",
               "logout", "logout admitted", "logout verified", "logout done"}
Carries == {"opened", "login done", "me done"}

\* The one request of a browser is for the browser's session, and the token it is given
\* is the session's.
AnswersFit == \A r \in WebRequest : Alone(BrowserOf[r]) =>
    /\ webRequest[r].at \in ForSession => webRequest[r].session = cookie[BrowserOf[r]]
    /\ webRequest[r].at \in Carries /\ ~sessions[webRequest[r].session].revoked
       => sessions[webRequest[r].session].token = webRequest[r].token

\* Recorded failures of the window, and passwords judged wrong and not recorded yet.
Pending == {r \in WebRequest : webRequest[r].at = "wrong"}
GuessesInFlight ==
    Cardinality(Guesses) + Cardinality(Pending) <= FailureLimit - 1 + Cardinality(WebRequest)

SessionInv == LoginTypeOK /\ NewestLoginHolds /\ OneBrowserPerSession /\ AnswersFit /\ TokenFitsSession
LoginInv == SessionInv /\ GuessesInFlight

----------------------------------------------------------------------------
(* Sessions and tokens.                                                    *)

\* What the type invariant says of the tables.
LEMMA LoginTables == LoginTypeOK =>
    /\ sessions \in Seq(SessionRow) /\ Len(sessions) \in Nat
    /\ \A s \in 1..Len(sessions) : sessions[s] \in SessionRow
    /\ loginAttempts \in Seq(AttemptRow) /\ Len(loginAttempts) \in Nat
    /\ now \in Nat /\ issued \in Nat
    /\ webRequest \in [WebRequest -> [at : Stage, session : 0..Len(sessions), token : 0..issued]]
    /\ cookie \in [Browser -> 0..Len(sessions)] /\ csrfCookie \in [Browser -> 0..issued]
BY ElementOfSeq, LenProperties DEF LoginTypeOK

\* A request that acts for a session names a row of it.
LEMMA ActsForRow ==
    ASSUME SessionInv, NEW r \in WebRequest, webRequest[r].at \in ForSession \cup Carries
    PROVE  /\ webRequest[r].session \in 1..Len(sessions)
           /\ sessions[webRequest[r].session] \in SessionRow
BY LoginTables DEF SessionInv, NewestLoginHolds, ForSession, Carries

\* Nobody is logged in yet.
LEMMA SessionsBegin == LoginInit => SessionInv
<1> SUFFICES ASSUME LoginInit PROVE SessionInv
    OBVIOUS
<1>1. LoginTypeOK
    <2>1. <<>> \in Seq(SessionRow) /\ <<>> \in Seq(AttemptRow) /\ Len(<<>>) = 0
        BY EmptySeq
    <2>2. bootstrapped \in BOOLEAN
        BY Zenon DEF LoginInit
    <2>3. Idle \in [at : Stage, session : 0..0, token : 0..0]
        BY DEF Idle, Stage
    <2> QED BY <2>1, <2>2, <2>3 DEF LoginInit, LoginTypeOK
<1>2. NewestLoginHolds
    BY EmptySeq DEF LoginInit, NewestLoginHolds, Idle
<1>3. OneBrowserPerSession /\ AnswersFit
    BY LoginAssumption DEF LoginInit, OneBrowserPerSession, AnswersFit, Idle, ForSession, Carries
<1>4. TokenFitsSession
    BY DEF LoginInit, TokenFitsSession
<1> QED BY <1>1, <1>2, <1>3, <1>4 DEF SessionInv

\* The stages of a request that has not got a session.
Before == {"idle", "looked", "unknown", "locked", "right", "wrong"}
Unanswered(r) == webRequest[r].at \notin {"me done", "login done"}
RequestRow == [at : Stage, session : 0..Len(sessions), token : 0..issued]

\* Zero is below every number.
LEMMA ZeroIsLow == \A n \in Nat : 0 \in 0..n
OBVIOUS

\* A request that is not there is one without a session.
LEMMA IdleIsARow == SessionInv =>
    /\ Idle \in RequestRow /\ Idle.session = 0
    /\ Idle.at \in Before /\ Idle.at \notin ForSession \cup Carries
<1> SUFFICES ASSUME SessionInv
             PROVE  /\ Idle \in RequestRow /\ Idle.session = 0
                    /\ Idle.at \in Before /\ Idle.at \notin ForSession \cup Carries
    OBVIOUS
<1>1. 0 \in 0..Len(sessions) /\ 0 \in 0..issued
    BY LoginTables, ZeroIsLow DEF SessionInv
<1>2. "idle" \in Stage /\ "idle" \in Before /\ "idle" \notin ForSession \cup Carries
    BY DEF Stage, Before, ForSession, Carries
<1> QED BY <1>1, <1>2 DEF Idle, RequestRow

\* A request goes on, and no session and no cookie changes.
LEMMA RequestMovesAlone ==
    ASSUME SessionInv, NEW r \in WebRequest, NEW e \in RequestRow,
           webRequest' = [webRequest EXCEPT ![r] = e], UNCHANGED <<sessions, issued, cookie, csrfCookie>>,
           bootstrapped' \in BOOLEAN, now' \in Nat, loginAttempts' \in Seq(AttemptRow)',
           Unanswered(r) \/ e.at = webRequest[r].at,
           e.at \notin Before => e.session \in 1..Len(sessions),
           e.session \in {0, webRequest[r].session, cookie[BrowserOf[r]]},
           Alone(BrowserOf[r]) =>
               /\ e.at \in ForSession => e.session = cookie[BrowserOf[r]]
               /\ e.at \in Carries /\ ~sessions[e.session].revoked
                  => sessions[e.session].token = e.token
    PROVE  SessionInv'
<1>1. /\ webRequest \in [WebRequest -> RequestRow]
      /\ cookie \in [Browser -> 0..Len(sessions)] /\ BrowserOf \in [WebRequest -> Browser]
    BY LoginAssumption, LoginTables DEF SessionInv, RequestRow
<1>2. /\ webRequest'[r] = e /\ \A q \in WebRequest \ {r} : webRequest'[q] = webRequest[q]
      /\ webRequest' \in [WebRequest -> RequestRow]
    BY <1>1
<1>3. UNCHANGED <<sessions, issued, cookie, csrfCookie>>
    OBVIOUS
<1>4. LoginTypeOK'
    BY <1>2, <1>3 DEF SessionInv, LoginTypeOK, RequestRow, SessionRow
<1>5. NewestLoginHolds'
    BY <1>2, <1>3 DEF SessionInv, NewestLoginHolds, Before
<1>6. OneBrowserPerSession'
    <2>1. /\ \A b, d \in Browser : cookie[b] = cookie[d] /\ cookie[b] # 0 => b = d
          /\ \A b \in Browser, q \in WebRequest :
                cookie[b] = webRequest[q].session /\ cookie[b] # 0 => b = BrowserOf[q]
          /\ \A p, q \in WebRequest :
                webRequest[p].session = webRequest[q].session /\ webRequest[p].session # 0
                => BrowserOf[p] = BrowserOf[q]
        BY DEF SessionInv, OneBrowserPerSession
    <2>2. \A q \in WebRequest : webRequest'[q].session \in {0, webRequest[q].session, cookie[BrowserOf[q]]}
        BY <1>2
    <2>3. ASSUME NEW b \in Browser, NEW q \in WebRequest, cookie[b] = webRequest'[q].session, cookie[b] # 0
          PROVE  b = BrowserOf[q]
        <3>1. CASE webRequest'[q].session = webRequest[q].session
            BY <2>1, <2>3, <3>1
        <3>2. CASE webRequest'[q].session = cookie[BrowserOf[q]]
            <4>1. BrowserOf[q] \in Browser
                BY <1>1
            <4> QED BY <2>1, <2>3, <3>2, <4>1
        <3> QED BY <2>2, <2>3, <3>1, <3>2
    <2>4. ASSUME NEW p \in WebRequest, NEW q \in WebRequest,
                 webRequest'[p].session = webRequest'[q].session, webRequest'[p].session # 0
          PROVE  BrowserOf[p] = BrowserOf[q]
        <3>1. CASE webRequest'[p].session = cookie[BrowserOf[p]]
            BY <1>1, <2>3, <2>4, <3>1
        <3>2. CASE webRequest'[q].session = cookie[BrowserOf[q]]
            BY <1>1, <2>3, <2>4, <3>2
        <3>3. CASE webRequest'[p].session = webRequest[p].session /\ webRequest'[q].session = webRequest[q].session
            BY <2>1, <2>4, <3>3
        <3> QED BY <2>2, <2>4, <3>1, <3>2, <3>3
    <2>5. cookie' = cookie
        BY <1>3
    <2>6. \A b, d \in Browser : cookie'[b] = cookie'[d] /\ cookie'[b] # 0 => b = d
        BY <2>1, <2>5
    <2>7. \A b \in Browser, q \in WebRequest :
              cookie'[b] = webRequest'[q].session /\ cookie'[b] # 0 => b = BrowserOf[q]
        BY <2>3, <2>5
    <2> QED BY <2>4, <2>6, <2>7 DEF OneBrowserPerSession
<1>7. AnswersFit'
    <2> SUFFICES ASSUME NEW q \in WebRequest, Alone(BrowserOf[q])
                 PROVE  /\ webRequest'[q].at \in ForSession => webRequest'[q].session = cookie[BrowserOf[q]]
                        /\ webRequest'[q].at \in Carries /\ ~sessions[webRequest'[q].session].revoked
                           => sessions[webRequest'[q].session].token = webRequest'[q].token
        BY <1>3 DEF AnswersFit, Alone
    <2>1. CASE q = r
        BY <1>2, <2>1
    <2>2. CASE q # r
        BY <1>2, <2>2 DEF SessionInv, AnswersFit
    <2> QED BY <2>1, <2>2
<1>8. TokenFitsSession'
    <2> SUFFICES ASSUME NEW b \in Browser, Alone(b), Quiet(b)', cookie[b] # 0,
                        ~sessions[cookie[b]].revoked
                 PROVE  sessions[cookie[b]].token = csrfCookie[b]
        BY <1>3 DEF TokenFitsSession, Alone
    <2>1. Quiet(b)
        BY <1>2 DEF Quiet, Unanswered
    <2> QED BY <2>1 DEF SessionInv, TokenFitsSession
<1> QED BY <1>4, <1>5, <1>6, <1>7, <1>8 DEF SessionInv

\* A request goes on, and no table and no cookie changes.
LEMMA RequestMoves ==
    ASSUME SessionInv, NEW r \in WebRequest, NEW e \in RequestRow,
           webRequest' = [webRequest EXCEPT ![r] = e], UNCHANGED <<serverVars, cookie, csrfCookie>>,
           Unanswered(r) \/ e.at = webRequest[r].at,
           e.at \notin Before => e.session \in 1..Len(sessions),
           e.session \in {0, webRequest[r].session, cookie[BrowserOf[r]]},
           Alone(BrowserOf[r]) =>
               /\ e.at \in ForSession => e.session = cookie[BrowserOf[r]]
               /\ e.at \in Carries /\ ~sessions[e.session].revoked
                  => sessions[e.session].token = e.token
    PROVE  SessionInv'
<1>1. UNCHANGED <<bootstrapped, sessions, loginAttempts, now, issued>>
    BY DEF serverVars
<1>2. bootstrapped' \in BOOLEAN /\ now' \in Nat
    BY <1>1, Zenon DEF SessionInv, LoginTypeOK
<1>3. loginAttempts' \in Seq(AttemptRow)'
    BY <1>1 DEF SessionInv, LoginTypeOK, AttemptRow
<1> QED BY <1>1, <1>2, <1>3, RequestMovesAlone

\* It ends.
LEMMA RequestEnds ==
    ASSUME SessionInv, NEW r \in WebRequest, EndsRequest(r), UNCHANGED <<serverVars, cookie, csrfCookie>>,
           Unanswered(r)
    PROVE  SessionInv'
<1>1. /\ Idle \in RequestRow /\ Idle.session = 0
      /\ Idle.at \in Before /\ Idle.at \notin ForSession \cup Carries
    BY IdleIsARow
<1>2. webRequest' = [webRequest EXCEPT ![r] = Idle]
    BY DEF EndsRequest
<1> HIDE DEF Idle
<1> QED BY <1>1, <1>2, RequestMoves

\* It goes from one stage to the next of the same kind.
LEMMA StageMoves ==
    ASSUME SessionInv, NEW r \in WebRequest, NEW to \in Stage, Moves(r, to),
           UNCHANGED <<serverVars, cookie, csrfCookie>>,
           Unanswered(r),
           \/ to \in Before
           \/ to \in ForSession \ Carries /\ webRequest[r].at \in ForSession
           \/ to \in Carries \ ForSession /\ webRequest[r].at \in Carries
    PROVE  SessionInv'
<1> DEFINE e == [webRequest[r] EXCEPT !.at = to]
<1>1. webRequest[r] \in RequestRow
    BY LoginTables DEF SessionInv, RequestRow
<1>2. e \in RequestRow /\ e.at = to /\ e.session = webRequest[r].session /\ e.token = webRequest[r].token
    BY <1>1 DEF RequestRow
<1>3. webRequest' = [webRequest EXCEPT ![r] = e]
    BY DEF Moves
<1> HIDE DEF e
<1>4. Before \cap (ForSession \cup Carries) = {}
    BY DEF Before, ForSession, Carries
<1>5. e.at \notin Before => e.session \in 1..Len(sessions)
    BY <1>2, ActsForRow
<1>6. Alone(BrowserOf[r]) =>
          /\ e.at \in ForSession => e.session = cookie[BrowserOf[r]]
          /\ e.at \in Carries /\ ~sessions[e.session].revoked
             => sessions[e.session].token = e.token
    BY <1>2, <1>4 DEF SessionInv, AnswersFit
<1> QED BY <1>2, <1>3, <1>5, <1>6, RequestMoves

\* The steps of a request that only read the tables.
LEMMA ReadingKeepsSessions ==
    ASSUME SessionInv, NEW r \in WebRequest,
           \/ BeginLogin(r) \/ CheckLock(r) \/ RecordLogin(r) \/ Send(r, "me") \/ Send(r, "logout")
           \/ RequireUser(r) \/ RequireToken(r) \/ RequestFails(r)
    PROVE  SessionInv'
<1>1. CASE BeginLogin(r)
    <2>1. PICK to \in {"looked", "unknown"} : Moves(r, to)
        BY <1>1 DEF BeginLogin
    <2> QED BY <1>1, <2>1, StageMoves DEF BeginLogin, IsAt, Before, Stage, Unanswered
<1>2. CASE CheckLock(r)
    <2>1. PICK to \in {"locked", "wrong", "right"} : Moves(r, to)
        BY <1>2 DEF CheckLock
    <2>2. webRequest[r].at \in {"looked", "unknown"} /\ UNCHANGED <<serverVars, cookie, csrfCookie>>
        BY <1>2 DEF CheckLock
    <2> QED BY <2>1, <2>2, StageMoves DEF Before, Stage, Unanswered
<1>3. CASE RecordLogin(r)
    <2>1. /\ Moves(r, "login done") /\ webRequest[r].at = "opened"
          /\ UNCHANGED <<serverVars, cookie, csrfCookie>>
        BY <1>3 DEF RecordLogin, IsAt
    <2> QED BY <2>1, StageMoves DEF Carries, ForSession, Stage, Unanswered
<1>4. ASSUME NEW kind \in {"me", "logout"}, Send(r, kind) PROVE SessionInv'
    <2> DEFINE e == [at |-> kind, session |-> cookie[BrowserOf[r]],
                     token |-> IF kind = "logout" THEN csrfCookie[BrowserOf[r]] ELSE 0]
    <2>1. /\ cookie[BrowserOf[r]] \in 1..Len(sessions) /\ csrfCookie[BrowserOf[r]] \in 0..issued
          /\ issued \in Nat
        BY <1>4, LoginTables, LoginAssumption DEF SessionInv, Send
    <2>2. /\ e.at = kind /\ e.session = cookie[BrowserOf[r]]
          /\ e \in RequestRow
        <3>1. e.token \in 0..issued
            BY <2>1
        <3>2. cookie[BrowserOf[r]] \in 0..Len(sessions)
            BY LoginAssumption, LoginTables DEF SessionInv
        <3>3. kind \in Stage
            BY DEF Stage
        <3> QED BY <3>1, <3>2, <3>3 DEF RequestRow
    <2>3. /\ webRequest' = [webRequest EXCEPT ![r] = e] /\ webRequest[r].at = "idle"
          /\ UNCHANGED <<serverVars, cookie, csrfCookie>>
        BY <1>4 DEF Send, IsAt
    <2>4. kind \in ForSession \ Carries
        BY DEF ForSession, Carries
    <2> HIDE DEF e
    <2> QED BY <2>1, <2>2, <2>3, <2>4, RequestMoves DEF Unanswered
<1>5. CASE RequireUser(r)
    <2>1. UNCHANGED <<serverVars, cookie, csrfCookie>> /\ webRequest[r].at \in {"me", "logout"}
        BY <1>5 DEF RequireUser, IsAt
    <2>2. CASE EndsRequest(r)
        BY <2>1, <2>2, RequestEnds DEF Unanswered
    <2>3. CASE ~EndsRequest(r)
        <3>1. PICK to \in {"me admitted", "logout admitted"} : Moves(r, to)
            BY <1>5, <2>3 DEF RequireUser
        <3> QED BY <2>1, <3>1, StageMoves DEF Stage, ForSession, Carries, Unanswered
    <2> QED BY <2>2, <2>3
<1>6. CASE RequireToken(r)
    <2>1. UNCHANGED <<serverVars, cookie, csrfCookie>> /\ webRequest[r].at = "logout admitted"
        BY <1>6 DEF RequireToken, IsAt
    <2>2. CASE EndsRequest(r)
        BY <2>1, <2>2, RequestEnds DEF Unanswered
    <2>3. CASE ~EndsRequest(r)
        <3> DEFINE e == [webRequest[r] EXCEPT !.at = "logout verified", !.token = 0]
        <3>1. webRequest' = [webRequest EXCEPT ![r] = e]
            BY <1>6, <2>3 DEF RequireToken
        <3>2. webRequest[r] \in RequestRow /\ issued \in Nat
            BY LoginTables DEF SessionInv, RequestRow
        <3>3. /\ e \in RequestRow
              /\ e.at = "logout verified" /\ e.session = webRequest[r].session
            <4>1. "logout verified" \in Stage /\ 0 \in 0..issued
                BY <3>2 DEF Stage
            <4> QED BY <3>2, <4>1 DEF RequestRow
        <3> HIDE DEF e
        <3>4. webRequest[r].at \in ForSession /\ "logout verified" \in ForSession \ Carries
            BY <2>1 DEF ForSession, Carries
        <3>5. e.session \in 1..Len(sessions)
            BY <3>3, <3>4, ActsForRow
        <3>6. Alone(BrowserOf[r]) => e.session = cookie[BrowserOf[r]]
            BY <3>3, <3>4 DEF SessionInv, AnswersFit
        <3> QED BY <2>1, <3>1, <3>3, <3>4, <3>5, <3>6, RequestMoves DEF Unanswered
    <2> QED BY <2>2, <2>3
<1>7. CASE RequestFails(r)
    BY <1>7, RequestEnds DEF RequestFails, Unanswered
<1> QED BY <1>1, <1>2, <1>3, <1>4, <1>5, <1>6, <1>7

\* An answer hands its session and its token to the browser.
LEMMA AnswerKeepsSessions == ASSUME SessionInv, NEW r \in WebRequest, Answer(r) PROVE SessionInv'
<1> DEFINE b == BrowserOf[r]
           s == webRequest[r].session
           t == webRequest[r].token
<1>1. /\ webRequest \in [WebRequest -> RequestRow] /\ b \in Browser
      /\ cookie \in [Browser -> 0..Len(sessions)] /\ csrfCookie \in [Browser -> 0..issued]
      /\ s \in 0..Len(sessions) /\ t \in 0..issued
    BY LoginAssumption, LoginTables DEF SessionInv, RequestRow
<1>2. /\ webRequest' = [webRequest EXCEPT ![r] = Idle] /\ csrfCookie' = [csrfCookie EXCEPT ![b] = t]
      /\ UNCHANGED <<bootstrapped, sessions, loginAttempts, now, issued>>
    BY DEF Answer, EndsRequest, serverVars
<1>3. \/ webRequest[r].at = "me done" /\ cookie' = cookie
      \/ webRequest[r].at = "login done" /\ cookie' = [cookie EXCEPT ![b] = s]
      \/ cookie' = [cookie EXCEPT ![b] = 0]
    BY DEF Answer, IsAt
<1>4. Idle \in RequestRow /\ Idle.session = 0 /\ Idle.at \in Before /\ Idle.at \notin ForSession \cup Carries
    BY IdleIsARow
<1> HIDE DEF Idle
<1>5. \/ cookie' = cookie
      \/ \E c \in {s, 0} : cookie' = [cookie EXCEPT ![b] = c]
    BY <1>3
<1>6. cookie'[b] \in {cookie[b], s, 0} /\ \A d \in Browser \ {b} : cookie'[d] = cookie[d]
    BY <1>1, <1>5
<1>7. /\ webRequest'[r] = Idle /\ \A q \in WebRequest \ {r} : webRequest'[q] = webRequest[q]
      /\ webRequest' \in [WebRequest -> RequestRow]
    BY <1>1, <1>2, <1>4
<1>8. LoginTypeOK'
    <2>1. 0 \in 0..Len(sessions)
        BY LoginTables, ZeroIsLow DEF SessionInv
    <2>2. cookie' \in [Browser -> 0..Len(sessions)]
        BY <1>1, <1>5, <2>1
    <2>3. csrfCookie' \in [Browser -> 0..issued]
        BY <1>1, <1>2
    <2> QED BY <1>2, <1>7, <2>2, <2>3 DEF SessionInv, LoginTypeOK, RequestRow, SessionRow, AttemptRow
<1>9. NewestLoginHolds'
    BY <1>2, <1>4, <1>7 DEF SessionInv, NewestLoginHolds, Before
<1>10. OneBrowserPerSession'
    <2>1. /\ \A c, d \in Browser : cookie[c] = cookie[d] /\ cookie[c] # 0 => c = d
          /\ \A c \in Browser, q \in WebRequest :
                cookie[c] = webRequest[q].session /\ cookie[c] # 0 => c = BrowserOf[q]
          /\ \A p, q \in WebRequest :
                webRequest[p].session = webRequest[q].session /\ webRequest[p].session # 0
                => BrowserOf[p] = BrowserOf[q]
        BY DEF SessionInv, OneBrowserPerSession
    <2>2. ASSUME NEW c \in Browser, NEW d \in Browser, cookie'[c] = cookie'[d], cookie'[c] # 0
          PROVE  c = d
        <3>1. CASE c = b /\ d # b
            BY <1>6, <2>1, <2>2, <3>1
        <3>2. CASE c # b /\ d = b
            BY <1>6, <2>1, <2>2, <3>2
        <3>3. CASE c # b /\ d # b
            BY <1>6, <2>1, <2>2, <3>3
        <3> QED BY <3>1, <3>2, <3>3
    <2>3. ASSUME NEW c \in Browser, NEW q \in WebRequest, cookie'[c] = webRequest'[q].session, cookie'[c] # 0
          PROVE  c = BrowserOf[q]
        <3>1. q # r /\ webRequest'[q] = webRequest[q]
            BY <1>4, <1>7, <2>3
        <3>2. CASE c = b
            BY <1>6, <2>1, <2>3, <3>1, <3>2
        <3>3. CASE c # b
            BY <1>6, <2>1, <2>3, <3>1, <3>3
        <3> QED BY <3>2, <3>3
    <2>4. ASSUME NEW p \in WebRequest, NEW q \in WebRequest,
                 webRequest'[p].session = webRequest'[q].session, webRequest'[p].session # 0
          PROVE  BrowserOf[p] = BrowserOf[q]
        <3>1. p # r /\ q # r
            BY <1>4, <1>7, <2>4
        <3> QED BY <1>7, <2>1, <2>4, <3>1
    <2> QED BY <2>2, <2>3, <2>4 DEF OneBrowserPerSession
<1>11. \A q \in WebRequest \ {r} : Alone(BrowserOf[q]) => BrowserOf[q] # b
    BY DEF Alone
<1>12. AnswersFit'
    <2> SUFFICES ASSUME NEW q \in WebRequest, Alone(BrowserOf[q])
                 PROVE  /\ webRequest'[q].at \in ForSession => webRequest'[q].session = cookie'[BrowserOf[q]]
                        /\ webRequest'[q].at \in Carries /\ ~sessions[webRequest'[q].session].revoked
                           => sessions[webRequest'[q].session].token = webRequest'[q].token
        BY <1>2 DEF AnswersFit, Alone
    <2>1. CASE q = r
        BY <1>4, <1>7, <2>1
    <2>2. CASE q # r
        <3>1. BrowserOf[q] \in Browser \ {b}
            BY <1>11, <2>2, LoginAssumption
        <3> QED BY <1>6, <1>7, <2>2, <3>1 DEF SessionInv, AnswersFit
    <2> QED BY <2>1, <2>2
<1>13. TokenFitsSession'
    <2> SUFFICES ASSUME NEW d \in Browser, Alone(d), Quiet(d)', cookie'[d] # 0,
                        ~sessions[cookie'[d]].revoked
                 PROVE  sessions[cookie'[d]].token = csrfCookie'[d]
        BY <1>2 DEF TokenFitsSession, Alone
    <2>1. CASE d # b
        <3>1. Quiet(d)
            BY <1>7, <2>1 DEF Quiet
        <3> QED BY <1>1, <1>2, <1>6, <2>1, <3>1 DEF SessionInv, TokenFitsSession
    <2>2. CASE d = b
        <3>1. csrfCookie'[d] = t
            BY <1>1, <1>2, <2>2
        <3>2. CASE webRequest[r].at = "me done" /\ cookie' = cookie
            <4>1. webRequest[r].at \in ForSession \cap Carries
                BY <3>2 DEF ForSession, Carries
            <4>2. cookie'[d] = s
                BY <2>2, <3>2, <4>1 DEF SessionInv, AnswersFit
            <4> QED BY <2>2, <3>1, <4>1, <4>2 DEF SessionInv, AnswersFit
        <3>3. CASE webRequest[r].at = "login done" /\ cookie' = [cookie EXCEPT ![b] = s]
            <4>1. webRequest[r].at \in Carries /\ cookie'[d] = s
                BY <1>1, <2>2, <3>3 DEF Carries
            <4> QED BY <2>2, <3>1, <4>1 DEF SessionInv, AnswersFit
        <3>4. CASE cookie' = [cookie EXCEPT ![b] = 0]
            BY <1>1, <2>2, <3>4
        <3> QED BY <1>3, <3>2, <3>3, <3>4
    <2> QED BY <2>1, <2>2
<1> QED BY <1>8, <1>9, <1>10, <1>12, <1>13 DEF SessionInv

\* The parts of the invariant that look at no row of user_sessions.
LEMMA ReferencesStay ==
    ASSUME SessionInv, NEW r \in WebRequest, NEW e,
           webRequest' = [webRequest EXCEPT ![r] = e], UNCHANGED <<cookie, csrfCookie>>,
           e.session = webRequest[r].session
    PROVE  OneBrowserPerSession'
<1>1. \A q \in WebRequest : webRequest'[q].session = webRequest[q].session
    BY LoginTables DEF SessionInv
<1> QED BY <1>1 DEF SessionInv, OneBrowserPerSession

\* A login revokes whatever was open, so nothing is left to fit but its own session.
LEMMA OpenKeepsSessions == ASSUME SessionInv, NEW r \in WebRequest, OpenSession(r) PROVE SessionInv'
<1>1. /\ webRequest \in [WebRequest -> RequestRow] /\ BrowserOf \in [WebRequest -> Browser]
      /\ cookie \in [Browser -> 0..Len(sessions)] /\ csrfCookie \in [Browser -> 0..issued]
      /\ sessions \in Seq(SessionRow) /\ Len(sessions) \in Nat /\ issued \in Nat /\ now \in Nat
      /\ \A i \in 1..Len(sessions) : sessions[i] \in SessionRow
    BY LoginAssumption, LoginTables DEF SessionInv, RequestRow
<1> DEFINE n == Len(sessions)
           row == [revoked |-> FALSE, expires |-> now + SessionTtl, token |-> issued + 1]
           closed == [i \in 1..n |-> [sessions[i] EXCEPT !.revoked = TRUE]]
           e == [at |-> "opened", session |-> n + 1, token |-> issued + 1]
<1>2. /\ issued' = issued + 1 /\ sessions' = Append(closed, row)
      /\ webRequest' = [webRequest EXCEPT ![r] = [at |-> "opened", session |-> Len(sessions'), token |-> issued']]
      /\ UNCHANGED <<bootstrapped, loginAttempts, now, cookie, csrfCookie>>
    BY DEF OpenSession
<1>3. row \in SessionRow'
    BY <1>1, <1>2, LoginAssumption DEF SessionRow
<1>4. SessionRow \subseteq SessionRow'
    BY <1>1, <1>2 DEF SessionRow
<1>5. closed \in Seq(SessionRow') /\ Len(closed) = n
    <2>1. \A i \in 1..n : [sessions[i] EXCEPT !.revoked = TRUE] \in SessionRow
        BY <1>1 DEF SessionRow
    <2>2. closed \in [1..n -> SessionRow']
        BY <1>4, <2>1
    <2> HIDE DEF closed
    <2>3. closed \in Seq(SessionRow')
        <3>1. n \in Nat
            BY <1>1
        <3> HIDE DEF n
        <3>2. Seq(SessionRow') = UNION {[1..m -> SessionRow'] : m \in Nat}
            BY SeqDef
        <3> QED BY <2>2, <3>1, <3>2
    <2>4. DOMAIN closed = 1..n
        BY <2>2
    <2> QED BY <1>1, <2>3, <2>4
<1>6. \A i \in 1..n : closed[i].revoked = TRUE
    BY <1>1 DEF SessionRow
<1> HIDE DEF closed, row, n
<1>7. /\ sessions' \in Seq(SessionRow') /\ Len(sessions') = n + 1
      /\ \A i \in 1..n : sessions'[i] = closed[i]
      /\ sessions'[n + 1] = row
    BY <1>2, <1>3, <1>5, AppendProperties
<1>8. n \in Nat /\ \A i \in 0..n : i \in 0..n + 1 /\ i # n + 1
    BY <1>1 DEF n
<1>9. /\ webRequest' = [webRequest EXCEPT ![r] = e]
      /\ webRequest'[r] = e /\ \A q \in WebRequest \ {r} : webRequest'[q] = webRequest[q]
    BY <1>1, <1>2, <1>7
<1>10. e \in RequestRow' /\ RequestRow \subseteq RequestRow'
    <2>1. "opened" \in Stage
        BY DEF Stage
    <2>2. n + 1 \in 0..n + 1 /\ issued + 1 \in 0..issued + 1
          /\ 0..n \subseteq 0..n + 1 /\ 0..issued \subseteq 0..issued + 1
        BY <1>1, <1>8
    <2> QED BY <1>2, <1>7, <2>1, <2>2 DEF RequestRow, n
<1>11. LoginTypeOK'
    <2>1. webRequest' \in [WebRequest -> RequestRow']
        BY <1>1, <1>9, <1>10
    <2>2. cookie' \in [Browser -> 0..Len(sessions')] /\ csrfCookie' \in [Browser -> 0..issued']
        BY <1>1, <1>2, <1>7, <1>8 DEF n
    <2>3. issued' \in Nat
        BY <1>1, <1>2
    <2> QED BY <1>2, <1>7, <2>1, <2>2, <2>3 DEF SessionInv, LoginTypeOK, RequestRow, AttemptRow
<1> HIDE DEF e
<1>12. e.at = "opened" /\ e.session = n + 1 /\ e.token = issued + 1
    BY DEF e
<1>13. NewestLoginHolds'
    <2>1. \A i \in 1..Len(sessions') - 1 : sessions'[i].revoked
        BY <1>6, <1>7, <1>8
    <2>2. \A q \in WebRequest : webRequest'[q].at \notin Before => webRequest'[q].session \in 1..n + 1
        <3>1. n + 1 \in 1..n + 1 /\ 1..n \subseteq 1..n + 1
            BY <1>8
        <3> QED BY <1>9, <1>12, <3>1 DEF SessionInv, NewestLoginHolds, Before, n
    <2> QED BY <1>7, <2>1, <2>2 DEF NewestLoginHolds, Before
<1>14. \A q \in WebRequest : webRequest[q].session \in 0..n
    BY <1>1 DEF RequestRow, n
<1>15. \A b \in Browser : cookie[b] \in 0..n
    BY <1>1 DEF n
<1>16. OneBrowserPerSession'
    <2>1. /\ \A b, d \in Browser : cookie[b] = cookie[d] /\ cookie[b] # 0 => b = d
          /\ \A b \in Browser, q \in WebRequest :
                cookie[b] = webRequest[q].session /\ cookie[b] # 0 => b = BrowserOf[q]
          /\ \A p, q \in WebRequest :
                webRequest[p].session = webRequest[q].session /\ webRequest[p].session # 0
                => BrowserOf[p] = BrowserOf[q]
        BY DEF SessionInv, OneBrowserPerSession
    <2>2. \A b, d \in Browser : cookie'[b] = cookie'[d] /\ cookie'[b] # 0 => b = d
        BY <1>2, <2>1
    <2>3. ASSUME NEW b \in Browser, NEW q \in WebRequest, cookie[b] = webRequest'[q].session, cookie[b] # 0
          PROVE  b = BrowserOf[q]
        <3>1. q # r
            BY <1>8, <1>9, <1>12, <1>15, <2>3
        <3> QED BY <1>9, <2>1, <2>3, <3>1
    <2>4. \A p, q \in WebRequest :
              webRequest'[p].session = webRequest'[q].session /\ webRequest'[p].session # 0
              => BrowserOf[p] = BrowserOf[q]
        BY <1>8, <1>9, <1>12, <1>14, <2>1
    <2> QED BY <1>2, <2>2, <2>3, <2>4 DEF OneBrowserPerSession
<1>17. \A i \in 0..n : i # 0 => sessions'[i].revoked
    <2>1. \A i \in 0..n : i # 0 => i \in 1..n
        BY <1>8
    <2> QED BY <1>6, <1>7, <2>1
<1>18. "opened" \notin ForSession /\ row.token = issued + 1
    BY DEF ForSession, row
<1>19. AnswersFit'
    <2> SUFFICES ASSUME NEW q \in WebRequest, Alone(BrowserOf[q])
                 PROVE  /\ webRequest'[q].at \in ForSession => webRequest'[q].session = cookie[BrowserOf[q]]
                        /\ webRequest'[q].at \in Carries /\ ~sessions'[webRequest'[q].session].revoked
                           => sessions'[webRequest'[q].session].token = webRequest'[q].token
        BY <1>2 DEF AnswersFit, Alone
    <2>1. CASE q = r
        BY <1>7, <1>9, <1>12, <1>18, <2>1
    <2>2. CASE q # r
        <3>1. webRequest'[q].at \in Carries => webRequest[q].session \in 0..n /\ webRequest[q].session # 0
            <4>1. webRequest'[q] = webRequest[q]
                BY <1>9, <2>2
            <4>2. webRequest[q].at \in Carries => webRequest[q].session \in 1..n
                BY ActsForRow DEF n
            <4>3. \A i \in 1..n : i # 0
                BY <1>8
            <4> QED BY <1>14, <4>1, <4>2, <4>3
        <3> QED BY <1>9, <1>17, <2>2, <3>1 DEF SessionInv, AnswersFit
    <2> QED BY <2>1, <2>2
<1>20. TokenFitsSession'
    BY <1>2, <1>15, <1>17 DEF TokenFitsSession
<1> QED BY <1>11, <1>13, <1>16, <1>19, <1>20 DEF SessionInv

\* The range of one more.
LEMMA RangesGrow == \A n \in Nat :
    /\ 0..n \subseteq 0..n + 1 /\ 1..n \subseteq 1..n + 1 /\ 1..n - 1 \subseteq 1..n
    /\ n + 1 \in 0..n + 1 /\ n + 1 \in 1..n + 1 /\ n + 1 \in Nat
OBVIOUS

\* A new token reaches the row and the one request that carries it; no other browser
\* refers to the session.
LEMMA RotateKeepsSessions == ASSUME SessionInv, NEW r \in WebRequest, RotateToken(r) PROVE SessionInv'
<1> DEFINE n == Len(sessions)
           s == webRequest[r].session
           e == [webRequest[r] EXCEPT !.at = "me done", !.token = issued + 1]
<1>1. /\ webRequest \in [WebRequest -> RequestRow] /\ BrowserOf \in [WebRequest -> Browser]
      /\ cookie \in [Browser -> 0..n] /\ csrfCookie \in [Browser -> 0..issued]
      /\ sessions \in Seq(SessionRow) /\ n \in Nat /\ issued \in Nat
      /\ \A i \in 1..n : sessions[i] \in SessionRow
    BY LoginAssumption, LoginTables DEF SessionInv, RequestRow
<1>2. /\ issued' = issued + 1
      /\ sessions' = IF sessions[s].revoked THEN sessions ELSE [sessions EXCEPT ![s].token = issued + 1]
      /\ webRequest' = [webRequest EXCEPT ![r].at = "me done", ![r].token = issued + 1]
      /\ UNCHANGED <<bootstrapped, loginAttempts, now, cookie, csrfCookie>>
    BY DEF RotateToken
<1>3. webRequest[r].at \in ForSession /\ "me done" \in ForSession \cap Carries
    BY DEF RotateToken, IsAt, ForSession, Carries
<1>4. s \in 1..n /\ sessions[s] \in SessionRow
    BY <1>3, ActsForRow
<1>5. SessionRow \subseteq SessionRow' /\ issued + 1 \in 1..issued'
    <2>1. issued' = issued + 1 /\ issued \in Nat
        BY <1>1, <1>2
    <2>2. 1..issued \subseteq 1..issued' /\ issued + 1 \in 1..issued'
        BY <2>1, RangesGrow
    <2> QED BY <2>2 DEF SessionRow
<1>6. /\ sessions' \in Seq(SessionRow') /\ Len(sessions') = n
      /\ \A i \in 1..n : sessions'[i].revoked = sessions[i].revoked
      /\ \A i \in 1..n : i # s => sessions'[i] = sessions[i]
      /\ ~sessions[s].revoked => sessions'[s].token = issued + 1
    <2> DEFINE new == [sessions[s] EXCEPT !.token = issued + 1]
    <2>1. new \in SessionRow' /\ new.revoked = sessions[s].revoked /\ new.token = issued + 1
        BY <1>4, <1>5 DEF SessionRow
    <2>2. sessions \in Seq(SessionRow')
        BY <1>1, <1>5, SeqMonotonic
    <2>3. ~sessions[s].revoked => sessions' = [sessions EXCEPT ![s] = new]
        BY <1>2
    <2> HIDE DEF new, s
    <2>4. /\ [sessions EXCEPT ![s] = new] \in Seq(SessionRow')
          /\ Len([sessions EXCEPT ![s] = new]) = n
          /\ \A j \in 1..n : [sessions EXCEPT ![s] = new][j] = IF j = s THEN new ELSE sessions[j]
        BY <1>4, <2>1, <2>2, ExceptSeq
    <2>5. CASE sessions[s].revoked
        BY <1>2, <2>2, <2>5 DEF s
    <2>6. CASE ~sessions[s].revoked
        BY <1>4, <2>1, <2>3, <2>4, <2>6
    <2> QED BY <2>5, <2>6
<1>7. /\ webRequest' = [webRequest EXCEPT ![r] = e]
      /\ webRequest'[r] = e /\ \A q \in WebRequest \ {r} : webRequest'[q] = webRequest[q]
    BY <1>1, <1>2
<1>8. e \in RequestRow' /\ RequestRow \subseteq RequestRow'
    <2>1. "me done" \in Stage
        BY DEF Stage
    <2>2. issued + 1 \in 0..issued + 1 /\ 0..issued \subseteq 0..issued + 1
        BY <1>1
    <2>3. webRequest[r] \in RequestRow
        BY <1>1
    <2>4. RequestRow' = [at : Stage, session : 0..n, token : 0..issued + 1]
        BY <1>2, <1>6 DEF RequestRow
    <2> QED BY <2>1, <2>2, <2>3, <2>4 DEF RequestRow
<1>9. e.at = "me done" /\ e.session = s /\ e.token = issued + 1
    BY <1>1 DEF RequestRow
<1> HIDE DEF e, s, n
<1>10. LoginTypeOK'
    <2>1. webRequest' \in [WebRequest -> RequestRow']
        BY <1>1, <1>7, <1>8
    <2>2. csrfCookie' \in [Browser -> 0..issued'] /\ issued' \in Nat
        <3>1. csrfCookie' = csrfCookie /\ csrfCookie \in [Browser -> 0..issued]
              /\ issued' = issued + 1 /\ issued \in Nat
            BY <1>1, <1>2
        <3> QED BY <3>1, RangesGrow
    <2> QED BY <1>1, <1>2, <1>6, <2>1, <2>2 DEF SessionInv, LoginTypeOK, RequestRow, AttemptRow
<1>11. NewestLoginHolds'
    <2>1. \A i \in 1..n - 1 : sessions'[i].revoked
        BY <1>1, <1>6 DEF SessionInv, NewestLoginHolds, n
    <2>2. \A q \in WebRequest : webRequest'[q].at \notin Before => webRequest'[q].session \in 1..n
        BY <1>4, <1>7, <1>9 DEF SessionInv, NewestLoginHolds, Before, n
    <2> QED BY <1>6, <2>1, <2>2 DEF NewestLoginHolds, Before
<1>12. OneBrowserPerSession'
    BY <1>2, <1>7, <1>9, ReferencesStay DEF s
<1>13. \A q \in WebRequest : webRequest[q].session = s => BrowserOf[q] = BrowserOf[r]
    <2>1. s # 0
        BY <1>1, <1>4
    <2> QED BY <2>1 DEF SessionInv, OneBrowserPerSession, s
<1>14. \A d \in Browser : cookie[d] = s => d = BrowserOf[r]
    <2>1. s # 0
        BY <1>1, <1>4
    <2> QED BY <2>1 DEF SessionInv, OneBrowserPerSession, s
<1>15. AnswersFit'
    <2> SUFFICES ASSUME NEW q \in WebRequest, Alone(BrowserOf[q])
                 PROVE  /\ webRequest'[q].at \in ForSession => webRequest'[q].session = cookie[BrowserOf[q]]
                        /\ webRequest'[q].at \in Carries /\ ~sessions'[webRequest'[q].session].revoked
                           => sessions'[webRequest'[q].session].token = webRequest'[q].token
        BY <1>2 DEF AnswersFit, Alone
    <2>1. CASE q = r
        <3>1. s = cookie[BrowserOf[r]]
            BY <1>3, <2>1 DEF SessionInv, AnswersFit, s
        <3> QED BY <1>4, <1>6, <1>7, <1>9, <2>1, <3>1
    <2>2. CASE q # r
        <3>1. webRequest[q].session # s
            BY <1>13, <2>2 DEF Alone
        <3>2. webRequest[q].at \in Carries => sessions'[webRequest[q].session] = sessions[webRequest[q].session]
            BY <1>6, <3>1, ActsForRow DEF n
        <3> QED BY <1>7, <2>2, <3>2 DEF SessionInv, AnswersFit
    <2> QED BY <2>1, <2>2
<1>16. TokenFitsSession'
    <2> SUFFICES ASSUME NEW d \in Browser, Alone(d), Quiet(d)', cookie[d] # 0,
                        ~sessions'[cookie[d]].revoked
                 PROVE  sessions'[cookie[d]].token = csrfCookie[d]
        BY <1>2 DEF TokenFitsSession, Alone
    <2>1. d # BrowserOf[r]
        BY <1>7, <1>9 DEF Quiet
    <2>2. Quiet(d)
        BY <1>7, <2>1 DEF Quiet
    <2>3. cookie[d] \in 1..n /\ cookie[d] # s
        <3>1. \A i \in 0..n : i # 0 => i \in 1..n
            BY <1>1 DEF n
        <3> QED BY <1>1, <1>14, <2>1, <3>1 DEF n
    <2>4. sessions'[cookie[d]] = sessions[cookie[d]]
        BY <1>6, <2>3
    <2> QED BY <2>2, <2>4 DEF SessionInv, TokenFitsSession
<1> QED BY <1>10, <1>11, <1>12, <1>15, <1>16 DEF SessionInv

\* A logout closes its session.
LEMMA RevokeKeepsSessions == ASSUME SessionInv, NEW r \in WebRequest, RevokeSession(r) PROVE SessionInv'
<1> DEFINE n == Len(sessions)
           s == webRequest[r].session
           e == [webRequest[r] EXCEPT !.at = "logout done"]
           new == [sessions[s] EXCEPT !.revoked = TRUE]
<1>1. /\ webRequest \in [WebRequest -> RequestRow] /\ BrowserOf \in [WebRequest -> Browser]
      /\ cookie \in [Browser -> 0..n] /\ n \in Nat
      /\ sessions \in Seq(SessionRow)
    BY LoginAssumption, LoginTables DEF SessionInv, RequestRow
<1>2. /\ sessions' = [sessions EXCEPT ![s] = new] /\ webRequest' = [webRequest EXCEPT ![r] = e]
      /\ UNCHANGED <<bootstrapped, loginAttempts, now, issued, cookie, csrfCookie>>
    BY DEF RevokeSession, Moves
<1>3. webRequest[r].at \in ForSession /\ "logout done" \in ForSession \ Carries
    BY DEF RevokeSession, IsAt, ForSession, Carries
<1>4. s \in 1..n /\ sessions[s] \in SessionRow
    BY <1>3, ActsForRow
<1>5. new \in SessionRow /\ new.revoked = TRUE
    BY <1>4 DEF SessionRow
<1>6. e \in RequestRow /\ e.at = "logout done" /\ e.session = s
    <2>1. webRequest[r] \in RequestRow /\ "logout done" \in Stage
        BY <1>1 DEF Stage
    <2> QED BY <2>1 DEF RequestRow
<1> HIDE DEF e, s, n, new
<1>7. /\ sessions' \in Seq(SessionRow) /\ Len(sessions') = n
      /\ \A i \in 1..n : sessions'[i] = IF i = s THEN new ELSE sessions[i]
    BY <1>1, <1>2, <1>4, <1>5, ExceptSeq DEF n
<1>8. webRequest'[r] = e /\ \A q \in WebRequest \ {r} : webRequest'[q] = webRequest[q]
    BY <1>1, <1>2
<1>9. LoginTypeOK'
    <2>1. webRequest' \in [WebRequest -> RequestRow]
        BY <1>1, <1>2, <1>6
    <2> QED BY <1>2, <1>7, <2>1 DEF SessionInv, LoginTypeOK, RequestRow, AttemptRow, SessionRow, n
<1>10. NewestLoginHolds'
    <2>1. \A i \in 1..n - 1 : sessions'[i].revoked
        <3>1. 1..n - 1 \subseteq 1..n
            BY <1>1, RangesGrow
        <3>2. \A i \in 1..n - 1 : sessions[i].revoked
            BY DEF SessionInv, NewestLoginHolds, n
        <3> QED BY <1>5, <1>7, <3>1, <3>2
    <2>2. \A q \in WebRequest : webRequest'[q].at \notin Before => webRequest'[q].session \in 1..n
        BY <1>4, <1>6, <1>8 DEF SessionInv, NewestLoginHolds, Before, n
    <2> QED BY <1>7, <2>1, <2>2 DEF NewestLoginHolds, Before
<1>11. OneBrowserPerSession'
    BY <1>2, <1>6, ReferencesStay DEF s
<1>12. \A i \in 1..n : ~sessions'[i].revoked => sessions'[i] = sessions[i]
    BY <1>5, <1>7
<1>13. AnswersFit'
    <2> SUFFICES ASSUME NEW q \in WebRequest, Alone(BrowserOf[q])
                 PROVE  /\ webRequest'[q].at \in ForSession => webRequest'[q].session = cookie[BrowserOf[q]]
                        /\ webRequest'[q].at \in Carries /\ ~sessions'[webRequest'[q].session].revoked
                           => sessions'[webRequest'[q].session].token = webRequest'[q].token
        BY <1>2 DEF AnswersFit, Alone
    <2>1. CASE q = r
        BY <1>3, <1>6, <1>8, <2>1 DEF SessionInv, AnswersFit, s
    <2>2. CASE q # r
        <3>1. webRequest[q].at \in Carries => webRequest[q].session \in 1..n
            BY ActsForRow DEF n
        <3> QED BY <1>8, <1>12, <2>2, <3>1 DEF SessionInv, AnswersFit
    <2> QED BY <2>1, <2>2
<1>14. TokenFitsSession'
    <2> SUFFICES ASSUME NEW d \in Browser, Alone(d), Quiet(d)', cookie[d] # 0,
                        ~sessions'[cookie[d]].revoked
                 PROVE  sessions'[cookie[d]].token = csrfCookie[d]
        BY <1>2 DEF TokenFitsSession, Alone
    <2>1. webRequest[r].at \notin {"me done", "login done"}
        BY DEF RevokeSession, IsAt
    <2>2. Quiet(d)
        BY <1>8, <2>1 DEF Quiet
    <2>3. cookie[d] \in 1..n
        <3>1. \A i \in 0..n : i # 0 => i \in 1..n
            BY <1>1 DEF n
        <3> QED BY <1>1, <3>1 DEF n
    <2> QED BY <1>12, <2>2, <2>3 DEF SessionInv, TokenFitsSession
<1> QED BY <1>9, <1>10, <1>11, <1>13, <1>14 DEF SessionInv

\* A refused login ends a request and adds an attempt.
LEMMA RefuseKeepsSessions == ASSUME SessionInv, NEW r \in WebRequest, RefuseLogin(r) PROVE SessionInv'
<1>1. loginAttempts \in Seq(AttemptRow) /\ now \in Nat
    BY LoginTables DEF SessionInv
<1>2. PICK judged \in BOOLEAN : loginAttempts' = Append(loginAttempts, [judged |-> judged, when |-> now])
    BY DEF RefuseLogin, IsAt
<1>3. /\ webRequest' = [webRequest EXCEPT ![r] = Idle] /\ now' = now /\ bootstrapped' = bootstrapped
      /\ UNCHANGED <<sessions, issued, cookie, csrfCookie>>
    BY DEF RefuseLogin, EndsRequest
<1>4. now' \in Nat /\ AttemptRow' = AttemptRow
    BY <1>1, <1>3 DEF AttemptRow
<1>5. bootstrapped' \in BOOLEAN
    BY <1>3, Zenon DEF SessionInv, LoginTypeOK
<1>6. loginAttempts' \in Seq(AttemptRow)'
    <2>1. now \in 0..now
        BY <1>1
    <2>2. [judged |-> judged, when |-> now] \in AttemptRow
        BY <2>1 DEF AttemptRow
    <2> QED BY <1>1, <1>2, <1>4, <2>2, AppendProperties
<1>7. Unanswered(r)
    BY DEF RefuseLogin, Unanswered
<1> QED BY <1>3, <1>4, <1>5, <1>6, <1>7, IdleIsARow, RequestMovesAlone

\* The bootstrap and the clock change nothing that is looked at here.
LEMMA ClockKeepsSessions ==
    ASSUME SessionInv, Bootstrap \/ TimePasses \/ UNCHANGED loginVars
    PROVE  SessionInv'
<1>1. UNCHANGED <<sessions, loginAttempts, issued, webRequest, cookie, csrfCookie>>
    BY DEF Bootstrap, TimePasses, loginVars
<1>2. now \in Nat /\ loginAttempts \in Seq(AttemptRow)
    BY LoginTables DEF SessionInv
<1>3. now' \in {now, now + 1}
    BY DEF Bootstrap, TimePasses, loginVars
<1>4. now' \in Nat /\ AttemptRow \subseteq AttemptRow'
    BY <1>2, <1>3 DEF AttemptRow
<1>5. loginAttempts' \in Seq(AttemptRow')
    BY <1>1, <1>2, <1>4, SeqMonotonic
<1>6. bootstrapped' \in BOOLEAN
    BY Zenon DEF Bootstrap, TimePasses, loginVars, SessionInv, LoginTypeOK
<1>7. LoginTypeOK'
    BY <1>1, <1>4, <1>5, <1>6 DEF SessionInv, LoginTypeOK, SessionRow
<1>8. (NewestLoginHolds /\ OneBrowserPerSession /\ AnswersFit /\ TokenFitsSession)'
    BY <1>1 DEF SessionInv, NewestLoginHolds, OneBrowserPerSession, AnswersFit, TokenFitsSession, Alone, Quiet
<1> QED BY <1>7, <1>8 DEF SessionInv

\* Every step keeps sessions, cookies and requests together.
LEMMA SessionsStep == SessionInv /\ [LoginNext]_loginVars => SessionInv'
<1> SUFFICES ASSUME SessionInv, [LoginNext]_loginVars PROVE SessionInv'
    OBVIOUS
<1>1. CASE Bootstrap \/ TimePasses \/ UNCHANGED loginVars
    BY <1>1, ClockKeepsSessions
<1>2. ASSUME NEW r \in WebRequest,
             \/ BeginLogin(r) \/ CheckLock(r) \/ RecordLogin(r) \/ Send(r, "me") \/ Send(r, "logout")
             \/ RequireUser(r) \/ RequireToken(r) \/ RequestFails(r)
      PROVE  SessionInv'
    BY <1>2, ReadingKeepsSessions
<1>3. ASSUME NEW r \in WebRequest, RefuseLogin(r) PROVE SessionInv'
    BY <1>3, RefuseKeepsSessions
<1>4. ASSUME NEW r \in WebRequest, OpenSession(r) PROVE SessionInv'
    BY <1>4, OpenKeepsSessions
<1>5. ASSUME NEW r \in WebRequest, RotateToken(r) PROVE SessionInv'
    BY <1>5, RotateKeepsSessions
<1>6. ASSUME NEW r \in WebRequest, RevokeSession(r) PROVE SessionInv'
    BY <1>6, RevokeKeepsSessions
<1>7. ASSUME NEW r \in WebRequest, Answer(r) PROVE SessionInv'
    BY <1>7, AnswerKeepsSessions
<1> QED BY <1>1, <1>2, <1>3, <1>4, <1>5, <1>6, <1>7 DEF LoginNext

----------------------------------------------------------------------------
(* Guesses.                                                                *)

\* The failures of a window and the requests about to record one are finitely many.
LEMMA GuessesAreFew == LoginTypeOK =>
    /\ IsFiniteSet(Guesses) /\ Cardinality(Guesses) \in Nat
    /\ IsFiniteSet(Pending) /\ Cardinality(Pending) \in Nat
    /\ Cardinality(WebRequest) \in Nat /\ FailureLimit \in Nat
    /\ Cardinality(Failures) \in Nat
    /\ Cardinality(Guesses) <= Cardinality(Failures)
    /\ Cardinality(Pending) <= Cardinality(WebRequest)
<1> SUFFICES ASSUME LoginTypeOK PROVE
    /\ IsFiniteSet(Guesses) /\ Cardinality(Guesses) \in Nat
    /\ IsFiniteSet(Pending) /\ Cardinality(Pending) \in Nat
    /\ Cardinality(WebRequest) \in Nat /\ FailureLimit \in Nat
    /\ Cardinality(Failures) \in Nat
    /\ Cardinality(Guesses) <= Cardinality(Failures)
    /\ Cardinality(Pending) <= Cardinality(WebRequest)
    OBVIOUS
<1>1. IsFiniteSet(1..Len(loginAttempts))
    BY LoginTables, FS_Interval
<1>2. Failures \subseteq 1..Len(loginAttempts) /\ Guesses \subseteq Failures /\ Pending \subseteq WebRequest
    BY DEF Failures, Guesses, Pending
<1>3. IsFiniteSet(Failures)
    BY <1>1, <1>2, FS_Subset
<1>4. IsFiniteSet(Guesses) /\ Cardinality(Guesses) <= Cardinality(Failures)
    BY <1>2, <1>3, FS_Subset
<1>5. IsFiniteSet(Pending) /\ Cardinality(Pending) <= Cardinality(WebRequest)
    BY <1>2, LoginAssumption, FS_Subset
<1> QED BY <1>3, <1>4, <1>5, LoginAssumption, FS_CardinalityType

\* What adds neither a failure nor a request about to record one keeps the bound.
LEMMA FewerKeepsGuesses ==
    ASSUME LoginTypeOK, LoginTypeOK', GuessesInFlight, Guesses' \subseteq Guesses, Pending' \subseteq Pending
    PROVE  GuessesInFlight'
<1>1. Cardinality(Guesses') <= Cardinality(Guesses)
    BY GuessesAreFew, FS_Subset
<1>2. Cardinality(Pending') <= Cardinality(Pending)
    BY GuessesAreFew, FS_Subset
<1>3. Cardinality(Guesses') \in Nat /\ Cardinality(Pending') \in Nat
    BY GuessesAreFew, FS_Subset, FS_CardinalityType
<1> QED BY <1>1, <1>2, <1>3, GuessesAreFew DEF GuessesInFlight

\* The lock is looked at: a request that goes on to judge a password saw fewer failures
\* than the limit, and all requests together are no more than Request.
LEMMA CheckLockKeepsGuesses ==
    ASSUME LoginTypeOK, LoginTypeOK', GuessesInFlight, NEW r \in WebRequest, CheckLock(r)
    PROVE  GuessesInFlight'
<1>1. UNCHANGED <<loginAttempts, now>>
    BY DEF CheckLock, serverVars
<1>2. Guesses' = Guesses
    BY <1>1 DEF Guesses, Failures
<1>3. CASE Locked
    <2>1. webRequest' = [webRequest EXCEPT ![r].at = "locked"]
        BY <1>3 DEF CheckLock, Moves
    <2>2. Pending' \subseteq Pending
        BY <2>1, LoginTables DEF Pending
    <2> QED BY <1>2, <2>2, FewerKeepsGuesses
<1>4. CASE ~Locked
    <2>1. Cardinality(Failures) < FailureLimit
        BY <1>4, GuessesAreFew DEF Locked
    <2>2. Cardinality(Guesses') <= FailureLimit - 1
        BY <1>2, <2>1, GuessesAreFew
    <2>3. Cardinality(Pending') <= Cardinality(WebRequest)
        <3>1. Pending' \subseteq WebRequest /\ IsFiniteSet(WebRequest)
            BY LoginAssumption DEF Pending
        <3> QED BY <3>1, FS_Subset
    <2>4. Cardinality(Pending') \in Nat /\ Cardinality(Guesses') \in Nat
        <3>1. Pending' \subseteq WebRequest /\ IsFiniteSet(WebRequest)
            BY LoginAssumption DEF Pending
        <3> QED BY <1>2, <3>1, GuessesAreFew, FS_Subset, FS_CardinalityType
    <2> QED BY <2>2, <2>3, <2>4, GuessesAreFew DEF GuessesInFlight
<1> QED BY <1>3, <1>4

\* A refused login: a judged password turns from pending to recorded, and one that was
\* not judged is not counted.
LEMMA RefuseKeepsGuesses ==
    ASSUME LoginTypeOK, LoginTypeOK', GuessesInFlight, NEW r \in WebRequest, RefuseLogin(r)
    PROVE  GuessesInFlight'
<1> DEFINE n == Len(loginAttempts)
<1>1. loginAttempts \in Seq(AttemptRow) /\ n \in Nat /\ now' = now
    BY LoginTables DEF RefuseLogin
<1>2. loginAttempts' = Append(loginAttempts, [judged |-> webRequest[r].at = "wrong", when |-> now])
    BY DEF RefuseLogin, IsAt
<1>3. /\ Len(loginAttempts') = n + 1
      /\ \A i \in 1..n : loginAttempts'[i] = loginAttempts[i]
      /\ loginAttempts'[n + 1] = [judged |-> webRequest[r].at = "wrong", when |-> now]
    BY <1>1, <1>2, AppendProperties
<1>4. loginAttempts'[n + 1].judged = (webRequest[r].at = "wrong")
    BY <1>3
<1>5. \A i \in 1..n + 1 : i \in 1..n \/ i = n + 1
    BY <1>1
<1>6. n + 1 \notin 1..n
    BY <1>1
<1>7. Guesses \subseteq 1..n
    BY DEF Guesses, Failures
<1> HIDE DEF n
<1>8. \A i \in Guesses' : i \in Guesses \/ (i = n + 1 /\ loginAttempts'[n + 1].judged)
    <2> SUFFICES ASSUME NEW i \in Guesses' PROVE i \in Guesses \/ (i = n + 1 /\ loginAttempts'[n + 1].judged)
        OBVIOUS
    <2>1. i \in 1..n + 1 /\ loginAttempts'[i].judged /\ loginAttempts'[i].when >= now - LockoutWindow
        BY <1>1, <1>3 DEF Guesses, Failures
    <2>2. CASE i = n + 1
        BY <2>1, <2>2
    <2>3. CASE i \in 1..n
        <3>1. loginAttempts[i].judged /\ loginAttempts[i].when >= now - LockoutWindow
            BY <1>3, <2>1, <2>3
        <3>2. i \in 1..Len(loginAttempts)
            BY <2>3 DEF n
        <3>3. i \in Failures
            BY <3>1, <3>2, Zenon DEF Failures
        <3> QED BY <3>1, <3>3, Zenon DEF Guesses
    <2> QED BY <1>5, <2>1, <2>2, <2>3
<1>9. \A q \in WebRequest : q \in Pending' <=> q \in Pending /\ q # r
    BY LoginTables DEF RefuseLogin, EndsRequest, Pending, Idle
<1>10. CASE webRequest[r].at = "wrong"
    <2>1. r \in Pending /\ Pending' = Pending \ {r}
        BY <1>9, <1>10 DEF Pending
    <2>2. Cardinality(Pending') = Cardinality(Pending) - 1
        BY <2>1, GuessesAreFew, FS_RemoveElement
    <2>3. Guesses' \subseteq Guesses \cup {n + 1}
        BY <1>8
    <2>4. n + 1 \notin Guesses
        BY <1>6, <1>7
    <2>5. IsFiniteSet(Guesses \cup {n + 1})
          /\ Cardinality(Guesses \cup {n + 1}) = Cardinality(Guesses) + 1
        BY <2>4, GuessesAreFew, FS_AddElement, Zenon
    <2>6. Cardinality(Guesses') <= Cardinality(Guesses) + 1 /\ Cardinality(Guesses') \in Nat
        BY <2>3, <2>5, FS_Subset, FS_CardinalityType
    <2> QED BY <2>2, <2>6, GuessesAreFew DEF GuessesInFlight
<1>11. CASE webRequest[r].at # "wrong"
    <2>1. Guesses' \subseteq Guesses
        BY <1>4, <1>8, <1>11, Zenon
    <2>2. Pending' \subseteq Pending
        BY <1>9 DEF Pending
    <2> QED BY <2>1, <2>2, FewerKeepsGuesses
<1> QED BY <1>10, <1>11

\* The clock moves failures out of the window and none into it.
LEMMA TickKeepsGuesses ==
    ASSUME LoginTypeOK, LoginTypeOK', GuessesInFlight, TimePasses
    PROVE  GuessesInFlight'
<1>1. UNCHANGED <<loginAttempts, webRequest>> /\ now' = now + 1
    BY DEF TimePasses
<1>2. now \in Nat /\ LockoutWindow \in Nat
    BY LoginTables, LoginAssumption
<1>3. \A i \in 1..Len(loginAttempts) : loginAttempts[i] \in AttemptRow
    BY ElementOfSeq, LoginTables
<1>4. \A i \in 1..Len(loginAttempts) : loginAttempts[i].when \in Nat
    BY <1>2, <1>3 DEF AttemptRow
<1>5. \A i \in 1..Len(loginAttempts) :
          loginAttempts[i].when >= now + 1 - LockoutWindow => loginAttempts[i].when >= now - LockoutWindow
    BY <1>2, <1>4
<1>6. Guesses' \subseteq Guesses /\ Pending' \subseteq Pending
    <2>1. Failures' \subseteq Failures
        <3> SUFFICES ASSUME NEW i \in Failures' PROVE i \in Failures
            OBVIOUS
        <3>1. i \in 1..Len(loginAttempts) /\ loginAttempts[i].when >= now + 1 - LockoutWindow
            <4>1. i \in 1..Len(loginAttempts') /\ loginAttempts'[i].when >= now' - LockoutWindow
                BY Zenon DEF Failures
            <4> QED BY <1>1, <1>2, <1>4, <4>1
        <3>2. loginAttempts[i].when >= now - LockoutWindow
            BY <1>5, <3>1
        <3> QED BY <3>1, <3>2 DEF Failures
    <2> QED BY <1>1, <2>1 DEF Guesses, Pending
<1> QED BY <1>6, FewerKeepsGuesses

\* A request that goes on to another stage is not pending.
LEMMA NotPending ==
    ASSUME LoginTypeOK, NEW r \in WebRequest, NEW e, webRequest' = [webRequest EXCEPT ![r] = e], e.at # "wrong"
    PROVE  Pending' \subseteq Pending
<1>1. webRequest'[r] = e /\ \A q \in WebRequest \ {r} : webRequest'[q] = webRequest[q]
    BY LoginTables
<1> QED BY <1>1 DEF Pending

\* So is one of which only the stage changes.
LEMMA MovesNotPending ==
    ASSUME LoginTypeOK, NEW r \in WebRequest, NEW to \in Stage \ {"wrong"}, Moves(r, to)
    PROVE  Pending' \subseteq Pending
<1>1. webRequest' = [webRequest EXCEPT ![r] = [webRequest[r] EXCEPT !.at = to]]
    BY DEF Moves
<1>2. [webRequest[r] EXCEPT !.at = to].at = to
    BY LoginTables
<1> QED BY <1>1, <1>2, NotPending

\* Every step keeps the failures of a window and those to come within the bound.
LEMMA GuessesStep ==
    LoginTypeOK /\ LoginTypeOK' /\ GuessesInFlight /\ [LoginNext]_loginVars => GuessesInFlight'
<1> SUFFICES ASSUME LoginTypeOK, LoginTypeOK', GuessesInFlight, [LoginNext]_loginVars
             PROVE  GuessesInFlight'
    OBVIOUS
<1>1. webRequest \in [WebRequest -> [at : Stage, session : 0..Len(sessions), token : 0..issued]]
    BY LoginTables
<1>2. CASE Bootstrap \/ UNCHANGED loginVars
    <2>1. UNCHANGED <<loginAttempts, now, webRequest>>
        BY <1>2 DEF Bootstrap, loginVars
    <2> QED BY <2>1 DEF GuessesInFlight, Guesses, Failures, Pending
<1>3. CASE TimePasses
    BY <1>3, TickKeepsGuesses
<1>4. ASSUME NEW r \in WebRequest, CheckLock(r) PROVE GuessesInFlight'
    BY <1>4, CheckLockKeepsGuesses
<1>5. ASSUME NEW r \in WebRequest, RefuseLogin(r) PROVE GuessesInFlight'
    BY <1>5, RefuseKeepsGuesses
<1>6. ASSUME NEW r \in WebRequest,
             \/ BeginLogin(r) \/ RecordLogin(r) \/ RequireUser(r) \/ RequestFails(r)
             \/ RequireToken(r) \/ Answer(r) \/ RotateToken(r) \/ RevokeSession(r)
             \/ OpenSession(r) \/ Send(r, "me") \/ Send(r, "logout")
      PROVE  GuessesInFlight'
    <2>1. UNCHANGED <<loginAttempts, now>>
        BY <1>6 DEF BeginLogin, RecordLogin, RequireUser, RequestFails, RequireToken, Answer,
                    RotateToken, RevokeSession, OpenSession, Send, serverVars
    <2>2. EndsRequest(r) => Pending' \subseteq Pending
        <3>1. Idle.at # "wrong" /\ (EndsRequest(r) => webRequest' = [webRequest EXCEPT ![r] = Idle])
            BY DEF EndsRequest, Idle
        <3> HIDE DEF Idle
        <3> QED BY <3>1, NotPending
    <2>3. \A to \in Stage \ {"wrong"} : Moves(r, to) => Pending' \subseteq Pending
        BY MovesNotPending
    <2>4. Pending' \subseteq Pending
        <3>1. CASE BeginLogin(r) \/ RecordLogin(r) \/ RequireUser(r) \/ RequestFails(r)
            <4>1. \/ EndsRequest(r)
                  \/ \E to \in {"looked", "unknown", "login done", "me admitted", "logout admitted"} :
                         Moves(r, to)
                BY <3>1 DEF BeginLogin, RecordLogin, RequireUser, RequestFails
            <4> QED BY <2>2, <2>3, <4>1 DEF Stage
        <3>2. CASE RequireToken(r)
            <4>1. EndsRequest(r) \/ webRequest' = [webRequest EXCEPT ![r] =
                                 [webRequest[r] EXCEPT !.at = "logout verified", !.token = 0]]
                BY <3>2 DEF RequireToken
            <4>2. [webRequest[r] EXCEPT !.at = "logout verified", !.token = 0].at = "logout verified"
                BY <1>1
            <4> QED BY <2>2, <4>1, <4>2, NotPending
        <3>3. CASE Answer(r)
            BY <2>2, <3>3 DEF Answer
        <3>4. CASE RotateToken(r)
            <4>1. webRequest' = [webRequest EXCEPT ![r] = [webRequest[r] EXCEPT !.at = "me done", !.token = issued']]
                BY <3>4 DEF RotateToken
            <4>2. [webRequest[r] EXCEPT !.at = "me done", !.token = issued'].at = "me done"
                BY <1>1
            <4> QED BY <4>1, <4>2, NotPending
        <3>5. CASE RevokeSession(r)
            BY <2>3, <3>5 DEF RevokeSession, Stage
        <3>6. CASE OpenSession(r)
            <4> DEFINE e == [at |-> "opened", session |-> Len(sessions'), token |-> issued']
            <4>1. webRequest' = [webRequest EXCEPT ![r] = e] /\ e.at # "wrong"
                BY <3>6 DEF OpenSession
            <4> HIDE DEF e
            <4> QED BY <4>1, NotPending
        <3>7. ASSUME NEW kind \in {"me", "logout"}, Send(r, kind) PROVE Pending' \subseteq Pending
            <4> DEFINE e == [at |-> kind, session |-> cookie[BrowserOf[r]],
                             token |-> IF kind = "logout" THEN csrfCookie[BrowserOf[r]] ELSE 0]
            <4>1. webRequest' = [webRequest EXCEPT ![r] = e] /\ e.at # "wrong"
                BY <3>7 DEF Send
            <4> HIDE DEF e
            <4> QED BY <4>1, NotPending
        <3> QED BY <1>6, <3>1, <3>2, <3>3, <3>4, <3>5, <3>6, <3>7
    <2>5. Guesses' = Guesses
        BY <2>1 DEF Guesses, Failures
    <2> QED BY <2>4, <2>5, FewerKeepsGuesses
<1> QED BY <1>2, <1>3, <1>4, <1>5, <1>6 DEF LoginNext

----------------------------------------------------------------------------
(* The theorems.                                                           *)

\* No attempt has been made.
LEMMA GuessesBegin == LoginInit => GuessesInFlight
<1> SUFFICES ASSUME LoginInit PROVE GuessesInFlight
    OBVIOUS
<1>1. Guesses = {} /\ Pending = {}
    BY DEF LoginInit, Guesses, Failures, Pending, Idle
<1>2. Cardinality(WebRequest) \in Nat
    BY LoginAssumption, FS_CardinalityType
<1> QED BY <1>1, <1>2, FS_EmptySet, LoginAssumption DEF GuessesInFlight

\* However requests interleave and wherever they fail, tables, cookies and requests stay
\* together (the store calls of login, me and logout).
THEOREM LoginInvariant == LoginSpec => []LoginInv
<1>1. LoginInit => LoginInv
    BY SessionsBegin, GuessesBegin DEF LoginInv
<1>2. LoginInv /\ [LoginNext]_loginVars => LoginInv'
    <2> SUFFICES ASSUME LoginInv, [LoginNext]_loginVars PROVE LoginInv'
        OBVIOUS
    <2>1. SessionInv'
        BY SessionsStep DEF LoginInv
    <2> QED BY <2>1, GuessesStep DEF LoginInv, SessionInv
<1> QED BY <1>1, <1>2, PTL DEF LoginSpec

\* Tables, cookies and requests are what they can be.
THEOREM LoginIsTyped == LoginSpec => []LoginTypeOK
<1>1. LoginInv => LoginTypeOK
    BY DEF LoginInv, SessionInv
<1> QED BY <1>1, LoginInvariant, PTL

\* Only the session of the newest login can answer (create_user_session).
THEOREM NewestLoginStays == LoginSpec => []NewestLoginHolds
<1>1. LoginInv => NewestLoginHolds
    BY DEF LoginInv, SessionInv
<1> QED BY <1>1, LoginInvariant, PTL

\* A browser with one request at a time holds its session's CSRF token, whatever other
\* browsers do (rotate_session_csrf, verify_session_csrf).
THEOREM TokenStaysFitting == LoginSpec => []TokenFitsSession
<1>1. LoginInv => TokenFitsSession
    BY DEF LoginInv, SessionInv
<1> QED BY <1>1, LoginInvariant, PTL

\* The lockout bounds the judged and failed passwords of any window by its limit and the
\* requests in flight (is_login_locked, record_login_attempt).
THEOREM GuessesStayBounded == LoginSpec => []GuessesAreBounded
<1>1. LoginInv => GuessesAreBounded
    BY GuessesAreFew DEF LoginInv, SessionInv, GuessesInFlight, GuessesAreBounded
<1> QED BY <1>1, LoginInvariant, PTL

----------------------------------------------------------------------------
(* Requirement triage: the store's proofs carry over, since every step of  *)
(* a request or of an extraction thread is one of the store's methods.     *)

\* The status of a session's triage tells whether there are criteria.
BlankMeansNone == \A s \in Session : triage[s] = "blank" <=> criteria[s] = NoCriteria

\* The live extraction threads and the registry name each other.
RegistryIsExact ==
    /\ \A s, r \in Session : registered[s] = registered[r] /\ registered[s] # NoThread => s = r
    /\ \A s \in Session : registered[s] # NoThread => stage[registered[s]] # "dead"
    /\ \A x \in Extractor : stage[x] # "dead" => \E s \in Session : registered[s] = x

TriageInv ==
    /\ StoreInv /\ TriageTypeOK
    /\ BlankMeansNone /\ ApprovalCoversContent
    /\ RegistryIsExact

\* A new session has neither criteria nor an extraction.
LEMMA InitTriage == TriageInit => TriageInv
<1> SUFFICES ASSUME TriageInit PROVE TriageInv
  OBVIOUS
<1>1. StoreInv
  BY InitInv DEF TriageInit
<1>2. TriageTypeOK
  BY DEF TriageInit, TriageTypeOK, Criteria, Snapshot, Unclaimed
<1>3. BlankMeansNone /\ ApprovalCoversContent
  BY DEF TriageInit, Init, BlankMeansNone, ApprovalCoversContent
<1>4. RegistryIsExact
  BY DEF TriageInit, RegistryIsExact
<1> QED
  BY <1>1, <1>2, <1>3, <1>4 DEF TriageInv

\* Every step moves the store by one of its methods.
LEMMA TriageStepsStore ==
    ASSUME [TriageNext]_vars
    PROVE  [Next]_storeVars
<1>1. ASSUME NEW s \in Session,
             \/ SaveCriteria(s) \/ Approve(s) \/ BeginPrepare(s) \/ EndPrepare(s)
             \/ ReadCriteria(s) \/ SaveExtraction(s) \/ ExtractionFails(s) \/ Leave(s)
      PROVE  [Next]_storeVars
  BY <1>1 DEF SaveCriteria, Approve, BeginPrepare, EndPrepare, ReadCriteria, SaveExtraction,
              ExtractionFails, Leave, Replace, Next, SessionStep
<1>2. CASE \E j \in Job : ClaimWithCriteria(j)
  BY <1>2 DEF ClaimWithCriteria, Next, JobStep
<1>3. CASE OtherStoreStep
  BY <1>3 DEF OtherStoreStep, Next, SessionStep, JobStep
<1>4. CASE Restart \/ UNCHANGED vars
  BY <1>4 DEF Restart, vars
<1> QED
  BY <1>1, <1>2, <1>3, <1>4 DEF TriageNext

-----------------------------------------------------------------------------
(* Criteria and approvals.                                                 *)

\* Replacing the criteria, by whomever, keeps approvals and contents together: it
\* withdraws the approval of the session.
LEMMA ReplaceKeeps ==
    ASSUME TriageInv, NEW s \in Session, NEW c \in Criteria, Replace(s, c)
    PROVE  /\ criteria' \in [Session -> Criteria] /\ approved' = approved
           /\ BlankMeansNone' /\ ApprovalCoversContent'
<1>1. /\ criteria' = [criteria EXCEPT ![s] = c] /\ approved' = approved
      /\ triage'[s] = (IF c = NoCriteria THEN "blank" ELSE "draft")
      /\ \A r \in Session : r # s => triage'[r] = triage[r]
  BY DEF Replace, UpdateTriage, TriageInv, StoreInv, TypeOK
<1> QED
  BY <1>1 DEF TriageInv, TriageTypeOK, BlankMeansNone, ApprovalCoversContent

\* Steps of the store that are not of the triage leave criteria and approvals alone.
LEMMA ContentsUntouched ==
    ASSUME TriageInv, UNCHANGED <<triage, criteria, approved>>
    PROVE  BlankMeansNone' /\ ApprovalCoversContent'
BY DEF TriageInv, BlankMeansNone, ApprovalCoversContent

\* Every step keeps approvals and contents together.
LEMMA ContentsKept ==
    ASSUME TriageInv, [TriageNext]_vars
    PROVE  BlankMeansNone' /\ ApprovalCoversContent'
<1>1. ASSUME NEW s \in Session, SaveCriteria(s) \/ SaveExtraction(s)
      PROVE  BlankMeansNone' /\ ApprovalCoversContent'
  BY <1>1, ReplaceKeeps DEF SaveCriteria, SaveExtraction, Criteria
<1>2. ASSUME NEW s \in Session, Approve(s)
      PROVE  BlankMeansNone' /\ ApprovalCoversContent'
  <2>1. /\ triage' = [triage EXCEPT ![s] = "approved"] /\ triage[s] # "blank"
        /\ approved' = [approved EXCEPT ![s] = criteria[s]] /\ criteria' = criteria
    BY <1>2 DEF Approve, ApproveTriage
  <2> QED
    BY <2>1 DEF TriageInv, StoreInv, TypeOK, TriageTypeOK, BlankMeansNone, ApprovalCoversContent
<1>3. ASSUME NEW s \in Session,
             BeginPrepare(s) \/ EndPrepare(s) \/ ReadCriteria(s) \/ ExtractionFails(s) \/ Leave(s)
      PROVE  UNCHANGED <<triage, criteria, approved>>
  BY <1>3 DEF BeginPrepare, EndPrepare, ReadCriteria, ExtractionFails, Leave, storeVars
<1>4. CASE (\E j \in Job : ClaimWithCriteria(j)) \/ Restart \/ UNCHANGED vars
  <2>1. UNCHANGED <<triage, criteria, approved>>
    BY <1>4 DEF ClaimWithCriteria, Claim, Restart, vars, storeVars, triageVars
  <2> QED
    BY <2>1, ContentsUntouched
<1>5. CASE OtherStoreStep
  <2>1. UNCHANGED <<triage, criteria, approved>>
    BY <1>5 DEF OtherStoreStep, triageVars, CreateSession,
       ConnectionStep, CreateConnection, StartLogin, MarkConnected, MarkConnectedWithoutRuns,
       MarkConnectedForRun, MarkLoginRequired, BlockForProbe, StartJob, InsertJob, ExtendLease,
       MarkFailed, CompleteCts, CompleteLiepin, Finish, ReconcileExpired, Tick
  <2> QED
    BY <2>1, ContentsUntouched
<1> QED
  BY <1>1, <1>2, <1>3, <1>4, <1>5, ContentsUntouched DEF TriageNext

-----------------------------------------------------------------------------
(* Extraction threads.                                                     *)

\* A thread of the registry that moves on, without ending, leaves the registry exact.
LEMMA ThreadMovesOn ==
    ASSUME TriageTypeOK, RegistryIsExact, NEW s \in Session, NEW where \in {"extracting", "leaving"},
           registered[s] # NoThread, Goto(s, where), registered' = registered
    PROVE  stage' \in [Extractor -> {"dead", "reading", "extracting", "leaving"}] /\ RegistryIsExact'
BY DEF TriageTypeOK, RegistryIsExact, Goto

\* Every step keeps the types, and the registry exact.
LEMMA RegistryKept ==
    ASSUME TriageInv, [TriageNext]_vars
    PROVE  TriageTypeOK' /\ RegistryIsExact'
<1> USE DEF TriageInv, TriageTypeOK
<1>1. ASSUME NEW s \in Session, SaveCriteria(s)
      PROVE  TriageTypeOK' /\ RegistryIsExact'
  BY <1>1, ReplaceKeeps DEF SaveCriteria, Criteria, RegistryIsExact
<1>2. ASSUME NEW s \in Session, Approve(s) \/ BeginPrepare(s)
      PROVE  TriageTypeOK' /\ RegistryIsExact'
  BY <1>2 DEF Approve, BeginPrepare, RegistryIsExact
<1>3. ASSUME NEW s \in Session, EndPrepare(s)
      PROVE  TriageTypeOK' /\ RegistryIsExact'
  <2>1. UNCHANGED <<criteria, approved, used>> /\ preparing' \subseteq Session
    BY <1>3 DEF EndPrepare
  <2>2. CASE UNCHANGED <<registered, stage>>
    BY <2>1, <2>2 DEF RegistryIsExact
  <2>3. ASSUME NEW x \in Extractor, stage[x] = "dead", registered[s] = NoThread,
               registered' = [registered EXCEPT ![s] = x], stage' = [stage EXCEPT ![x] = "reading"]
        PROVE  TriageTypeOK' /\ RegistryIsExact'
    <3>1. TriageTypeOK'
      BY <2>1, <2>3
    <3>2. \A r \in Session : registered[r] # x
      BY <2>3, CriteriaAssumption DEF RegistryIsExact
    <3> QED
      BY <2>3, <3>1, <3>2, CriteriaAssumption DEF RegistryIsExact
  <2> QED
    BY <1>3, <2>2, <2>3 DEF EndPrepare
<1>4. ASSUME NEW s \in Session, ReadCriteria(s) \/ SaveExtraction(s) \/ ExtractionFails(s)
      PROVE  TriageTypeOK' /\ RegistryIsExact'
  <2>1. /\ registered[s] # NoThread /\ registered' = registered
        /\ \E where \in {"extracting", "leaving"} : Goto(s, where)
    BY <1>4 DEF ReadCriteria, SaveExtraction, ExtractionFails, At
  <2>2. stage' \in [Extractor -> {"dead", "reading", "extracting", "leaving"}] /\ RegistryIsExact'
    BY <2>1, ThreadMovesOn
  <2>3. criteria' \in [Session -> Criteria] /\ approved' = approved /\ preparing' = preparing /\ used' = used
    BY <1>4, ReplaceKeeps DEF ReadCriteria, SaveExtraction, ExtractionFails, Criteria
  <2> QED
    BY <2>1, <2>2, <2>3
<1>5. ASSUME NEW s \in Session, Leave(s)
      PROVE  TriageTypeOK' /\ RegistryIsExact'
  BY <1>5, CriteriaAssumption DEF Leave, At, Goto, RegistryIsExact
<1>6. ASSUME NEW j \in Job, ClaimWithCriteria(j)
      PROVE  TriageTypeOK' /\ RegistryIsExact'
  <2>1. jobRun[j] \in Run
    BY <1>6, RunOfActiveJob DEF ClaimWithCriteria, Claim, Active
  <2>2. [criteria |-> criteria[SessionOf[jobRun[j]]], status |-> triage[SessionOf[jobRun[j]]]] \in Snapshot
    BY <2>1, RunAssumption DEF Snapshot, StoreInv, TypeOK
  <2> QED
    BY <1>6, <2>2 DEF ClaimWithCriteria, RegistryIsExact
<1>7. CASE Restart
  BY <1>7 DEF Restart, RegistryIsExact
<1>8. CASE OtherStoreStep \/ UNCHANGED vars
  BY <1>8 DEF OtherStoreStep, vars, triageVars, RegistryIsExact
<1> QED
  BY <1>1, <1>2, <1>3, <1>4, <1>5, <1>6, <1>7, <1>8 DEF TriageNext

\* An exact registry gives every live thread exactly one session.
LEMMA OneSessionPerThread == RegistryIsExact /\ TriageTypeOK => OneExtractionPerSession
<1> SUFFICES ASSUME RegistryIsExact, TriageTypeOK, NEW x \in Extractor, stage[x] # "dead"
             PROVE  Cardinality({s \in Session : registered[s] = x}) = 1
  BY DEF OneExtractionPerSession
<1>1. PICK s \in Session : registered[s] = x
  BY DEF RegistryIsExact
<1>2. {r \in Session : registered[r] = x} = {s}
  BY <1>1, CriteriaAssumption DEF RegistryIsExact
<1> QED
  BY <1>2, FS_Singleton

-----------------------------------------------------------------------------
(* Theorems.                                                               *)

\* The invariant of triage and store holds in every reachable state.
THEOREM TriageInvariant == TriageSpec => []TriageInv
<1>1. TriageInv /\ [TriageNext]_vars => TriageInv'
  BY TriageStepsStore, NextInv, ContentsKept, RegistryKept DEF TriageInv
<1> QED
  BY <1>1, InitTriage, PTL DEF TriageSpec

\* An approval stands for the criteria that were approved, and a session has one
\* extraction at a time, however requests, threads and restarts interleave
\* (update_requirement_triage, approve_requirement_triage, start_requirement_triage).
THEOREM TriageStaysKept == TriageSpec => []TriageIsKept
<1>1. TriageInv => TriageIsKept
  BY OneSessionPerThread DEF TriageInv, TriageIsKept
<1> QED
  BY <1>1, TriageInvariant, PTL

\* The requests and threads of the triage implement the store: what is proved of it holds
\* of every behaviour with criteria in it.
THEOREM TriageImplementsStore == TriageSpec => Spec
<1>1. TriageInit => Init
  BY DEF TriageInit
<1> QED
  BY <1>1, TriageStepsStore, PTL DEF TriageSpec, Spec
=============================================================================
