-------------------------- MODULE RuntimeRunProofs --------------------------
(***************************************************************************)
(* Proofs about RuntimeRun, for any terms, sources, resumes, plans and     *)
(* limits: the stores a run leaves behind agree with how it went           *)
(* (StoresAgree), a run stops early for a reason it has earned             *)
(* (StopsEarned), nobody is left out of the shortlist for somebody worse   *)
(* (PoolsAreFair), and a round sends a query that is accepted and, where   *)
(* the gate wants one, new (RoundsStaySound).                              *)
(*                                                                         *)
(* Stores need to know only which steps touch them: all others are of the  *)
(* frame (FrameStep).  A stop is earned because the gates read what the    *)
(* rounds before have counted (RoundsCounted), in the shape that the stage *)
(* of the round allows (RunShape).  Fairness is a matter of orders: the    *)
(* first k of a set under a key without ties hold every element that comes *)
(* before one of them.  The queries are sound because every way a decision *)
(* can go ends in one of three forms, the anchor alone or with one or two  *)
(* other terms, each of which is accepted (GoodPlan, PlansKept).           *)
(***************************************************************************)
EXTENDS RuntimeRun, RetrievalLoopProofs, SequenceTheorems

----------------------------------------------------------------------------
(* Orders: a finite set under a key of integers that tells its elements    *)
(* apart has a first element, and as many elements of a place below k as   *)
(* one expects (for orders and ranks see RetrievalLoopProofs).             *)

\* The elements with fewer than k ahead of them are k, or all of them.
LEMMA FirstCardinality ==
    ASSUME NEW X, IsFiniteSet(X), NEW key, Ordered(X, key), NEW k \in Nat
    PROVE  LET first == {r \in X : Cardinality(Ahead(X, key, r)) < k}
           IN  /\ IsFiniteSet(first)
               /\ Cardinality(first) = IF Cardinality(X) < k THEN Cardinality(X) ELSE k
<1> DEFINE first == {r \in X : Cardinality(Ahead(X, key, r)) < k}
           n == IF Cardinality(X) < k THEN Cardinality(X) ELSE k
           rank == [r \in first |-> Ranks(X, key)[r]]
<1>1. Cardinality(X) \in Nat /\ n \in Nat /\ n <= Cardinality(X) /\ n <= k
  BY FS_CardinalityType
<1>2. \A r \in X : Ranks(X, key)[r] = Cardinality(Ahead(X, key, r))
  BY DEF Ranks
<1>3. /\ Ranks(X, key) \in [X -> 0..(Cardinality(X) - 1)]
      /\ \A r, x \in X : Ranks(X, key)[r] = Ranks(X, key)[x] => r = x
      /\ \A i \in 0..(Cardinality(X) - 1) : \E r \in X : Ranks(X, key)[r] = i
  BY RankIsBijection DEF Bijection, Injection, IsInjective, Surjection
<1>4. rank \in [first -> 0..(n - 1)]
  BY <1>1, <1>2, <1>3
<1>5. \A r, x \in first : rank[r] = rank[x] => r = x
  BY <1>3
<1>6. ASSUME NEW i \in 0..(n - 1) PROVE \E r \in first : rank[r] = i
  <2>1. PICK r \in X : Ranks(X, key)[r] = i
    BY <1>1, <1>3
  <2>2. r \in first
    BY <1>1, <1>2, <2>1
  <2> QED
    BY <2>1, <2>2
<1>7. rank \in Bijection(first, 0..(n - 1))
  BY <1>4, <1>5, <1>6 DEF Bijection, Injection, IsInjective, Surjection
<1>8. IsFiniteSet(first)
  <2>1. first \in SUBSET X
    OBVIOUS
  <2> QED
    BY <2>1, FS_Subset
<1>9. Cardinality(0..(n - 1)) = n
  <2> HIDE DEF n
  <2>1. n \in Nat /\ n - 1 \in Int
    BY <1>1
  <2> QED
    BY <2>1, FS_Interval
<1>10. Cardinality(first) = n
  BY <1>7, <1>8, <1>9, FS_Bijection DEF ExistsBijection
<1> QED
  BY <1>8, <1>10

LEMMA FirstExists ==
    ASSUME NEW X, IsFiniteSet(X), X # {}, NEW key, Ordered(X, key)
    PROVE  \E r \in X : \A x \in X : key[r] <= key[x]
<1>1. Cardinality(X) \in Nat /\ Cardinality(X) # 0
  BY FS_CardinalityType, FS_EmptySet
<1>2. PICK r \in X : Ranks(X, key)[r] = 0
  BY <1>1, RankIsBijection DEF Bijection, Surjection
<1>3. Cardinality(Ahead(X, key, r)) = 0
  BY <1>2 DEF Ranks
<1>4. Ahead(X, key, r) = {}
  BY <1>3, AheadIsProper, FS_EmptySet
<1> QED
  BY <1>4 DEF Ahead, Ordered

LEMMA LastExists ==
    ASSUME NEW X, IsFiniteSet(X), X # {}, NEW key, Ordered(X, key)
    PROVE  \E r \in X : \A x \in X : key[r] >= key[x]
<1> DEFINE back == [r \in X |-> -key[r]]
<1>1. Ordered(X, back)
  BY DEF Ordered
<1>2. PICK r \in X : \A x \in X : back[r] <= back[x]
  BY <1>1, FirstExists
<1> QED
  BY <1>2 DEF Ordered

----------------------------------------------------------------------------
(* Top pools.                                                              *)

LEMMA PlacesOrder ==
    ASSUME NEW X \in SUBSET Resume
    PROVE  /\ IsFiniteSet(X) /\ Ordered(X, Place) /\ Ordered(X, Standing)
           /\ Best(X, TopK) = {r \in X : Cardinality(Ahead(X, Place, r)) < TopK}
<1>1. IsFiniteSet(X)
  BY RunAssumption, FS_Subset
<1> QED
  BY <1>1, RunAssumption DEF Ordered, Best, Ahead

\* A top pool holds TopK of the resumes, or all, and nobody out of it has a better
\* place than somebody in it.
LEMMA BestIsFair ==
    ASSUME NEW X \in SUBSET Resume
    PROVE  /\ Best(X, TopK) \subseteq X /\ IsFiniteSet(Best(X, TopK))
           /\ Cardinality(X) \in Nat
           /\ Cardinality(Best(X, TopK)) = IF Cardinality(X) < TopK THEN Cardinality(X) ELSE TopK
           /\ \A x \in X \ Best(X, TopK) : \A y \in Best(X, TopK) : Place[y] < Place[x]
<1>1. IsFiniteSet(X) /\ Ordered(X, Place) /\ TopK \in Nat
  BY PlacesOrder, RunAssumption
<1>2. Best(X, TopK) = {r \in X : Cardinality(Ahead(X, Place, r)) < TopK}
  BY PlacesOrder
<1>3. ASSUME NEW x \in X \ Best(X, TopK), NEW y \in Best(X, TopK) PROVE Place[y] < Place[x]
  <2>1. Cardinality(Ahead(X, Place, y)) < TopK /\ ~(Cardinality(Ahead(X, Place, x)) < TopK)
    BY <1>2
  <2>2. Cardinality(Ahead(X, Place, x)) \in Nat /\ Cardinality(Ahead(X, Place, y)) \in Nat
    BY <1>1, <1>2, AheadIsProper
  <2>3. x # y /\ ~(Place[x] < Place[y])
    BY <1>1, <1>2, <2>1, <2>2, RankGrows
  <2> QED
    BY <1>1, <1>2, <2>3 DEF Ordered
<1>4. /\ IsFiniteSet(Best(X, TopK))
      /\ Cardinality(Best(X, TopK)) = IF Cardinality(X) < TopK THEN Cardinality(X) ELSE TopK
  BY <1>1, <1>2, FirstCardinality
<1> QED
  BY <1>1, <1>2, <1>3, <1>4, FS_CardinalityType

\* The preferred resume of a person is one of this person's.
LEMMA CanonicalIsOfPerson ==
    ASSUME NEW X \in SUBSET Resume, NEW r \in X
    PROVE  Canonical(r, X) \in X /\ Person[Canonical(r, X)] = Person[r]
<1> DEFINE own == {x \in X : Person[x] = Person[r]}
<1>1. own \in SUBSET Resume /\ own # {}
  OBVIOUS
<1>2. \E x \in own : \A y \in own : Standing[x] >= Standing[y]
  BY <1>1, PlacesOrder, LastExists
<1>3. Canonical(r, X) = CHOOSE x \in own : \A y \in own : Standing[x] >= Standing[y]
  BY DEF Canonical
<1>4. Canonical(r, X) \in own
  BY <1>2, <1>3
<1> QED
  BY <1>4

\* Who is not in a pool is behind everybody who is; over people, the best card of
\* a person counts.
FairToResumes(C, top) ==
    \A x \in C : \A y \in top : (\A r \in top : r # x) => \E z \in C : y = z /\ Place[z] < Place[x]
FairToPeople(C, top) ==
    \A x \in C : \A y \in top : (\A r \in top : Person[r] # Person[x]) =>
        \E z \in C : Person[y] = Person[z] /\ Place[z] < Place[x]
OnePerPerson(top) == \A r, x \in top : Person[r] = Person[x] => r = x

\* The top pool of the rounds: every resume is a person of its own.
LEMMA RoundsPool ==
    ASSUME NEW C \in SUBSET Resume
    PROVE  LET people == {{x \in C : r = x} : r \in C}
               top == Best(C, TopK)
           IN  /\ Cardinality(top) = IF Cardinality(people) < TopK THEN Cardinality(people) ELSE TopK
               /\ FairToResumes(C, top)
<1> DEFINE people == {{x \in C : r = x} : r \in C}
           class == [r \in C |-> {x \in C : r = x}]
<1>1. class \in Bijection(C, people)
  BY DEF Bijection, Injection, IsInjective, Surjection
<1>2. IsFiniteSet(C)
  BY PlacesOrder
<1>3. Cardinality(people) = Cardinality(C)
  BY <1>1, <1>2, FS_Bijection DEF ExistsBijection
<1> QED
  BY <1>3, BestIsFair DEF FairToResumes

\* The top pool of several sources: one resume for each of the people with the
\* best cards.
LEMMA IdentityPool ==
    ASSUME NEW C \in SUBSET Resume
    PROVE  LET people == {{x \in C : Person[r] = Person[x]} : r \in C}
               top == IdentityTopPool(C, C)
           IN  /\ top \subseteq C /\ IsFiniteSet(top)
               /\ Cardinality(top) \in Nat /\ Cardinality(top) <= TopK
               /\ OnePerPerson(top) /\ FairToPeople(C, top)
               /\ Cardinality(top) = IF Cardinality(people) < TopK THEN Cardinality(people) ELSE TopK
<1> DEFINE people == {{x \in C : Person[r] = Person[x]} : r \in C}
           top == IdentityTopPool(C, C)
           leads == {r \in C : \A x \in C : Person[x] = Person[r] => Place[x] >= Place[r]}
           best == Best(leads, TopK)
           class == [r \in leads |-> {x \in C : Person[r] = Person[x]}]
           face == [r \in best |-> Canonical(r, C)]
<1>1. /\ leads \in SUBSET Resume /\ leads \subseteq C /\ IsFiniteSet(leads) /\ best \subseteq leads
      /\ Cardinality(leads) \in Nat /\ IsFiniteSet(best)
      /\ Cardinality(best) = IF Cardinality(leads) < TopK THEN Cardinality(leads) ELSE TopK
      /\ \A x \in leads \ best : \A y \in best : Place[y] < Place[x]
  <2>1. leads \in SUBSET Resume /\ leads \subseteq C
    OBVIOUS
  <2> HIDE DEF leads
  <2> QED
    BY <2>1, BestIsFair, PlacesOrder
<1>2. ASSUME NEW x \in C PROVE \E l \in leads : Person[l] = Person[x] /\ Place[l] <= Place[x]
  <2> DEFINE own == {z \in C : Person[z] = Person[x]}
  <2>1. own \in SUBSET Resume /\ x \in own
    OBVIOUS
  <2>2. PICK l \in own : \A z \in own : Place[l] <= Place[z]
    BY <2>1, PlacesOrder, FirstExists
  <2>3. l \in leads
    BY <2>2, RunAssumption
  <2> QED
    BY <2>1, <2>2, <2>3
<1>3. \A r, x \in leads : Person[r] = Person[x] => r = x
  BY RunAssumption
<1>4. \A r \in C : Canonical(r, C) \in C /\ Person[Canonical(r, C)] = Person[r]
  BY CanonicalIsOfPerson
<1>5. top = {Canonical(r, C) : r \in best}
  BY <1>1, <1>4 DEF IdentityTopPool
<1> HIDE DEF top, best
<1>6. Cardinality(people) = Cardinality(leads)
  <2>1. class \in Bijection(leads, people)
    <3>1. class \in [leads -> people] /\ \A r, x \in leads : class[r] = class[x] => r = x
      BY <1>3
    <3>2. ASSUME NEW c \in people PROVE \E l \in leads : class[l] = c
      <4>1. PICK r \in C : c = {x \in C : Person[r] = Person[x]}
        BY <3>2
      <4>2. PICK l \in leads : Person[l] = Person[r]
        BY <1>2
      <4> QED
        BY <4>1, <4>2
    <3> QED
      BY <3>1, <3>2 DEF Bijection, Injection, IsInjective, Surjection
  <2> QED
    BY <1>1, <2>1, FS_Bijection DEF ExistsBijection
<1>7. Cardinality(top) = Cardinality(best) /\ IsFiniteSet(top)
  <2>1. face \in Bijection(best, top)
    <3>1. face \in [best -> top] /\ \A r, x \in best : face[r] = face[x] => r = x
      BY <1>1, <1>3, <1>4, <1>5
    <3>2. \A y \in top : \E r \in best : face[r] = y
      BY <1>5
    <3> QED
      BY <3>1, <3>2 DEF Bijection, Injection, IsInjective, Surjection
  <2> QED
    BY <1>1, <2>1, FS_Bijection DEF ExistsBijection
<1>8. top \subseteq C /\ \A r, x \in top : Person[r] = Person[x] => r = x
  BY <1>1, <1>3, <1>4, <1>5
<1>9. ASSUME NEW x \in C, NEW y \in top, \A r \in top : Person[r] # Person[x]
      PROVE  \E z \in C : Person[y] = Person[z] /\ Place[z] < Place[x]
  <2>1. PICK z \in best : y = Canonical(z, C)
    BY <1>5
  <2>2. PICK l \in leads : Person[l] = Person[x] /\ Place[l] <= Place[x]
    BY <1>2
  <2>3. l \notin best
    BY <1>4, <1>5, <1>9, <2>2
  <2>4. Place[z] < Place[l]
    BY <1>1, <2>3
  <2>5. Place[z] < Place[x] /\ z \in C /\ Person[y] = Person[z]
    BY <1>1, <1>4, <2>1, <2>2, <2>4, RunAssumption
  <2> QED
    BY <2>5
<1> HIDE DEF people, leads
<1>10. /\ Cardinality(top) \in Nat /\ Cardinality(top) <= TopK
       /\ Cardinality(top) = IF Cardinality(people) < TopK THEN Cardinality(people) ELSE TopK
  BY <1>1, <1>6, <1>7, RunAssumption
<1>11. OnePerPerson(top) /\ FairToPeople(C, top)
  BY <1>8, <1>9 DEF OnePerPerson, FairToPeople
<1> QED
  BY <1>7, <1>8, <1>10, <1>11 DEF people, top

----------------------------------------------------------------------------
(* The frame of a run.                                                     *)

\* What a step of a run does to its stage and its stores.
FrameStep ==
    \/ OpenRun \/ OpenFails \/ StartRun \/ StartFails \/ Close
    \/ stage \in Working /\ (Fail \/ Cancel \/ Return)
    \/ stage \in Working /\ stage' \in Working /\ UNCHANGED <<store, status, outcome>>
    \/ UNCHANGED frame

LEMMA EveryStepIsOfTheFrame == [Next]_vars => FrameStep
<1> USE DEF To, Working
<1>1. ASSUME Requirements \/ Prf \/ Record \/ Score \/ Reflect \/ ApplyLanes \/ Rescore
             \/ Finalize
      PROVE  FrameStep
  BY <1>1 DEF FrameStep, Requirements, Prf, Record, Score, Reflect, ApplyLanes,
              Rescore, Finalize
<1>2. ASSUME Plan \/ Evaluate PROVE FrameStep
  BY <1>2 DEF FrameStep, Plan, Evaluate
<1>9. ASSUME Decide PROVE FrameStep
  BY <1>9 DEF FrameStep, Decide, Resolve
<1>3. ASSUME SearchGathers \/ SearchReturns \/ SearchBreaks \/ LaneReturns \/ Finished
             \/ UNCHANGED vars
      PROVE  FrameStep
  BY <1>3 DEF FrameStep, SearchGathers, SearchReturns, SearchBreaks, LaneReturns, Finished,
              vars, frame
<1>4. ASSUME ExtractAgain \/ DecideAgain \/ ReflectAgain \/ FinalizeAgain PROVE FrameStep
  BY <1>4 DEF FrameStep, ExtractAgain, DecideAgain, ReflectAgain, FinalizeAgain, AskAgain, frame
<1>5. ASSUME NEW s \in Working, Raise(s) PROVE FrameStep
  BY <1>5 DEF FrameStep, Raise
<1>6. ASSUME \/ RequirementsFail \/ ControllerFails \/ ReflectionFails \/ FinalizerFails \/ PlanFails
             \/ PrfFails \/ ScoringFails \/ RowsFail \/ LanesFail \/ EvaluationFails
             \/ SearchFails \/ RecordFails
      PROVE  FrameStep
  BY <1>5, <1>6 DEF RequirementsFail, ControllerFails, ReflectionFails, FinalizerFails, PlanFails,
              PrfFails, ScoringFails, RowsFail, LanesFail, EvaluationFails, SearchFails, RecordFails
<1>7. ASSUME CancelRun PROVE FrameStep
  BY <1>7 DEF FrameStep, CancelRun, Cancel
<1>8. ASSUME OpenRun \/ StartRun \/ Close \/ OpenFails \/ StartFails PROVE FrameStep
  BY <1>8 DEF FrameStep
<1> QED
  BY <1>1, <1>2, <1>3, <1>4, <1>6, <1>7, <1>8, <1>9 DEF Next, Step, Trouble

\* What the stores hold at each stage.  The clauses about the stages before the end
\* are what makes StoresTellTheRun inductive: a run that works has all three rows
\* running, and a completed status at a stage of the finally block means that every
\* row closed so far has been completed.
StoresInv ==
    /\ FrameTypeOK
    /\ stage \in Working \cup {"open", "start"} => status = "completed" /\ outcome = "none"
    /\ stage \in {"open", "start", "corpus"} => \A p \in Parts : store[p] # "completed"
    /\ stage = "start" => store["corpus"] = "running" /\ store["trace"] = "running"
    /\ stage \in Working \/ (stage = "corpus" /\ status = "completed") =>
           \A p \in Parts : store[p] = "running"
    /\ outcome = "returned" => status = "completed"
    /\ stage \in {"close", "flywheel"} =>
           /\ store["flywheel"] # "completed" /\ store["trace"] # "completed"
           /\ status = "completed" => store["corpus"] = "completed" /\ store["flywheel"] = "running"
    /\ stage = "trace" =>
           /\ store["trace"] # "completed"
           /\ status = "completed" => store["corpus"] = "completed" /\ store["flywheel"] = "completed"
    /\ StoresTellTheRun

LEMMA StoresInvHolds == Spec => []StoresInv
<1>1. Init => StoresInv
  BY DEF Init, OpenInit, StoresInv, StoresTellTheRun, FrameTypeOK, Parts, Working
<1>2. ASSUME StoresInv, [Next]_vars PROVE StoresInv'
  <2> USE DEF StoresInv, StoresTellTheRun, FrameTypeOK, Parts, Working
  <2>1. CASE OpenRun \/ OpenFails
    BY <1>2, <2>1 DEF OpenRun, OpenFails
  <2>2. CASE StartRun \/ StartFails
    BY <1>2, <2>2 DEF StartRun, StartFails
  <2>3. CASE stage \in Working /\ (Fail \/ Cancel \/ Return)
    BY <1>2, <2>3 DEF Fail, Cancel, Return
  <2>4. CASE CloseCorpus
    BY <1>2, <2>4 DEF CloseCorpus, Spoiled
  <2>5. CASE CloseDatabase \/ CloseDatabaseFails
    BY <1>2, <2>5 DEF CloseDatabase, CloseDatabaseFails
  <2>6. CASE CloseFlywheel \/ CloseFlywheelFails
    BY <1>2, <2>6 DEF CloseFlywheel, CloseFlywheelFails
  <2>7. CASE CloseTrace \/ CloseTraceFails
    BY <1>2, <2>7 DEF CloseTrace, CloseTraceFails
  <2>8. CASE stage \in Working /\ stage' \in Working /\ UNCHANGED <<store, status, outcome>>
    BY <1>2, <2>8
  <2>9. CASE UNCHANGED frame
    BY <1>2, <2>9 DEF frame
  <2> QED
    BY <1>2, <2>1, <2>2, <2>3, <2>4, <2>5, <2>6, <2>7, <2>8, <2>9, EveryStepIsOfTheFrame
    DEF FrameStep, Close
<1> QED
  BY <1>1, <1>2, PTL DEF Spec

\* What the caller of run_async was told agrees with the corpus manifest, the
\* flywheel row and the trace manifest, whatever fails or is cancelled when.
THEOREM StoresAgree == Spec => []StoresTellTheRun
<1>1. StoresInv => StoresTellTheRun
  BY DEF StoresInv
<1> QED
  BY <1>1, StoresInvHolds, PTL

----------------------------------------------------------------------------
(* The decision of a round.                                                *)

\* The reserve term a broadening adds is one of the pool: the terms in reserve have
\* a first one under the key of NextReserve.
LEMMA ReserveIsOfPool ==
    ASSUME NEW pool, NEW history, pool.terms \subseteq Term, Reserves(pool, history) # {}
    PROVE  NextReserve(pool, history) \in Reserves(pool, history)
<1> DEFINE reserves == Reserves(pool, history)
           own == reserves \cap pool.active
           key(t) == <<IF t \in pool.active THEN 0 ELSE 1, Rank[t]>>
<1>1. reserves \subseteq Term /\ \A t \in Term : Rank[t] \in Int
  BY PoolAssumption DEF Reserves
<1>2. \A X : X \subseteq reserves /\ X # {} =>
          \E t \in X : \A u \in X : Rank[t] <= Rank[u]
  <2> SUFFICES ASSUME NEW X, X \subseteq reserves, X # {}
               PROVE  \E t \in X : \A u \in X : Rank[t] <= Rank[u]
    OBVIOUS
  <2>1. IsFiniteSet(X)
    BY <1>1, PoolAssumption, FS_Subset
  <2>2. Ordered(X, Rank)
    BY <1>1, PoolAssumption DEF Ordered
  <2> QED
    BY <2>1, <2>2, FirstExists
<1>3. ASSUME NEW t \in reserves, NEW u \in reserves, Less(key(u), key(t))
      PROVE  \/ u \in pool.active /\ t \notin pool.active
             \/ (u \in pool.active <=> t \in pool.active) /\ Rank[u] < Rank[t]
  BY <1>1, <1>3 DEF Less
<1> HIDE DEF key, reserves
<1>4. \E t \in reserves : \A u \in reserves : ~Less(key(u), key(t))
  <2>1. CASE own # {}
    <3>1. PICK t \in own : \A u \in own : Rank[t] <= Rank[u]
      BY <1>2, <2>1
    <3>2. ASSUME NEW u \in reserves, Less(key(u), key(t)) PROVE FALSE
      <4>1. u \in pool.active /\ Rank[u] < Rank[t]
        BY <1>3, <3>1, <3>2
      <4> QED
        BY <1>1, <3>1, <4>1
    <3> QED
      BY <3>2
  <2>2. CASE own = {}
    <3>1. PICK t \in reserves : \A u \in reserves : Rank[t] <= Rank[u]
      BY <1>2 DEF reserves
    <3>2. ASSUME NEW u \in reserves, Less(key(u), key(t)) PROVE FALSE
      <4>1. Rank[u] < Rank[t]
        BY <1>3, <2>2, <3>1, <3>2
      <4> QED
        BY <1>1, <3>1, <4>1
    <3> QED
      BY <3>2
  <2> QED
    BY <2>1, <2>2
<1> QED
  BY <1>4 DEF NextReserve, Least, key, reserves

Reasons == {"max_rounds", "stopped", "lanes_completed", "lanes_degraded"}

\* The record of a run; what a history holds does not matter here.
RunShape(r) ==
    /\ r \in [pool : [terms : SUBSET Term, active : SUBSET Term], history : {r.history},
              fedBack : BOOLEAN, anchorTried : BOOLEAN, seen : SUBSET Resume,
              cards : SUBSET Resume, top : SUBSET Resume, done : Nat, productive : Nat,
              backed : SUBSET Term, reason : Reasons]
    /\ r.pool.active \subseteq r.pool.terms

\* A decision leaves the record of the rounds alone; it may add a term to the pool or
\* activate one, and note what it has tried.
SameRounds(r, q) ==
    /\ r.history = q.history /\ r.seen = q.seen /\ r.cards = q.cards /\ r.top = q.top
    /\ r.done = q.done /\ r.productive = q.productive /\ r.backed = q.backed
    /\ r.reason = q.reason /\ q.pool.terms \subseteq r.pool.terms

LEMMA DecisionKeepsRounds ==
    ASSUME RunShape(run), NEW answer, NEW d \in Resolutions(answer)
    PROVE  /\ d.stop \in BOOLEAN /\ RunShape(d.run) /\ SameRounds(d.run, run)
<1>1. ASSUME NEW r, RunShape(r), SameRounds(r, run)
      PROVE  /\ OwnDecision(r, answer).stop \in BOOLEAN /\ OwnDecision(r, answer).run = r
             /\ AnchorOnly(r).stop \in BOOLEAN /\ RunShape(AnchorOnly(r).run)
             /\ SameRounds(AnchorOnly(r).run, run)
  BY <1>1 DEF OwnDecision, AnchorOnly, Forced, RunShape, SameRounds
<1>2. RunShape(run) /\ SameRounds(run, run)
  BY DEF SameRounds
<1>3. CASE Lane = "reserve_broaden"
  <2>1. d = Broaden
    BY <1>3 DEF Resolutions
  <2>2. Reserves(run.pool, run.history) # {}
    BY <1>3 DEF Lane, RescueLane
  <2>3. NextReserve(run.pool, run.history) \in run.pool.terms
    BY <2>2, <1>2, ReserveIsOfPool DEF RunShape, Reserves
  <2> QED
    BY <1>2, <2>1, <2>3 DEF Broaden, Forced, RunShape, SameRounds
<1>4. CASE Lane = "candidate_feedback"
  <2> DEFINE tried == [run EXCEPT !.fedBack = TRUE]
             phrases == FeedbackPhrases(run.top, run.cards, run.pool, run.history)
  <2>1. RunShape(tried) /\ SameRounds(tried, run)
    BY <1>2 DEF RunShape, SameRounds
  <2>2. phrases \subseteq Term
    BY PoolAssumption DEF FeedbackPhrases, NewPhrases
  <2>3. d \in Feedback(answer)
    BY <1>4 DEF Resolutions
  <2>4. CASE phrases = {}
    BY <1>1, <1>2, <2>1, <2>3, <2>4 DEF Feedback, AfterFeedback
  <2>5. CASE phrases # {}
    <3>1. PICK p \in phrases :
             d = Forced([tried EXCEPT !.pool = [terms |-> @.terms \cup {p}, active |-> @.active \cup {p}]],
                        <<ActiveAnchor(run.pool), p>>, FALSE)
      BY <2>3, <2>5 DEF Feedback
    <3> HIDE DEF phrases
    <3> QED
      BY <1>2, <2>2, <3>1 DEF Forced, RunShape, SameRounds
  <2> QED
    BY <2>4, <2>5
<1>5. CASE Lane = "anchor_only"
  BY <1>1, <1>2, <1>5 DEF Resolutions
<1>6. CASE Lane \notin {"reserve_broaden", "candidate_feedback", "anchor_only"}
  BY <1>1, <1>2, <1>6 DEF Resolutions
<1> QED
  BY <1>3, <1>4, <1>5, <1>6

\* StopIsEarned without the stage, for any run record in its n-th round.
Earned(r, n) ==
    LET poor == Cardinality(r.top) < WeakBelow \/ Cardinality(StrongFits(r.top)) < StrongStop
    IN  /\ r.done >= MinRounds
        /\ \/ n >= BudgetRound(MaxRounds)
           \/ /\ poor \/ (Strength(r.top) # "strong" /\ r.productive < 2)
                   => UntriedFamilies(r.pool, r.history) = {}
              /\ poor => /\ Reserves(r.pool, r.history) = {}
                         /\ \/ r.fedBack \/ ~FeedbackOn
                            \/ Cardinality(FeedbackSeeds(r.top)) < 2
                         /\ r.anchorTried /\ Broadened(r.pool, r.history)

\* What the gate means by a stop: a pool that is too poor to stop has been broadened.
LEMMA GateMeaning ==
    ASSUME IsFiniteSet(run.top), run.done \in Int, Gate.canStop
    PROVE  LET poor == \/ Cardinality(run.top) < WeakBelow
                       \/ Cardinality(StrongFits(run.top)) < StrongStop
           IN  /\ run.done >= MinRounds
               /\ \/ round >= BudgetRound(MaxRounds)
                  \/ /\ poor \/ (Strength(run.top) # "strong" /\ run.productive < 2)
                          => UntriedFamilies(run.pool, run.history) = {}
                     /\ poor => /\ Gate.status = "low_quality_exhausted"
                                /\ Broadened(run.pool, run.history)
<1>1. Cardinality(StrongFits(run.top)) \in Nat
  <2>1. StrongFits(run.top) \in SUBSET run.top
    BY DEF StrongFits, Fits
  <2> QED
    BY <2>1, FS_Subset, FS_CardinalityType
<1>2. Fits(run.top) = {} => Cardinality(StrongFits(run.top)) = 0
  BY FS_EmptySet DEF StrongFits
<1>3. Cardinality(run.top) \in Nat /\ (run.top = {} => Cardinality(run.top) = 0)
  BY FS_CardinalityType, FS_EmptySet
<1>4. /\ Cardinality(run.top) < WeakBelow => Strength(run.top) \in {"empty", "weak"}
      /\ Cardinality(StrongFits(run.top)) < StrongStop => Strength(run.top) # "strong"
      /\ Strength(run.top) \in {"empty", "weak", "usable", "strong"}
  <2> DEFINE n == Cardinality(run.top)
             m == Cardinality(StrongFits(run.top))
  <2>1. n \in Nat /\ m \in Nat
    BY <1>1, <1>3
  <2>2. CASE run.top = {}
    <3>1. ~(n >= FullPool)
      BY <1>3, <2>2, StrengthAssumption
    <3> QED
      BY <2>2, <3>1 DEF Strength
  <2>3. CASE run.top # {} /\ (n < WeakBelow \/ Fits(run.top) = {})
    <3>1. ~(n >= FullPool /\ m >= StrongPool)
      BY <1>2, <2>1, <2>3, StrengthAssumption
    <3> QED
      BY <2>3, <3>1 DEF Strength
  <2>4. CASE run.top # {} /\ ~(n < WeakBelow \/ Fits(run.top) = {})
    <3>1. m < StrongStop => ~(m >= StrongPool)
      BY <2>1, StrengthAssumption
    <3>2. Strength(run.top) = IF n >= FullPool /\ m >= StrongPool THEN "strong" ELSE "usable"
      BY <2>4 DEF Strength
    <3> QED
      BY <2>4, <3>1, <3>2
  <2> QED
    BY <2>2, <2>3, <2>4
<1> DEFINE untried == UntriedFamilies(run.pool, run.history) # {}
           weak == \/ Strength(run.top) \in {"empty", "weak"}
                   \/ Strength(run.top) = "usable" /\ Cardinality(StrongFits(run.top)) < StrongStop
           lacking == weak \/ (Strength(run.top) # "strong" /\ run.productive < 2)
<1>5. /\ Gate.status = IF run.done < MinRounds THEN "pass"
                       ELSE IF round >= BudgetRound(MaxRounds) THEN "budget_stop_allowed"
                       ELSE IF lacking /\ untried THEN "continue_low_quality"
                       ELSE IF ~weak THEN "pass"
                       ELSE IF Broadened(run.pool, run.history) THEN "low_quality_exhausted"
                       ELSE "broaden_required"
      /\ run.done >= MinRounds
      /\ Gate.status \notin {"continue_low_quality", "broaden_required"}
  BY DEF Gate, Guidance
<1>6. ~(run.done < MinRounds)
  BY <1>5, RunAssumption
<1>7. Cardinality(run.top) < WeakBelow \/ Cardinality(StrongFits(run.top)) < StrongStop => weak
  BY <1>4
<1> HIDE DEF untried, weak
<1>8. CASE round >= BudgetRound(MaxRounds)
  BY <1>5, <1>8
<1>9. CASE ~(round >= BudgetRound(MaxRounds))
  <2>1. ~(lacking /\ untried) /\ (weak => Broadened(run.pool, run.history)
                                          /\ Gate.status = "low_quality_exhausted")
    BY <1>5, <1>6, <1>9
  <2> QED
    BY <1>5, <1>7, <1>9, <2>1 DEF untried
<1> QED
  BY <1>8, <1>9

\* Where the controller may stop a run, the run has earned it: choose_rescue_lane has
\* nothing left to try when the pool is poor.
LEMMA StopsAreEarned ==
    ASSUME RunShape(run), NEW answer, NEW d \in Resolutions(answer), d.stop
    PROVE  Earned(d.run, round)
<1> DEFINE tried == [run EXCEPT !.fedBack = TRUE]
           phrases == FeedbackPhrases(run.top, run.cards, run.pool, run.history)
           poor == \/ Cardinality(run.top) < WeakBelow
                   \/ Cardinality(StrongFits(run.top)) < StrongStop
<1>1. ASSUME NEW r, OwnDecision(r, answer).stop = TRUE
      PROVE  Gate.canStop /\ OwnDecision(r, answer).run = r
  BY <1>1 DEF OwnDecision, Forced
<1>2. AnchorOnly(run).stop = FALSE /\ AnchorOnly(tried).stop = FALSE /\ Broaden.stop = FALSE
  BY DEF AnchorOnly, Broaden, Forced
<1>3. d.stop = TRUE
  BY DecisionKeepsRounds
<1>4. \/ d = OwnDecision(run, answer) /\ Lane \notin {"reserve_broaden", "candidate_feedback", "anchor_only"}
      \/ d = OwnDecision(tried, answer) /\ Lane = "candidate_feedback" /\ run.anchorTried
  <2>1. CASE Lane = "candidate_feedback"
    <3>1. d \in Feedback(answer)
      BY <2>1 DEF Resolutions
    <3>2. CASE phrases = {}
      <4>1. d = AfterFeedback(tried, answer)
        BY <3>1, <3>2 DEF Feedback
      <4>2. CASE run.anchorTried
        BY <2>1, <4>1, <4>2 DEF AfterFeedback
      <4>3. CASE ~run.anchorTried
        <5>1. d = AnchorOnly(tried)
          BY <4>1, <4>3 DEF AfterFeedback
        <5> QED
          BY <1>2, <1>3, <5>1
      <4> QED
        BY <4>2, <4>3
    <3>3. CASE phrases # {}
      <4>1. PICK p \in phrases :
               d = Forced([tried EXCEPT !.pool = [terms |-> @.terms \cup {p}, active |-> @.active \cup {p}]],
                          <<ActiveAnchor(run.pool), p>>, FALSE)
        BY <3>1, <3>3 DEF Feedback
      <4>2. d.stop = FALSE
        BY <4>1 DEF Forced
      <4> QED
        BY <1>3, <4>2
    <3> QED
      BY <3>2, <3>3
  <2>2. CASE Lane # "candidate_feedback"
    BY <1>2, <1>3, <2>2 DEF Resolutions
  <2> QED
    BY <2>1, <2>2
<1>5. /\ Gate.canStop /\ d.run \in {run, tried}
      /\ Lane = "candidate_feedback" => d.run = tried /\ run.anchorTried
      /\ Lane \notin {"reserve_broaden", "anchor_only"}
  BY <1>1, <1>3, <1>4
<1>6. /\ d.run.top = run.top /\ d.run.pool = run.pool /\ d.run.history = run.history
      /\ d.run.done = run.done /\ d.run.productive = run.productive
      /\ d.run.anchorTried = run.anchorTried
      /\ run.fedBack => d.run.fedBack
      /\ Lane = "candidate_feedback" => d.run.fedBack
  BY <1>5 DEF RunShape
<1>7. /\ run.done >= MinRounds
      /\ \/ round >= BudgetRound(MaxRounds)
         \/ /\ poor \/ (Strength(run.top) # "strong" /\ run.productive < 2)
                 => UntriedFamilies(run.pool, run.history) = {}
            /\ poor => /\ Gate.status = "low_quality_exhausted"
                       /\ Broadened(run.pool, run.history)
  <2>1. IsFiniteSet(run.top) /\ run.done \in Int
    BY RunAssumption, FS_Subset DEF RunShape
  <2> QED
    BY <1>5, <2>1, GateMeaning
<1>8. ASSUME Gate.status = "low_quality_exhausted"
      PROVE  /\ Reserves(run.pool, run.history) = {}
             /\ d.run.fedBack \/ ~FeedbackOn \/ Cardinality(FeedbackSeeds(run.top)) < 2
             /\ run.anchorTried
  <2>1. Reserves(run.pool, run.history) = {}
    BY <1>5, <1>8 DEF Lane, RescueLane
  <2>2. CASE FeedbackOn /\ ~run.fedBack /\ Cardinality(FeedbackSeeds(run.top)) >= 2
    <3>1. Lane = "candidate_feedback"
      BY <1>8, <2>1, <2>2 DEF Lane, RescueLane
    <3> QED
      BY <1>5, <1>6, <2>1, <3>1
  <2>3. CASE ~(FeedbackOn /\ ~run.fedBack /\ Cardinality(FeedbackSeeds(run.top)) >= 2)
    <3>1. run.anchorTried
      BY <1>5, <1>8, <2>1, <2>3 DEF Lane, RescueLane
    <3>2. Cardinality(FeedbackSeeds(run.top)) \in Nat
      <4>1. FeedbackSeeds(run.top) \in SUBSET Resume
        BY DEF FeedbackSeeds, Fits, RunShape
      <4> QED
        BY <4>1, RunAssumption, FS_Subset, FS_CardinalityType
    <3>3. run.fedBack \/ ~FeedbackOn \/ Cardinality(FeedbackSeeds(run.top)) < 2
      BY <2>3, <3>2
    <3> QED
      BY <1>6, <2>1, <3>1, <3>3
  <2> QED
    BY <2>2, <2>3
<1> QED
  BY <1>6, <1>7, <1>8 DEF Earned

----------------------------------------------------------------------------
(* The invariant of a run.                                                 *)

RoundStages == {"controller", "plan", "prf", "search", "score", "reflect"}
LaneStages == {"lanes", "rescore"}
EndStages == {"finalize", "evaluate"}

LaneTypeOK ==
    /\ plan \in (SUBSET Source) \ {{}}
    /\ lane \in [Source -> [status : Ended \cup {"idle", "running"}, found : SUBSET Resume]]

\* Where a run stands in its rounds: the round that is under way is not in the
\* history before its reflection.
RoundsCounted ==
    /\ round \in 1..MaxRounds /\ run.done \in {round - 1, round, 0}
    /\ stage \in RoundStages \ {"reflect"} => run.done = round - 1
    /\ stage = "reflect" => run.done = round
    /\ stage \in {"open", "start", "requirements", "lanes"} => run = NewRun /\ round = 1
    /\ stage \in RoundStages => plan = {"cts"}
    /\ stage \in LaneStages => plan # {"cts"}
    /\ stage \notin EndStages => run.reason # "stopped"
    /\ stage \in EndStages /\ run.reason = "stopped" => Earned(run, round)
    /\ run.productive <= run.done

\* Everybody a search or a lane has brought is scored before anybody looks at the
\* pool, and the pool is the one that belongs to the kind of the run.
PoolsKept ==
    /\ run.cards \subseteq run.seen /\ run.top \subseteq run.cards
    /\ IsFiniteSet(run.top) /\ Cardinality(run.top) <= TopK
    /\ run.backed \subseteq run.pool.terms
    /\ stage = "rescore" => run.cards = {} /\ run.top = {}
    /\ stage = "score" => run.seen = run.cards \cup batch
    /\ stage \in (RoundStages \ {"score"}) \cup EndStages => run.cards = run.seen
    /\ stage \in RoundStages => run.top = Best(run.cards, TopK)
    /\ stage \in EndStages =>
          run.top = IF plan = {"cts"} THEN Best(run.cards, TopK)
                    ELSE IdentityTopPool(run.cards, run.cards)

LocalsTypeOK ==
    /\ attempt \in {"first", "repair", "again"} /\ (attempt # "first" => stage \in Asking)
    /\ batch \in SUBSET Resume /\ (batch # {} => stage \in {"search", "score"})
    /\ ended \in {"no", "found", "failed"} /\ (ended # "no" => stage = "search")

RunInv == LocalsTypeOK /\ LaneTypeOK /\ RunShape(run) /\ RoundsCounted /\ PoolsKept

LEMMA NewRunFacts ==
    /\ RunShape(NewRun) /\ NewRun.done = 0 /\ NewRun.productive = 0 /\ NewRun.reason = "max_rounds"
    /\ NewRun.cards = {} /\ NewRun.seen = {} /\ NewRun.top = {} /\ NewRun.backed = {}
    /\ Best({}, TopK) = {} /\ IdentityTopPool({}, {}) = {}
    /\ IsFiniteSet({}) /\ Cardinality({}) = 0
<1>1. IsFiniteSet({}) /\ Cardinality({}) = 0
  BY FS_EmptySet
<1>2. Best({}, TopK) = {} /\ IdentityTopPool({}, {}) = {}
  BY DEF Best, IdentityTopPool
<1>3. RunShape(NewRun)
  <2>1. CompiledPool \in [terms : SUBSET Term, active : SUBSET Term]
    BY PoolAssumption DEF CompiledPool
  <2>2. CompiledPool.active \subseteq CompiledPool.terms
    BY DEF CompiledPool
  <2>3. NewRun.history = {} /\ NewRun.pool = CompiledPool
    BY DEF NewRun
  <2>4. NewRun \in [pool : [terms : SUBSET Term, active : SUBSET Term], history : {{}},
                    fedBack : BOOLEAN, anchorTried : BOOLEAN, seen : SUBSET Resume,
                    cards : SUBSET Resume, top : SUBSET Resume, done : Nat, productive : Nat,
                    backed : SUBSET Term, reason : Reasons]
    <3> HIDE DEF CompiledPool
    <3> QED
      BY <2>1 DEF NewRun, Reasons
  <2> QED
    BY <2>2, <2>3, <2>4 DEF RunShape
<1> QED
  BY <1>1, <1>2, <1>3 DEF NewRun

\* A run that starts, and the locals after the run is over, are the same.
LEMMA RunInvInit == Init => RunInv
<1> SUFFICES ASSUME Init PROVE RunInv
  OBVIOUS
<1> USE NewRunFacts DEF Init, OpenInit, LanesInit
<1>1. LocalsTypeOK
  BY DEF LocalsTypeOK
<1>2. LaneTypeOK
  BY DEF LaneTypeOK, Idle
<1>3. RoundsCounted
  BY RunAssumption DEF RoundsCounted, RoundStages, LaneStages, EndStages
<1>4. PoolsKept
  BY RunAssumption DEF PoolsKept, RoundStages, EndStages
<1> QED
  BY <1>1, <1>2, <1>3, <1>4 DEF RunInv

LEMMA ForgottenRun ==
    ASSUME RunInv, Forget, stage' = "corpus"
    PROVE  RunInv'
<1> USE NewRunFacts DEF Forget
<1>1. LocalsTypeOK'
  BY DEF LocalsTypeOK
<1>2. LaneTypeOK'
  BY DEF RunInv, LaneTypeOK, Idle
<1>3. RoundsCounted'
  BY RunAssumption DEF RoundsCounted, RoundStages, LaneStages, EndStages
<1>4. PoolsKept'
  BY RunAssumption DEF PoolsKept, RoundStages, EndStages
<1>5. RunShape(run)'
  BY DEF RunShape
<1> QED
  BY <1>1, <1>2, <1>3, <1>4, <1>5 DEF RunInv

\* Steps that leave the run and its lanes alone keep the invariant where the next
\* stage asks for nothing new.
LEMMA SameRun ==
    ASSUME RunInv, UNCHANGED <<laneFrame, round, run, batch>>, LocalsTypeOK',
           \/ stage' = stage
           \/ stage \in RoundStages /\ stage' \in RoundStages
              /\ (stage = "reflect" <=> stage' = "reflect") /\ stage' # "score" /\ stage # "score"
           \/ stage \in EndStages /\ stage' \in EndStages
           \/ stage' \in {"corpus", "close", "flywheel", "trace", "over"} /\ stage \notin EndStages
           \/ stage = "open" /\ stage' = "start"
           \/ stage = "start" /\ stage' = "requirements"
    PROVE  RunInv'
<1> USE DEF RunInv, laneFrame
<1>1. LaneTypeOK'
  BY DEF LaneTypeOK
<1>2. RoundsCounted'
  BY DEF RoundsCounted, RoundStages, LaneStages, EndStages
<1>3. PoolsKept'
  BY DEF PoolsKept, RoundStages, EndStages
<1>4. RunShape(run)'
  BY DEF RunShape
<1> QED
  BY <1>1, <1>2, <1>3, <1>4

\* A decision is carried out, or no query stands in for the stop and the stage raises.
Decided(answer, d) == (d.stop \/ d.terms # <<>>) /\ Resolve(d)

LEMMA DecideIs ==
    ASSUME Decide
    PROVE  /\ stage = "controller"
           /\ \/ Fail /\ Forget
              \/ \E answer \in Answers : \E d \in Resolutions(answer) : Decided(answer, d)
BY Zenon DEF Decide, Decided

LEMMA RoundStepInv ==
    ASSUME RunInv, Requirements \/ Decide \/ Plan \/ Prf \/ Record \/ Score \/ Reflect
    PROVE  RunInv'
<1> USE DEF To, RoundStages, LaneStages, EndStages
<1>1. CASE Requirements
  <2> USE <1>1, NewRunFacts DEF Requirements, RunInv
  <2>1. LocalsTypeOK'
    BY DEF LocalsTypeOK
  <2>2. LaneTypeOK'
    BY DEF LaneTypeOK, StartLanes, Idle
  <2>3. RoundsCounted'
    BY RunAssumption DEF RoundsCounted
  <2>4. PoolsKept'
    BY RunAssumption DEF PoolsKept, RoundsCounted
  <2>5. RunShape(run)'
    BY DEF RunShape
  <2> QED
    BY <2>1, <2>2, <2>3, <2>4, <2>5
<1>8. CASE Fail /\ Forget
  BY <1>8, ForgottenRun DEF Fail
<1>2. CASE /\ stage = "controller"
           /\ \E answer \in Answers : \E d \in Resolutions(answer) : Decided(answer, d)
  <2>0. PICK answer \in Answers : \E d \in Resolutions(answer) : Decided(answer, d)
    BY <1>2
  <2>1. PICK d \in Resolutions(answer) :
          /\ run' = [d.run EXCEPT !.reason = IF d.stop THEN "stopped" ELSE @]
          /\ To(IF d.stop THEN "finalize" ELSE "plan")
          /\ UNCHANGED <<laneFrame, round, batch, ended>>
    BY <2>0 DEF Decided, Resolve
  <2>2. d.stop \in BOOLEAN /\ RunShape(d.run) /\ SameRounds(d.run, run)
    BY DecisionKeepsRounds DEF RunInv
  <2>3. /\ run'.cards = run.cards /\ run'.seen = run.seen /\ run'.top = run.top
        /\ run'.done = run.done /\ run'.productive = run.productive /\ run'.backed = run.backed
        /\ run'.reason = (IF d.stop THEN "stopped" ELSE run.reason)
        /\ run'.pool = d.run.pool /\ run.pool.terms \subseteq run'.pool.terms
        /\ run'.history = d.run.history /\ run'.fedBack = d.run.fedBack
        /\ run'.anchorTried = d.run.anchorTried
        /\ RunShape(run')
    <3> DEFINE why == IF d.stop THEN "stopped" ELSE d.run.reason
    <3>1. run' = [d.run EXCEPT !.reason = why] /\ why \in Reasons
      BY <2>1, <2>2 DEF RunShape, Reasons
    <3>2. why = IF d.stop THEN "stopped" ELSE run.reason
      BY <2>2 DEF SameRounds
    <3> HIDE DEF why
    <3> QED
      BY <2>2, <3>1, <3>2 DEF RunShape, SameRounds
  <2>4. /\ stage = "controller" /\ UNCHANGED <<laneFrame, round, batch, ended>>
        /\ stage' = (IF d.stop THEN "finalize" ELSE "plan") /\ attempt' = "first"
    BY <1>2, <2>1
  <2>5. d.stop => Earned(run', round)
    <3>1. d.stop => Earned(d.run, round)
      BY StopsAreEarned DEF RunInv
    <3>2. d.run.top = run'.top /\ d.run.done = run'.done /\ d.run.productive = run'.productive
      BY <2>2, <2>3 DEF SameRounds
    <3> QED
      BY <2>3, <3>1, <3>2 DEF Earned
  <2>6. LocalsTypeOK'
    BY <2>4 DEF RunInv, LocalsTypeOK
  <2>7. LaneTypeOK'
    BY <2>4 DEF RunInv, LaneTypeOK, laneFrame
  <2>8. RoundsCounted'
    <3>1. run.reason # "stopped" /\ run.done = round - 1 /\ plan = {"cts"}
      BY <2>4 DEF RunInv, RoundsCounted
    <3>2. d.stop => Earned(run, round)'
      BY <2>4, <2>5 DEF Earned
    <3> QED
      BY <2>2, <2>3, <2>4, <3>1, <3>2 DEF RunInv, RoundsCounted, laneFrame
  <2>9. PoolsKept'
    BY <2>2, <2>3, <2>4 DEF RunInv, PoolsKept, RoundsCounted, laneFrame
  <2>10. RunShape(run)'
    BY <2>3 DEF RunShape
  <2> QED
    BY <2>6, <2>7, <2>8, <2>9, <2>10 DEF RunInv
<1>3. CASE Plan \/ Prf
  <2>1. LocalsTypeOK' /\ UNCHANGED <<laneFrame, round, run, batch>>
    BY <1>3 DEF Plan, Prf, Fail, RunInv, LocalsTypeOK, Asking
  <2>2. stage' \in {"prf", "search", "corpus"} /\ stage \in {"plan", "prf"}
    BY <1>3 DEF Plan, Prf, Fail
  <2> QED
    BY <2>1, <2>2, SameRun
<1>4. CASE Record
  <2> USE <1>4 DEF Record, RunInv
  <2>1. RunShape(run') /\ run'.seen = run.seen \cup batch /\ run'.cards = run.cards
        /\ run'.top = run.top /\ run'.done = run.done /\ run'.productive = run.productive
        /\ run'.backed = run.backed /\ run'.reason = run.reason /\ run'.pool = run.pool
    BY DEF RunShape, LocalsTypeOK
  <2>2. LocalsTypeOK'
    BY DEF LocalsTypeOK
  <2>3. LaneTypeOK'
    BY DEF LaneTypeOK, laneFrame
  <2>4. RoundsCounted'
    BY <2>1 DEF RoundsCounted, laneFrame
  <2>5. PoolsKept'
    BY <2>1 DEF PoolsKept, laneFrame
  <2>6. RunShape(run)'
    BY <2>1 DEF RunShape
  <2> QED
    BY <2>2, <2>3, <2>4, <2>5, <2>6
<1>5. CASE Score
  <2> USE <1>5 DEF Score, RunInv
  <2>1. run.cards \cup batch \in SUBSET Resume
    BY DEF RunShape, LocalsTypeOK
  <2>2. /\ run'.cards = run.cards \cup batch /\ run'.top = Best(run.cards \cup batch, TopK)
        /\ run'.done = run.done + 1
        /\ run'.productive = (IF batch = {} THEN run.productive ELSE run.productive + 1)
        /\ run'.seen = run.seen /\ run'.backed = run.backed /\ run'.reason = run.reason
        /\ run'.pool = run.pool /\ run'.history = run.history /\ run'.fedBack = run.fedBack
        /\ run'.anchorTried = run.anchorTried
    BY DEF RunShape
  <2>3. RunShape(run') /\ run'.productive <= run'.done
    <3>1. Best(run.cards \cup batch, TopK) \subseteq Resume
      BY <2>1, BestIsFair
    <3> DEFINE cards == run.cards \cup batch
               done == run.done + 1
               productive == IF batch = {} THEN run.productive ELSE run.productive + 1
    <3>2. run' = [run EXCEPT !.cards = cards, !.top = Best(cards, TopK), !.done = done,
                             !.productive = productive]
      BY DEF RunShape
    <3>3. done \in Nat /\ productive \in Nat /\ productive <= done
      BY DEF RunShape, RoundsCounted
    <3> HIDE DEF cards, done, productive, Score
    <3>4. cards \in SUBSET Resume /\ Best(cards, TopK) \in SUBSET Resume
      BY <2>1, <3>1 DEF cards
    <3> QED
      BY <3>2, <3>3, <3>4 DEF RunShape
  <2>4. LocalsTypeOK'
    BY DEF LocalsTypeOK
  <2>5. LaneTypeOK'
    BY DEF LaneTypeOK, laneFrame
  <2>6. RoundsCounted'
    <3>1. run.done = round - 1 /\ round \in 1..MaxRounds /\ plan = {"cts"} /\ run.reason # "stopped"
      BY DEF RoundsCounted
    <3>2. run'.done = round' /\ round' = round
      BY <2>2, <3>1, RunAssumption
    <3> QED
      BY <2>2, <2>3, <3>1, <3>2 DEF RoundsCounted, laneFrame
  <2>7. PoolsKept'
    <3>1. /\ run'.top \subseteq run'.cards /\ IsFiniteSet(run'.top)
          /\ Cardinality(run'.top) <= TopK
      BY <2>1, <2>2, BestIsFair, RunAssumption
    <3> QED
      BY <2>2, <3>1 DEF PoolsKept, laneFrame
  <2>8. RunShape(run)'
    BY <2>3 DEF RunShape
  <2> QED
    BY <2>4, <2>5, <2>6, <2>7, <2>8
<1>6. CASE Reflect
  <2>1. PICK backed \in SUBSET ((run.pool.terms \cap Admitted) \ run.pool.active) :
          run' = [run EXCEPT !.backed = backed]
    BY <1>6 DEF Reflect
  <2>2. /\ run'.cards = run.cards /\ run'.seen = run.seen /\ run'.top = run.top
        /\ run'.done = run.done /\ run'.productive = run.productive /\ run'.backed = backed
        /\ run'.reason = run.reason /\ run'.pool = run.pool /\ RunShape(run')
    BY <2>1 DEF RunShape, RunInv
  <2> USE <1>6 DEF Reflect, RunInv
  <2>3. LocalsTypeOK'
    BY DEF LocalsTypeOK
  <2>4. LaneTypeOK'
    BY DEF LaneTypeOK, laneFrame
  <2>5. RoundsCounted'
    <3>1. run.done = round /\ round \in 1..MaxRounds /\ plan = {"cts"} /\ run.reason # "stopped"
          /\ run.productive <= run.done
      BY DEF RoundsCounted
    <3>2. CASE round = MaxRounds
      BY <2>2, <3>1, <3>2 DEF RoundsCounted, laneFrame
    <3>3. CASE round # MaxRounds
      <4>1. /\ stage' = "controller" /\ round' = round + 1 /\ UNCHANGED plan
            /\ round' \in 1..MaxRounds /\ run'.done = round' - 1
        BY <2>2, <3>1, <3>3, RunAssumption DEF laneFrame
      <4> QED
        BY <2>2, <3>1, <4>1 DEF RoundsCounted
    <3> QED
      BY <3>2, <3>3
  <2>6. PoolsKept'
    BY <2>2 DEF PoolsKept, RoundsCounted, laneFrame
  <2>7. RunShape(run)'
    BY <2>2 DEF RunShape
  <2> QED
    BY <2>3, <2>4, <2>5, <2>6, <2>7
<1> QED
  BY <1>1, <1>2, <1>3, <1>4, <1>5, <1>6, <1>8, DecideIs

\* The lanes of a run over several sources: what they bring are resumes, everybody
\* they bring is scored, and the pool is taken over people.
LEMMA LaneStepInv ==
    ASSUME RunInv, LaneReturns \/ ApplyLanes \/ Rescore
    PROVE  RunInv'
<1> USE DEF To, RoundStages, LaneStages, EndStages
<1>1. CASE LaneReturns
  <2> USE <1>1 DEF LaneReturns, RunInv
  <2>1. ASSUME NEW s \in Source, NEW st \in Ended, NEW found \in SUBSET Resume, Returns(s, st, found)
        PROVE  LaneTypeOK'
    BY <2>1 DEF LaneTypeOK, Returns
  <2>2. LaneTypeOK'
    <3>1. PICK s \in plan : LaneEnds(s)
      OBVIOUS
    <3>2. /\ s \in Source /\ "cts" \in Source /\ "liepin" \in Source
          /\ Offers["cts"] \subseteq Resume /\ Offers["liepin"] \subseteq Resume
          /\ {"completed", "partial", "failed", "blocked"} \subseteq Ended
      BY RunAssumption DEF LaneTypeOK, Ended
    <3>3. CASE CtsLaneReturns
      BY <2>1, <3>2, <3>3 DEF CtsLaneReturns
    <3>4. CASE LiepinLaneReturns
      BY <2>1, <3>2, <3>4 DEF LiepinLaneReturns
    <3>5. CASE LaneBlocked \/ LaneFails(s)
      BY <2>1, <3>2, <3>5 DEF LaneBlocked, LaneFails
    <3> QED
      BY <3>1, <3>3, <3>4, <3>5 DEF LaneEnds
  <2>3. UNCHANGED <<frame, locals, plan>>
    BY DEF LaneEnds, CtsLaneReturns, LiepinLaneReturns, LaneBlocked, LaneFails, Returns
  <2>4. LocalsTypeOK' /\ RoundsCounted' /\ PoolsKept' /\ RunShape(run)'
    BY <2>3 DEF LocalsTypeOK, RoundsCounted, PoolsKept, RunShape, frame, locals
  <2> QED
    BY <2>2, <2>4
<1>2. Applied \in SUBSET Resume
  BY DEF RunInv, LaneTypeOK, Applied
\* What a shortlist does to the record: its top and its reason.
<1>3. ASSUME NEW r, RunShape(r), r.cards = r.seen
      PROVE  /\ RunShape(Shortlisted(r)) /\ Shortlisted(r).cards = r.cards
             /\ Shortlisted(r).seen = r.seen /\ Shortlisted(r).done = r.done
             /\ Shortlisted(r).productive = r.productive /\ Shortlisted(r).backed = r.backed
             /\ Shortlisted(r).pool = r.pool /\ Shortlisted(r).reason # "stopped"
             /\ Shortlisted(r).top = IdentityTopPool(r.cards, r.cards)
             /\ Shortlisted(r).top \subseteq r.cards /\ IsFiniteSet(Shortlisted(r).top)
             /\ Cardinality(Shortlisted(r).top) <= TopK
  <2> DEFINE top == IdentityTopPool(r.seen, r.cards)
             why == IF Coverage = "complete" THEN "lanes_completed" ELSE "lanes_degraded"
  <2>1. Shortlisted(r) = [r EXCEPT !.top = top, !.reason = why]
    BY DEF Shortlisted
  <2>2. why \in Reasons /\ why # "stopped"
    BY DEF Reasons
  <2>3. r.cards \in SUBSET Resume /\ top = IdentityTopPool(r.cards, r.cards)
    BY <1>3 DEF RunShape
  <2>4. top \subseteq r.cards /\ IsFiniteSet(top) /\ Cardinality(top) <= TopK
    BY <2>3, IdentityPool
  <2> HIDE DEF top, why
  <2> QED
    BY <1>3, <2>1, <2>2, <2>3, <2>4 DEF RunShape
<1>4. ASSUME NEW r, RunShape(r), r.cards = r.seen, run' = Shortlisted(r), r.done = run.done,
             r.productive = run.productive, r.backed = run.backed, r.pool = run.pool,
             stage' = "finalize", plan # {"cts"}, UNCHANGED <<laneFrame, round>>, LocalsTypeOK'
      PROVE  RunInv'
  <2>1. LaneTypeOK'
    BY <1>4 DEF RunInv, LaneTypeOK, laneFrame
  <2>2. RoundsCounted'
    BY <1>3, <1>4 DEF RunInv, RoundsCounted, laneFrame
  <2>3. PoolsKept'
    BY <1>3, <1>4 DEF RunInv, PoolsKept, laneFrame
  <2>4. RunShape(run)'
    BY <1>3, <1>4 DEF RunShape
  <2> QED
    BY <1>4, <2>1, <2>2, <2>3, <2>4 DEF RunInv
<1>5. CASE ApplyLanes
  <2>1. run = NewRun /\ plan # {"cts"} /\ stage = "lanes" /\ UNCHANGED <<laneFrame, round, query, batch, ended>>
    BY <1>5 DEF ApplyLanes, RunInv, RoundsCounted
  <2>2. LocalsTypeOK'
    BY <1>5 DEF ApplyLanes, RunInv, LocalsTypeOK
  <2>3. CASE Applied = {}
    <3>1. run' = Shortlisted(run) /\ stage' = "finalize"
      BY <1>5, <2>3 DEF ApplyLanes
    <3>2. RunShape(run) /\ run.cards = run.seen
      BY <2>1, NewRunFacts
    <3> QED
      BY <1>4, <2>1, <2>2, <3>1, <3>2
  <2>4. CASE Applied # {}
    <3>1. run' = [run EXCEPT !.seen = Applied] /\ stage' = "rescore"
      BY <1>5, <2>4 DEF ApplyLanes
    <3>2. /\ RunShape(run') /\ run'.seen = Applied /\ run'.cards = {} /\ run'.top = {}
          /\ run'.done = 0 /\ run'.productive = 0 /\ run'.backed = {} /\ run'.reason = "max_rounds"
      BY <1>2, <2>1, <3>1, NewRunFacts DEF RunShape
    <3>3. LaneTypeOK'
      BY <2>1 DEF RunInv, LaneTypeOK, laneFrame
    <3>4. RoundsCounted'
      BY <2>1, <3>1, <3>2 DEF RunInv, RoundsCounted, laneFrame
    <3>5. PoolsKept'
      BY <2>1, <3>1, <3>2, NewRunFacts, RunAssumption DEF RunInv, PoolsKept, laneFrame
    <3>6. RunShape(run)'
      BY <3>2 DEF RunShape
    <3> QED
      BY <2>2, <3>3, <3>4, <3>5, <3>6 DEF RunInv
  <2> QED
    BY <2>3, <2>4
<1>6. CASE Rescore
  <2> DEFINE r == [run EXCEPT !.cards = run.seen]
  <2>1. /\ run' = Shortlisted(r) /\ plan # {"cts"} /\ stage' = "finalize"
        /\ UNCHANGED <<laneFrame, round>> /\ LocalsTypeOK'
    BY <1>6 DEF Rescore, RunInv, RoundsCounted, LocalsTypeOK
  <2>2. /\ RunShape(r) /\ r.cards = r.seen /\ r.done = run.done /\ r.productive = run.productive
        /\ r.backed = run.backed /\ r.pool = run.pool
    BY DEF RunInv, RunShape
  <2> HIDE DEF r
  <2> QED
    BY <1>4, <2>1, <2>2
<1> QED
  BY <1>1, <1>5, <1>6

LEMMA RunInvStep == RunInv /\ [Next]_vars => RunInv'
<1> SUFFICES ASSUME RunInv, [Next]_vars PROVE RunInv'
  OBVIOUS
<1> USE DEF To, RoundStages, LaneStages, EndStages
<1>1. CASE Requirements \/ Decide \/ Plan \/ Prf \/ Record \/ Score \/ Reflect
  BY <1>1, RoundStepInv
<1>2. CASE LaneReturns \/ ApplyLanes \/ Rescore
  BY <1>2, LaneStepInv
<1>3. CASE SearchGathers
  <2> USE <1>3 DEF SearchGathers, RunInv
  <2>1. LocalsTypeOK'
    BY DEF LocalsTypeOK, frame, RunShape
  <2>2. LaneTypeOK' /\ RoundsCounted' /\ PoolsKept' /\ RunShape(run)'
    BY DEF LaneTypeOK, RoundsCounted, PoolsKept, RunShape, frame, laneFrame
  <2> QED
    BY <2>1, <2>2
<1>4. CASE SearchReturns \/ SearchBreaks
  <2>1. LocalsTypeOK' /\ UNCHANGED <<laneFrame, round, run, batch>> /\ stage' = stage
    BY <1>4 DEF SearchReturns, SearchBreaks, Search!Return, Search!Break, RunInv, LocalsTypeOK, frame
  <2> QED
    BY <2>1, SameRun
<1>5. CASE ExtractAgain \/ DecideAgain \/ ReflectAgain \/ FinalizeAgain
  <2>1. LocalsTypeOK' /\ UNCHANGED <<laneFrame, round, run, batch>> /\ stage' = stage
    BY <1>5 DEF ExtractAgain, DecideAgain, ReflectAgain, FinalizeAgain, AskAgain, Asking,
                RunInv, LocalsTypeOK, frame
  <2> QED
    BY <2>1, SameRun
<1>6. CASE Finalize
  <2>1. /\ LocalsTypeOK' /\ UNCHANGED <<laneFrame, round, run, batch>>
        /\ stage = "finalize" /\ stage' = "evaluate"
    BY <1>6 DEF Finalize, RunInv, LocalsTypeOK
  <2> QED
    BY <2>1, SameRun
<1>7. CASE CancelRun \/ Evaluate
  BY <1>7, ForgottenRun DEF CancelRun, Cancel, Evaluate, Return
<1>8. CASE \/ RequirementsFail \/ ControllerFails \/ ReflectionFails \/ FinalizerFails \/ PlanFails
           \/ PrfFails \/ ScoringFails \/ RowsFail \/ LanesFail \/ EvaluationFails
           \/ SearchFails \/ RecordFails
  <2>1. ASSUME NEW s, Raise(s) PROVE RunInv'
    BY <2>1, ForgottenRun DEF Raise, Fail
  <2> QED
    BY <1>8, <2>1 DEF RequirementsFail, ControllerFails, ReflectionFails, FinalizerFails, PlanFails,
          PrfFails, ScoringFails, RowsFail, LanesFail, EvaluationFails, SearchFails, RecordFails
<1>9. CASE (OpenRun \/ StartRun \/ OpenFails \/ StartFails) /\ UNCHANGED <<laneFrame, locals>>
  <2>1. LocalsTypeOK' /\ UNCHANGED <<laneFrame, round, run, batch>>
    BY <1>9 DEF OpenRun, StartRun, OpenFails, StartFails, RunInv, LocalsTypeOK, locals, Asking
  <2>2. \/ stage = "open" /\ stage' = "start"
        \/ stage = "start" /\ stage' = "requirements"
        \/ stage' \in {"corpus", "over"} /\ stage \notin EndStages
    BY <1>9 DEF OpenRun, StartRun, OpenFails, StartFails
  <2> QED
    BY <2>1, <2>2, SameRun
<1>10. CASE Close /\ UNCHANGED <<laneFrame, locals>>
  <2> USE DEF Close, CloseCorpus, CloseDatabase, CloseDatabaseFails, CloseFlywheel,
              CloseFlywheelFails, CloseTrace, CloseTraceFails
  <2>1. stage' \in {"close", "flywheel", "trace", "over"} /\ stage \in {"corpus", "close", "flywheel", "trace"}
    BY <1>10
  <2>2. LocalsTypeOK' /\ UNCHANGED <<laneFrame, round, run, batch>>
    BY <1>10, <2>1 DEF RunInv, LocalsTypeOK, locals, Asking
  <2> QED
    BY <2>1, <2>2, SameRun
<1>11. CASE Finished \/ UNCHANGED vars
  <2>1. LocalsTypeOK' /\ UNCHANGED <<laneFrame, round, run, batch>> /\ stage' = stage
    BY <1>11 DEF Finished, vars, RunInv, LocalsTypeOK, frame, locals
  <2> QED
    BY <2>1, SameRun
<1> QED
  BY <1>1, <1>2, <1>3, <1>4, <1>5, <1>6, <1>7, <1>8, <1>9, <1>10, <1>11 DEF Next, Step, Trouble

LEMMA RunInvHolds == Spec => []RunInv
<1>1. Init => RunInv
  BY RunInvInit
<1>2. RunInv /\ [Next]_vars => RunInv'
  BY RunInvStep
<1> QED
  BY <1>1, <1>2, PTL DEF Spec

\* The variables of a run are what they can be: the shortlist is drawn from scored
\* resumes, no round is counted twice, and only a search has resumes without a score.
THEOREM RunTypes == Spec => []RuntimeTypeOK
<1>1. StoresInv /\ RunInv => RuntimeTypeOK
  BY RunAssumption
  DEF StoresInv, RunInv, RuntimeTypeOK, LocalsTypeOK, RunShape, RoundsCounted, PoolsKept
<1> QED
  BY <1>1, StoresInvHolds, RunInvHolds, PTL

\* A CTS run that the controller ends early has done its minimum of rounds, and
\* either the budget is nearly spent or the pool is good or everything was tried,
\* whatever the models and the searches answer.
THEOREM StopsEarned == Spec => []StopIsEarned
<1>1. RunInv => StopIsEarned
  BY DEF RunInv, RoundsCounted, StopIsEarned, Earned, EndStages
<1> QED
  BY <1>1, RunInvHolds, PTL

\* Everybody who was found has been scored, and nobody is left out of the shortlist
\* for somebody worse; a run over several sources shows each person once.
THEOREM PoolsAreFair == Spec => []PoolIsFair
<1>1. ASSUME RunInv, stage \in EndStages PROVE PoolIsFair
  <2>1. run.cards \in SUBSET Resume /\ run.cards = run.seen /\ run.top \subseteq run.cards
    BY <1>1 DEF RunInv, PoolsKept, RunShape
  <2> DEFINE same(r, x) == IF plan = {"cts"} THEN r = x ELSE Person[r] = Person[x]
             classes == {{x \in run.cards : same(r, x)} : r \in run.cards}
             n == Cardinality(classes)
  <2>2. /\ \A r, x \in run.top : same(r, x) => r = x
        /\ Cardinality(run.top) = IF n < TopK THEN n ELSE TopK
        /\ \A x \in run.cards : \A y \in run.top :
             (\A r \in run.top : ~same(r, x)) =>
                 \E z \in run.cards : same(y, z) /\ Place[z] < Place[x]
    <3>1. CASE plan = {"cts"}
      <4>1. run.top = Best(run.cards, TopK)
        BY <1>1, <3>1 DEF RunInv, PoolsKept
      <4>2. classes = {{x \in run.cards : r = x} : r \in run.cards}
        BY <3>1
      <4>3. Cardinality(run.top) = IF n < TopK THEN n ELSE TopK
        BY <2>1, <4>1, <4>2, RoundsPool
      <4>4. FairToResumes(run.cards, run.top)
        BY <2>1, <4>1, RoundsPool
      <4> HIDE DEF classes
      <4> QED
        BY <3>1, <4>3, <4>4 DEF FairToResumes
    <3>2. CASE plan # {"cts"}
      <4>1. run.top = IdentityTopPool(run.cards, run.cards)
        BY <1>1, <3>2 DEF RunInv, PoolsKept
      <4>2. classes = {{x \in run.cards : Person[r] = Person[x]} : r \in run.cards}
        BY <3>2
      <4>3. Cardinality(run.top) = IF n < TopK THEN n ELSE TopK
        BY <2>1, <4>1, <4>2, IdentityPool
      <4>4. OnePerPerson(run.top) /\ FairToPeople(run.cards, run.top)
        BY <2>1, <4>1, IdentityPool
      <4> HIDE DEF classes
      <4> QED
        BY <3>2, <4>3, <4>4 DEF OnePerPerson, FairToPeople
    <3> QED
      BY <3>1, <3>2
  <2> QED
    BY <2>1, <2>2 DEF PoolIsFair
<1>2. RunInv => PoolIsFair
  BY <1>1 DEF PoolIsFair, EndStages
<1> QED
  BY <1>2, RunInvHolds, PTL

----------------------------------------------------------------------------
(* The least element under a key of several numbers.                       *)

LEMMA SmallestExists ==
    ASSUME NEW X, IsFiniteSet(X), X # {}, NEW f, \A x \in X : f[x] \in Int
    PROVE  \E x \in X : \A y \in X : f[x] <= f[y]
<1> DEFINE values == {f[x] : x \in X}
           itself == [v \in values |-> v]
<1>1. IsFiniteSet(values)
  <2>1. [x \in X |-> f[x]] \in Surjection(X, values)
    BY DEF Surjection
  <2> QED
    BY <2>1, FS_Surjection
<1>2. values # {} /\ Ordered(values, itself)
  BY DEF Ordered
<1>3. PICK v \in values : \A w \in values : itself[v] <= itself[w]
  <2> HIDE DEF values, itself
  <2> QED
    BY <1>1, <1>2, FirstExists
<1> QED
  BY <1>3

\* A pair of keys: the second decides between those that the first leaves alike.
LEMMA SmallestPair ==
    ASSUME NEW X, IsFiniteSet(X), X # {}, NEW f, NEW g, \A x \in X : f[x] \in Int /\ g[x] \in Int
    PROVE  \E x \in X : \A y \in X : f[x] <= f[y] /\ (f[y] = f[x] => g[x] <= g[y])
<1>1. PICK m \in X : \A y \in X : f[m] <= f[y]
  BY SmallestExists
<1> DEFINE alike == {x \in X : f[x] = f[m]}
<1>2. IsFiniteSet(alike) /\ alike # {} /\ \A x \in alike : g[x] \in Int
  BY FS_Subset
<1>3. PICK x \in alike : \A y \in alike : g[x] <= g[y]
  <2> HIDE DEF alike
  <2> QED
    BY <1>2, SmallestExists
<1> QED
  BY <1>1, <1>3

LEMMA LessSingle == ASSUME NEW a, NEW b PROVE Less(<<a>>, <<b>>) <=> a < b
<1> DEFINE p == <<a>>
           q == <<b>>
<1>1. DOMAIN p = {1} /\ p[1] = a /\ q[1] = b /\ \A j \in 1..0 : FALSE
  OBVIOUS
<1> HIDE DEF p, q
<1>2. Less(p, q) <=> p[1] < q[1]
  BY <1>1 DEF Less
<1> QED
  BY <1>1, <1>2 DEF p, q

LEMMA LessPair == \A a, b, c, d : Less(<<a, b>>, <<c, d>>) <=> a < c \/ (b < d /\ a = c)
BY DEF Less

LEMMA LessFour ==
    ASSUME NEW a, NEW b, NEW c, NEW d, NEW e, NEW f, NEW g, NEW h
    PROVE  Less(<<a, b, c, d>>, <<e, f, g, h>>)
              <=> \/ a < e
                  \/ b < f /\ a = e
                  \/ c < g /\ a = e /\ b = f
                  \/ d < h /\ a = e /\ b = f /\ c = g
<1> DEFINE p == <<a, b, c, d>>
           q == <<e, f, g, h>>
<1>1. /\ DOMAIN p = 1..4 /\ p[1] = a /\ p[2] = b /\ p[3] = c /\ p[4] = d
      /\ q[1] = e /\ q[2] = f /\ q[3] = g /\ q[4] = h
  OBVIOUS
<1>2. \A i \in 1..4 : i = 1 \/ i = 2 \/ i = 3 \/ i = 4
  OBVIOUS
<1>3. /\ \A j \in 1..0 : FALSE
      /\ \A j : j \in 1..1 <=> j = 1
      /\ \A j : j \in 1..2 <=> j = 1 \/ j = 2
      /\ \A j : j \in 1..3 <=> j = 1 \/ j = 2 \/ j = 3
  OBVIOUS
<1> HIDE DEF p, q
<1>4. Less(p, q) <=> \/ p[1] < q[1]
                     \/ p[2] < q[2] /\ p[1] = q[1]
                     \/ p[3] < q[3] /\ p[1] = q[1] /\ p[2] = q[2]
                     \/ p[4] < q[4] /\ p[1] = q[1] /\ p[2] = q[2] /\ p[3] = q[3]
  <2>1. ASSUME Less(p, q)
        PROVE  \/ p[1] < q[1]
               \/ p[2] < q[2] /\ p[1] = q[1]
               \/ p[3] < q[3] /\ p[1] = q[1] /\ p[2] = q[2]
               \/ p[4] < q[4] /\ p[1] = q[1] /\ p[2] = q[2] /\ p[3] = q[3]
    <3>1. PICK i \in 1..4 : p[i] < q[i] /\ \A j \in 1..(i - 1) : p[j] = q[j]
      BY <1>1, <2>1 DEF Less
    <3> QED
      BY <1>2, <1>3, <3>1
  <2>2. ASSUME NEW i \in 1..4, p[i] < q[i], \A j \in 1..(i - 1) : p[j] = q[j]
        PROVE  Less(p, q)
    BY <1>1, <2>2 DEF Less
  <2>3. p[1] < q[1] => Less(p, q)
    BY <1>3, <2>2
  <2>4. p[2] < q[2] /\ p[1] = q[1] => Less(p, q)
    BY <1>3, <2>2
  <2>5. p[3] < q[3] /\ p[1] = q[1] /\ p[2] = q[2] => Less(p, q)
    BY <1>3, <2>2
  <2>6. p[4] < q[4] /\ p[1] = q[1] /\ p[2] = q[2] /\ p[3] = q[3] => Less(p, q)
    BY <1>3, <2>2
  <2> QED
    BY <2>1, <2>3, <2>4, <2>5, <2>6
<1> QED
  BY <1>1, <1>4 DEF p, q

----------------------------------------------------------------------------
(* The pool of a run always has an active anchor and an active other term. *)

RoleAnchor == CHOOSE a \in Compiled : Primary(a)
PoolReady(pool) ==
    /\ pool.terms \subseteq Term /\ pool.active \subseteq pool.terms
    /\ RoleAnchor \in pool.active
    /\ \E t \in pool.active \cap Admitted : ~Title(t)

LEMMA OneAnchor ==
    /\ RoleAnchor \in Compiled /\ RoleAnchor \in Term /\ Primary(RoleAnchor) /\ Title(RoleAnchor)
    /\ RoleAnchor \in Admitted
    /\ \A t \in Term : Primary(t) => t = RoleAnchor
    /\ \A t \in Term : ~Title(t) => t # RoleAnchor /\ ~Primary(t) /\ Family[t] # Family[RoleAnchor]
<1>1. PICK a \in Compiled : Primary(a) /\ \A t \in Term : Primary(t) => t = a
  BY PoolAssumption
<1>2. RoleAnchor \in Compiled /\ Primary(RoleAnchor)
  BY <1>1 DEF RoleAnchor
<1> QED
  BY <1>1, <1>2, PoolAssumption DEF Title, Primary

LEMMA ActiveAnchorIs == ASSUME NEW pool, PoolReady(pool) PROVE ActiveAnchor(pool) = RoleAnchor
<1>1. {t \in pool.active : Primary(t)} = {RoleAnchor}
  BY OneAnchor DEF PoolReady
<1>2. ~Less(<<Rank[RoleAnchor]>>, <<Rank[RoleAnchor]>>)
  BY OneAnchor, LessSingle, PoolAssumption
<1> QED
  BY <1>1, <1>2 DEF ActiveAnchor, First, Least

LEMMA CompiledIsReady == PoolReady(CompiledPool)
<1> DEFINE plain == {t \in Compiled \cap Admitted : ~Title(t)}
<1>1. IsFiniteSet(plain) /\ plain # {} /\ Ordered(plain, Rank)
  BY PoolAssumption, FS_Subset DEF Ordered
<1>2. PICK t \in plain : \A u \in plain : Rank[t] <= Rank[u]
  <2> HIDE DEF plain
  <2> QED
    BY <1>1, FirstExists
<1>3. {u \in plain : Rank[u] < Rank[t]} = {} /\ Cardinality({}) = 0
  BY <1>2, PoolAssumption, FS_EmptySet
<1>4. t \in CompiledPool.active
  BY <1>3, PoolAssumption DEF CompiledPool
<1>5. RoleAnchor \in CompiledPool.active
  BY OneAnchor DEF CompiledPool
<1> QED
  BY <1>4, <1>5, PoolAssumption DEF PoolReady, CompiledPool

----------------------------------------------------------------------------
(* Queries that are accepted.                                              *)

LEMMA PairIsAccepted ==
    ASSUME NEW pool, PoolReady(pool), NEW t \in pool.active \cap Admitted, t # RoleAnchor,
           NEW n, n > 1 => ~Title(t), Family[t] # Family[RoleAnchor], NEW backed, NEW alone
    PROVE  /\ <<RoleAnchor, t>> \in Seq(Term) /\ Len(<<RoleAnchor, t>>) = 2
           /\ <<RoleAnchor, t>>[1] = RoleAnchor
           /\ Accepted(<<RoleAnchor, t>>, n, pool, backed, alone)
<1> DEFINE ts == <<RoleAnchor, t>>
<1>1. /\ t \in Term /\ RoleAnchor \in Term /\ ~Primary(t) /\ Primary(RoleAnchor)
      /\ RoleAnchor \in Admitted /\ Family[t] # Family[RoleAnchor]
  BY OneAnchor, PoolAssumption DEF PoolReady
<1>2. ts \in Seq(Term) /\ Len(ts) = 2 /\ DOMAIN ts = {1, 2} /\ ts[1] = RoleAnchor /\ ts[2] = t
  BY <1>1
<1> HIDE DEF ts
<1>3. ToSet(ts) = {RoleAnchor, t} /\ IsInjective(ts)
  BY <1>2 DEF ToSet, IsInjective
<1>4. Support(ts) = {t}
  BY <1>1, <1>3 DEF Support
<1>5. \E i \in DOMAIN ts : \A k \in DOMAIN ts : Primary(ts[k]) <=> k = i
  BY <1>1, <1>2
<1>6. Len(ts) \in (IF n = 1 THEN {2} ELSE {2, 3}) /\ Len(ts) # 1
  BY <1>2
<1>7. ToSet(ts) \subseteq pool.terms /\ ToSet(ts) \subseteq Admitted
  BY <1>1, <1>3 DEF PoolReady
<1>8. \A x, y \in ToSet(ts) : Family[x] = Family[y] => x = y
  BY <1>1, <1>3
<1>9. Accepted(ts, n, pool, backed, alone)
  BY <1>3, <1>4, <1>5, <1>6, <1>7, <1>8 DEF Accepted
<1> QED
  BY <1>2, <1>9 DEF ts

LEMMA TripleIsAccepted ==
    ASSUME NEW pool, PoolReady(pool), NEW t \in pool.active \cap Admitted, ~Title(t),
           NEW u \in pool.active \cap Admitted, ~Title(u), Family[t] # Family[u],
           NEW n, n # 1, NEW backed, NEW alone
    PROVE  /\ <<RoleAnchor, t, u>> \in Seq(Term) /\ Len(<<RoleAnchor, t, u>>) = 3
           /\ <<RoleAnchor, t, u>>[1] = RoleAnchor
           /\ Accepted(<<RoleAnchor, t, u>>, n, pool, backed, alone)
<1> DEFINE ts == <<RoleAnchor, t, u>>
<1>1. /\ t \in Term /\ u \in Term /\ RoleAnchor \in Term /\ ~Primary(t) /\ ~Primary(u)
      /\ Primary(RoleAnchor) /\ RoleAnchor \in Admitted
      /\ Family[t] # Family[RoleAnchor] /\ Family[u] # Family[RoleAnchor]
      /\ t # RoleAnchor /\ u # RoleAnchor /\ t # u
  BY OneAnchor DEF PoolReady
<1>2. /\ ts \in Seq(Term) /\ Len(ts) = 3 /\ DOMAIN ts = {1, 2, 3}
      /\ ts[1] = RoleAnchor /\ ts[2] = t /\ ts[3] = u
  BY <1>1
<1> HIDE DEF ts
<1>3. ToSet(ts) = {RoleAnchor, t, u} /\ IsInjective(ts)
  BY <1>1, <1>2 DEF ToSet, IsInjective
<1>4. Support(ts) = {t, u}
  BY <1>1, <1>3 DEF Support
<1>5. \E i \in DOMAIN ts : \A k \in DOMAIN ts : Primary(ts[k]) <=> k = i
  BY <1>1, <1>2
<1>6. Len(ts) \in (IF n = 1 THEN {2} ELSE {2, 3}) /\ Len(ts) # 1
  BY <1>2
<1>7. ToSet(ts) \subseteq pool.terms /\ ToSet(ts) \subseteq Admitted
  BY <1>1, <1>3 DEF PoolReady
<1>8. \A x, y \in ToSet(ts) : Family[x] = Family[y] => x = y
  BY <1>1, <1>3
<1>9. Accepted(ts, n, pool, backed, alone)
  BY <1>3, <1>4, <1>5, <1>6, <1>7, <1>8 DEF Accepted
<1> QED
  BY <1>2, <1>9 DEF ts

\* What is accepted stays so in a larger pool and with more that reflection backs, also
\* where a role anchor may go alone.
LEMMA AcceptedStays ==
    ASSUME NEW ts, NEW n, NEW pool, NEW other, NEW backed, NEW more, NEW alone,
           Accepted(ts, n, pool, backed, FALSE),
           pool.terms \subseteq other.terms, pool.active \subseteq other.active, backed \subseteq more
    PROVE  Accepted(ts, n, other, more, alone)
BY DEF Accepted

LEMMA AnchorIsAccepted ==
    ASSUME NEW pool, PoolReady(pool), NEW n, NEW backed
    PROVE  /\ <<RoleAnchor>> \in Seq(Term) /\ Len(<<RoleAnchor>>) = 1 /\ <<RoleAnchor>>[1] = RoleAnchor
           /\ Accepted(<<RoleAnchor>>, n, pool, backed, TRUE)
<1> DEFINE ts == <<RoleAnchor>>
<1>1. ts \in Seq(Term) /\ Len(ts) = 1 /\ DOMAIN ts = {1} /\ ts[1] = RoleAnchor
  BY OneAnchor
<1> HIDE DEF ts
<1>2. ToSet(ts) = {RoleAnchor} /\ IsInjective(ts)
  BY <1>1 DEF ToSet, IsInjective
<1>3. Accepted(ts, n, pool, backed, TRUE)
  BY <1>1, <1>2, OneAnchor DEF Accepted, PoolReady
<1> QED
  BY <1>1, <1>3 DEF ts

LEMMA Joined ==
    ASSUME NEW a \in Term, NEW ts \in Seq(Term)
    PROVE  /\ <<a>> \o ts \in Seq(Term) /\ Len(<<a>> \o ts) = Len(ts) + 1
           /\ (<<a>> \o ts)[1] = a
           /\ \A i \in 1..Len(ts) : (<<a>> \o ts)[i + 1] = ts[i]
<1> DEFINE first == <<a>>
<1>1. first \in Seq(Term) /\ Len(first) = 1 /\ first[1] = a
  OBVIOUS
<1>2. Len(ts) \in Nat
  OBVIOUS
<1> HIDE DEF first
<1>3. /\ first \o ts \in Seq(Term) /\ Len(first \o ts) = Len(first) + Len(ts)
      /\ \A i \in 1..(Len(first) + Len(ts)) :
            (first \o ts)[i] = IF i <= Len(first) THEN first[i] ELSE ts[i - Len(first)]
  BY <1>1, ConcatProperties
<1>4. 1 \in 1..(1 + Len(ts)) /\ \A i \in 1..Len(ts) : /\ i + 1 \in 1..(1 + Len(ts))
                                                       /\ ~(i + 1 <= 1) /\ (i + 1) - 1 = i
  BY <1>2
<1> HIDE DEF first
<1>5. (first \o ts)[1] = a /\ \A i \in 1..Len(ts) : (first \o ts)[i + 1] = ts[i]
  BY <1>1, <1>3, <1>4
<1> QED
  BY <1>1, <1>2, <1>3, <1>5 DEF first

LEMMA RemovedIs ==
    ASSUME NEW ts \in Seq(Term), NEW i \in 1..Len(ts)
    PROVE  /\ RemoveAt(ts, i) \in Seq(Term) /\ Len(RemoveAt(ts, i)) = Len(ts) - 1
           /\ \A j \in 1..(Len(ts) - 1) : RemoveAt(ts, i)[j] = IF j < i THEN ts[j] ELSE ts[j + 1]
<1> DEFINE front == SubSeq(ts, 1, i - 1)
           back == SubSeq(ts, i + 1, Len(ts))
           n == Len(ts)
<1>1. n \in Nat /\ i \in 1..n /\ \A j \in 1..n : ts[j] \in Term
  OBVIOUS
<1> HIDE DEF n
<1>2. /\ front \in Seq(Term) /\ Len(front) = i - 1
      /\ \A j \in 1..(i - 1) : front[j] = ts[j]
  <2>1. 1 \in Int /\ i - 1 \in Int /\ \A j \in 1..(i - 1) : ts[j] \in Term
    BY <1>1
  <2>2. /\ front \in Seq(Term) /\ Len(front) = IF 1 <= i - 1 THEN (i - 1) - 1 + 1 ELSE 0
        /\ \A j \in 1..((i - 1) - 1 + 1) : front[j] = ts[1 + j - 1]
    BY <2>1, SubSeqProperties
  <2> HIDE DEF front
  <2>3. (i - 1) - 1 + 1 = i - 1 /\ \A j \in 1..(i - 1) : 1 + j - 1 = j
    BY <1>1
  <2>4. Len(front) = i - 1
    BY <1>1, <2>2
  <2> QED
    BY <2>2, <2>3, <2>4
<1>3. /\ back \in Seq(Term) /\ Len(back) = n - i
      /\ \A j \in 1..(n - i) : back[j] = ts[j + i]
  <2>1. i + 1 \in Int /\ n \in Int /\ \A j \in (i + 1)..n : ts[j] \in Term
    BY <1>1
  <2>2. /\ back \in Seq(Term) /\ Len(back) = IF i + 1 <= n THEN n - (i + 1) + 1 ELSE 0
        /\ \A j \in 1..(n - (i + 1) + 1) : back[j] = ts[(i + 1) + j - 1]
    BY <2>1, SubSeqProperties DEF n
  <2> HIDE DEF back
  <2>3. n - (i + 1) + 1 = n - i /\ \A j \in 1..(n - i) : (i + 1) + j - 1 = j + i
    BY <1>1
  <2>4. Len(back) = n - i
    BY <1>1, <2>2
  <2> QED
    BY <2>2, <2>3, <2>4
<1>4. RemoveAt(ts, i) = front \o back
  BY DEF RemoveAt
<1> HIDE DEF front, back
<1> DEFINE all == front \o back
<1>5. /\ all \in Seq(Term) /\ Len(all) = Len(front) + Len(back)
      /\ \A j \in 1..(Len(front) + Len(back)) :
            all[j] = IF j <= Len(front) THEN front[j] ELSE back[j - Len(front)]
  BY <1>2, <1>3, ConcatProperties
<1> HIDE DEF all
<1>6. Len(all) = n - 1
  BY <1>1, <1>2, <1>3, <1>5
<1>7. ASSUME NEW j \in 1..(n - 1) PROVE all[j] = IF j < i THEN ts[j] ELSE ts[j + 1]
  <2>1. all[j] = IF j <= i - 1 THEN front[j] ELSE back[j - (i - 1)]
    BY <1>1, <1>2, <1>3, <1>5
  <2>2. CASE j < i
    BY <1>1, <1>2, <2>1, <2>2
  <2>3. CASE ~(j < i)
    <3>1. ~(j <= i - 1) /\ j - (i - 1) \in 1..(n - i) /\ (j - (i - 1)) + i = j + 1
      BY <1>1, <2>3
    <3>2. all[j] = ts[j + 1]
      BY <1>3, <2>1, <3>1
    <3> QED
      BY <2>3, <3>2
  <2> QED
    BY <2>2, <2>3
<1> QED
  BY <1>4, <1>5, <1>6, <1>7 DEF all, n

\* The anchor goes to the front, and nothing else changes.
LEMMA CanonicalIs ==
    ASSUME NEW ts \in Seq(Term), NEW n, NEW pool, NEW backed, Accepted(ts, n, pool, backed, FALSE)
    PROVE  /\ CanonicalTerms(ts) \in Seq(Term) /\ Len(CanonicalTerms(ts)) >= 2
           /\ CanonicalTerms(ts)[1] = RoleAnchor
           /\ Accepted(CanonicalTerms(ts), n, pool, backed, FALSE)
<1> DEFINE canon == CanonicalTerms(ts)
           first == CHOOSE i \in DOMAIN ts : Primary(ts[i])
<1>1. /\ IsInjective(ts) /\ ToSet(ts) \subseteq pool.terms /\ Len(ts) # 1
      /\ Len(ts) \in (IF n = 1 THEN {2} ELSE {2, 3}) /\ ToSet(ts) \subseteq Admitted
      /\ \A t \in Support(ts) : /\ Title(t) \/ t \in pool.active \/ t \in backed
                                /\ n > 1 => ~Title(t)
      /\ \A t, u \in ToSet(ts) : Family[t] = Family[u] => t = u
  BY DEF Accepted
<1>2. PICK i \in DOMAIN ts : \A k \in DOMAIN ts : Primary(ts[k]) <=> k = i
  BY <1>1 DEF Accepted
<1>3. first = i /\ DOMAIN ts = 1..Len(ts) /\ Len(ts) \in {2, 3}
  BY <1>1, <1>2
<1>4. i \in 1..Len(ts) /\ \A k \in 1..Len(ts) : ts[k] \in Term
  BY <1>2, <1>3
<1>5. \A k \in 1..Len(ts) : k # 1 /\ k <= i => k - 1 \in 1..Len(ts)
  BY <1>3, <1>4
<1> DEFINE rest == RemoveAt(ts, i)
<1>6. canon = <<ts[i]>> \o rest
  <2>1. canon = <<ts[first]>> \o RemoveAt(ts, first)
    BY DEF CanonicalTerms
  <2> HIDE DEF canon, first
  <2> QED
    BY <1>3, <2>1
<1> HIDE DEF canon
<1>7. /\ rest \in Seq(Term) /\ Len(rest) = Len(ts) - 1
      /\ \A j \in 1..(Len(ts) - 1) : rest[j] = IF j < i THEN ts[j] ELSE ts[j + 1]
  BY <1>4, RemovedIs
<1> HIDE DEF rest
<1>8. /\ canon \in Seq(Term) /\ Len(canon) = Len(rest) + 1 /\ canon[1] = ts[i]
      /\ \A j \in 1..Len(rest) : canon[j + 1] = rest[j]
  BY <1>4, <1>6, <1>7, Joined
<1>9. Len(canon) = Len(ts) /\ DOMAIN canon = 1..Len(ts)
  BY <1>3, <1>7, <1>8
<1>10. \A k \in 1..Len(ts) :
        canon[k] = IF k = 1 THEN ts[i] ELSE IF k <= i THEN ts[k - 1] ELSE ts[k]
  <2> SUFFICES ASSUME NEW k \in 1..Len(ts)
               PROVE  canon[k] = IF k = 1 THEN ts[i] ELSE IF k <= i THEN ts[k - 1] ELSE ts[k]
    OBVIOUS
  <2>1. CASE k = 1
    BY <1>8, <2>1
  <2>2. CASE k # 1
    <3> DEFINE j == k - 1
    <3>1. j \in 1..(Len(ts) - 1) /\ j + 1 = k /\ (j < i <=> k <= i)
      BY <1>3, <1>4, <2>2
    <3>2. canon[j + 1] = rest[j]
      BY <1>7, <1>8, <3>1
    <3>3. rest[j] = IF j < i THEN ts[j] ELSE ts[j + 1]
      BY <1>7, <3>1
    <3> QED
      BY <2>2, <3>1, <3>2, <3>3
  <2> QED
    BY <2>1, <2>2
<1> HIDE DEF first
<1>11. /\ \A k \in 1..Len(ts) : \E j \in 1..Len(ts) : canon[k] = ts[j]
       /\ \A k \in 1..Len(ts) : \E j \in 1..Len(ts) : ts[k] = canon[j]
       /\ \A k \in 1..Len(ts) : canon[k] = ts[i] => k = 1
  <2>1. \A k, j \in 1..Len(ts) : ts[k] = ts[j] => k = j
    BY <1>1, <1>3 DEF IsInjective
  <2>2. \A k \in 1..Len(ts) : \E j \in 1..Len(ts) : canon[k] = ts[j]
    BY <1>4, <1>5, <1>10
  <2>3. \A k \in 1..Len(ts) : \E j \in 1..Len(ts) : ts[k] = canon[j]
    <3> SUFFICES ASSUME NEW k \in 1..Len(ts) PROVE \E j \in 1..Len(ts) : ts[k] = canon[j]
      OBVIOUS
    <3>1. CASE k = i
      BY <1>3, <1>4, <1>10, <3>1
    <3>2. CASE k < i
      <4>1. k + 1 \in 1..Len(ts) /\ k + 1 # 1 /\ k + 1 <= i /\ (k + 1) - 1 = k
        BY <1>3, <1>4, <3>2
      <4> QED
        BY <1>10, <4>1
    <3>3. CASE k > i
      <4>1. k # 1 /\ ~(k <= i)
        BY <1>3, <1>4, <3>3
      <4> QED
        BY <1>10, <4>1
    <3> QED
      BY <1>3, <1>4, <3>1, <3>2, <3>3
  <2>4. ASSUME NEW k \in 1..Len(ts), canon[k] = ts[i], k # 1 PROVE FALSE
    <3>1. CASE k <= i
      <4>1. canon[k] = ts[k - 1] /\ k - 1 \in 1..Len(ts) /\ k - 1 # i
        BY <1>3, <1>4, <1>5, <1>10, <2>4, <3>1
      <4> QED
        BY <1>4, <2>1, <2>4, <4>1
    <3>2. CASE ~(k <= i)
      <4>1. canon[k] = ts[k] /\ k # i
        BY <1>4, <1>10, <2>4, <3>2
      <4> QED
        BY <1>4, <2>1, <2>4, <4>1
    <3> QED
      BY <3>1, <3>2
  <2> QED
    BY <2>2, <2>3, <2>4
<1>12. ToSet(canon) = ToSet(ts) /\ Support(canon) = Support(ts)
  <2>1. /\ \A x : x \in ToSet(canon) <=> \E k \in 1..Len(ts) : x = canon[k]
        /\ \A x : x \in ToSet(ts) <=> \E k \in 1..Len(ts) : x = ts[k]
    BY <1>3, <1>8, <1>9 DEF ToSet
  <2>2. ASSUME NEW x, x \in ToSet(canon) PROVE x \in ToSet(ts)
    <3>1. PICK k \in 1..Len(ts) : x = canon[k]
      BY <2>1, <2>2
    <3>2. PICK j \in 1..Len(ts) : canon[k] = ts[j]
      BY <1>11
    <3> QED
      BY <2>1, <3>1, <3>2
  <2>3. ASSUME NEW x, x \in ToSet(ts) PROVE x \in ToSet(canon)
    <3>1. PICK k \in 1..Len(ts) : x = ts[k]
      BY <2>1, <2>3
    <3>2. PICK j \in 1..Len(ts) : ts[k] = canon[j]
      BY <1>11
    <3> QED
      BY <2>1, <3>1, <3>2
  <2> QED
    BY <2>2, <2>3 DEF Support
<1>13. IsInjective(canon)
  <2>1. \A k, j \in 1..Len(ts) : ts[k] = ts[j] => k = j
    BY <1>1, <1>3 DEF IsInjective
  <2>2. ASSUME NEW k \in 1..Len(ts), NEW j \in 1..Len(ts), canon[k] = canon[j] PROVE k = j
    <3>1. CASE k = 1 \/ j = 1
      BY <1>8, <1>9, <1>11, <2>2, <3>1
    <3>2. CASE k # 1 /\ j # 1
      <4>1. /\ canon[k] = IF k <= i THEN ts[k - 1] ELSE ts[k]
            /\ canon[j] = IF j <= i THEN ts[j - 1] ELSE ts[j]
        BY <1>10, <3>2
      <4>2. (k <= i => k - 1 \in 1..Len(ts)) /\ (j <= i => j - 1 \in 1..Len(ts))
        BY <1>5, <3>2
      <4>3. (IF k <= i THEN k - 1 ELSE k) = (IF j <= i THEN j - 1 ELSE j)
        BY <2>1, <2>2, <4>1, <4>2
      <4> QED
        BY <1>3, <1>4, <4>3
    <3> QED
      BY <3>1, <3>2
  <2> QED
    BY <1>8, <1>9, <2>2 DEF IsInjective
<1>14. canon[1] = RoleAnchor
  BY <1>2, <1>3, <1>4, <1>8, <1>9, OneAnchor
<1>15. \E j \in DOMAIN canon : \A k \in DOMAIN canon : Primary(canon[k]) <=> k = j
  <2>1. \A k \in 1..Len(ts) : Primary(canon[k]) <=> k = 1
    <3>1. Primary(ts[i])
      BY <1>2
    <3>2. ASSUME NEW k \in 1..Len(ts), Primary(canon[k]) PROVE k = 1
      <4>1. PICK j \in 1..Len(ts) : canon[k] = ts[j]
        BY <1>11
      <4>2. j = i
        BY <1>2, <1>3, <3>2, <4>1
      <4> QED
        BY <1>11, <4>1, <4>2
    <3> QED
      BY <1>8, <1>9, <3>1, <3>2
  <2>2. 1 \in 1..Len(ts)
    BY <1>3
  <2> QED
    BY <1>8, <1>9, <2>1, <2>2
<1>16. Accepted(canon, n, pool, backed, FALSE)
  BY <1>1, <1>8, <1>9, <1>12, <1>13, <1>15 DEF Accepted
<1> QED
  <2>1. Len(canon) >= 2
    BY <1>3, <1>8, <1>9
  <2> QED
    BY <1>8, <1>9, <1>14, <1>16, <2>1 DEF canon

----------------------------------------------------------------------------
(* Queries the runtime itself makes up.                                    *)

LEMMA FirstIs == ASSUME NEW X \in SUBSET Term, X # {} PROVE First(X) \in X
<1>1. IsFiniteSet(X) /\ Ordered(X, Rank)
  BY PoolAssumption, FS_Subset DEF Ordered
<1>2. PICK t \in X : \A u \in X : Rank[t] <= Rank[u]
  BY <1>1, FirstExists
<1>3. \A u \in X : ~Less(<<Rank[u]>>, <<Rank[t]>>)
  BY <1>2, LessSingle, PoolAssumption
<1> QED
  BY <1>3 DEF First, Least

SignalKey(t) == <<Signal(t), Rank[t]>>

LEMMA LeadIs ==
    ASSUME NEW X \in SUBSET Term, X # {}
    PROVE  /\ Least(X, SignalKey) \in X
           /\ \A u \in X : ~Less(SignalKey(u), SignalKey(Least(X, SignalKey)))
<1> DEFINE f == [t \in X |-> Signal(t)]
           g == [t \in X |-> Rank[t]]
<1>1. IsFiniteSet(X) /\ \A t \in X : Rank[t] \in Int
  BY PoolAssumption, FS_Subset
<1>2. \A t \in X : Signal(t) \in Int
  BY DEF Signal
<1>3. PICK t \in X : \A u \in X : f[t] <= f[u] /\ (f[u] = f[t] => g[t] <= g[u])
  <2>1. \A x \in X : f[x] \in Int /\ g[x] \in Int
    BY <1>1, <1>2
  <2> HIDE DEF f, g
  <2> QED
    BY <1>1, <2>1, SmallestPair
<1>4. ASSUME NEW u \in X, Less(SignalKey(u), SignalKey(t)) PROVE FALSE
  <2>1. Signal(u) < Signal(t) \/ (Rank[u] < Rank[t] /\ Signal(u) = Signal(t))
    BY <1>4, LessPair DEF SignalKey
  <2>2. Signal(t) <= Signal(u) /\ (Signal(u) = Signal(t) => Rank[t] <= Rank[u])
    BY <1>3
  <2> QED
    BY <1>1, <1>2, <2>1, <2>2
<1>5. \E x \in X : \A y \in X : ~Less(SignalKey(y), SignalKey(x))
  BY <1>4
<1> QED
  BY <1>5 DEF Least

LEMMA JoinedPair == ASSUME NEW a \in Term, NEW b \in Term PROVE <<a>> \o <<b>> = <<a, b>>
<1> DEFINE rest == <<b>>
           pair == <<a, b>>
<1>1. /\ rest \in Seq(Term) /\ Len(rest) = 1 /\ rest[1] = b
      /\ pair \in Seq(Term) /\ Len(pair) = 2 /\ pair[1] = a /\ pair[2] = b
  OBVIOUS
<1> HIDE DEF rest, pair
<1>2. /\ <<a>> \o rest \in Seq(Term) /\ Len(<<a>> \o rest) = 2
      /\ (<<a>> \o rest)[1] = a /\ (<<a>> \o rest)[2] = b
  BY <1>1, Joined
<1> DEFINE all == <<a>> \o rest
<1> HIDE DEF all
<1>3. \A i \in 1..Len(all) : all[i] = pair[i]
  BY <1>1, <1>2 DEF all
<1>4. all = pair
  BY <1>1, <1>2, <1>3, SeqEqual DEF all
<1> QED
  BY <1>4 DEF all, rest, pair

LEMMA JoinedTriple ==
    ASSUME NEW a \in Term, NEW b \in Term, NEW c \in Term PROVE <<a>> \o <<b, c>> = <<a, b, c>>
<1> DEFINE rest == <<b, c>>
           triple == <<a, b, c>>
<1>1. /\ rest \in Seq(Term) /\ Len(rest) = 2 /\ rest[1] = b /\ rest[2] = c
      /\ triple \in Seq(Term) /\ Len(triple) = 3
      /\ triple[1] = a /\ triple[2] = b /\ triple[3] = c
  OBVIOUS
<1> HIDE DEF rest, triple
<1>2. /\ <<a>> \o rest \in Seq(Term) /\ Len(<<a>> \o rest) = 3
      /\ (<<a>> \o rest)[1] = a /\ (<<a>> \o rest)[2] = b /\ (<<a>> \o rest)[3] = c
  <2>1. /\ <<a>> \o rest \in Seq(Term) /\ Len(<<a>> \o rest) = 2 + 1
        /\ (<<a>> \o rest)[1] = a /\ \A i \in 1..2 : (<<a>> \o rest)[i + 1] = rest[i]
    <3>1. /\ <<a>> \o rest \in Seq(Term) /\ Len(<<a>> \o rest) = Len(rest) + 1
          /\ (<<a>> \o rest)[1] = a
          /\ \A i \in 1..Len(rest) : (<<a>> \o rest)[i + 1] = rest[i]
      BY <1>1, Joined
    <3>2. Len(rest) = 2
      BY <1>1
    <3> QED
      BY <3>1, <3>2
  <2> DEFINE all == <<a>> \o rest
  <2> HIDE DEF all
  <2>2. all[1 + 1] = rest[1] /\ all[2 + 1] = rest[2]
    BY <2>1 DEF all
  <2>3. Len(all) = 3 /\ all[2] = rest[1] /\ all[3] = rest[2]
    BY <2>1, <2>2 DEF all
  <2> QED
    BY <1>1, <2>1, <2>3 DEF all
<1> DEFINE all == <<a>> \o rest
<1> HIDE DEF all
<1>3. \A i \in 1..Len(all) : all[i] = triple[i]
  BY <1>1, <1>2 DEF all
<1>4. all = triple
  BY <1>1, <1>2, <1>3, SeqEqual DEF all
<1> QED
  BY <1>4 DEF all, rest, triple

\* Two titles that are spellings of one name.
TitleTwins(terms) == \E t, u \in terms : t # u /\ Title(t) /\ Title(u) /\ Family[t] = Family[u]

\* The query that stands in for a stop is accepted where there is one, and there always
\* is, as there is an active term beside the anchor, but for two titles of one name.
LEMMA SelectIs ==
    ASSUME NEW pool, PoolReady(pool), NEW n \in Nat \ {0}
    PROVE  \/ SelectTerms(pool, n) = <<>> /\ n = 1 /\ TitleTwins(pool.terms)
           \/ /\ SelectTerms(pool, n) # <<>>
              /\ SelectTerms(pool, n) \in Seq(Term) /\ Len(SelectTerms(pool, n)) >= 2
              /\ SelectTerms(pool, n)[1] = RoleAnchor
              /\ Accepted(SelectTerms(pool, n), n, pool, {}, FALSE)
<1> DEFINE anchor == ActiveAnchor(pool)
           titles == {t \in pool.active : Title(t) /\ ~Primary(t)}
           plain == {t \in pool.active \cap Admitted : ~Title(t)}
           leads == {t \in plain : /\ Family[t] # Family[anchor]
                                   /\ \A u \in plain : Family[u] = Family[t]
                                                         => ~Less(SignalKey(u), SignalKey(t))}
           lead == Least(leads, SignalKey)
           rest == leads \ {lead}
           support == IF n = 1 /\ titles # {} THEN <<First(titles)>>
                      ELSE IF n = 1 \/ rest = {} THEN <<lead>> ELSE <<lead, Least(rest, SignalKey)>>
           terms == <<anchor>> \o support
<1>1. SelectTerms(pool, n) = IF (n > 1 \/ titles = {}) /\ leads = {} THEN <<>>
                             ELSE IF Accepted(terms, n, pool, {}, FALSE) THEN terms ELSE <<>>
  BY DEF SelectTerms, SignalKey
<1>2. anchor = RoleAnchor /\ pool.active \subseteq Term
  BY ActiveAnchorIs DEF PoolReady
<1>3. titles \in SUBSET Term /\ plain \in SUBSET Term /\ plain # {} /\ leads \subseteq plain
  BY <1>2 DEF PoolReady
<1> DEFINE best == Least(plain, SignalKey)
<1>4. best \in plain /\ \A u \in plain : ~Less(SignalKey(u), SignalKey(best))
  <2> HIDE DEF plain
  <2> QED
    BY <1>3, LeadIs
<1> HIDE DEF best
<1>5. leads # {}
  <2>1. Family[best] # Family[anchor]
    BY <1>2, <1>3, <1>4, OneAnchor
  <2> QED
    BY <1>4, <2>1
<1>6. lead \in leads
  <2> HIDE DEF leads
  <2> QED
    BY <1>3, <1>5, LeadIs
<1>7. \A t \in leads : t \in pool.active \cap Admitted /\ ~Title(t) /\ t # RoleAnchor
  BY <1>2, OneAnchor
<1>8. CASE n = 1 /\ titles # {}
  <2>1. First(titles) \in titles
    <3> HIDE DEF titles
    <3> QED
      BY <1>3, <1>8, FirstIs
  <2>2. /\ First(titles) \in pool.active \cap Admitted /\ First(titles) # RoleAnchor
        /\ Title(First(titles))
    BY <1>2, <2>1, OneAnchor DEF Title, Primary
  <2> DEFINE title == First(titles)
  <2>3. support = <<title>>
    BY <1>8
  <2>4. ~(n > 1)
    BY <1>8
  <2>5. title \in Term /\ anchor \in Term
    BY <1>2, <2>2, OneAnchor
  <2> HIDE DEF support, title, anchor
  <2>6. terms = <<RoleAnchor, title>>
    BY <1>2, <2>3, <2>5, JoinedPair
  <2> HIDE DEF terms, titles, leads
  <2>10. CASE Family[title] = Family[RoleAnchor]
    <3>1. TitleTwins(pool.terms)
      BY <2>2, <2>10, OneAnchor DEF title, TitleTwins, PoolReady
    <3>2. ToSet(terms) = {RoleAnchor, title}
      BY <2>5, <2>6, OneAnchor DEF ToSet
    <3>3. Accepted(terms, n, pool, {}, FALSE) => \A t, u \in ToSet(terms) : Family[t] = Family[u] => t = u
      <4>1. Len(terms) = 2
        BY <2>5, <2>6, OneAnchor
      <4> QED
        BY <4>1 DEF Accepted
    <3>4. ~Accepted(terms, n, pool, {}, FALSE)
      BY <2>2, <2>10, <3>2, <3>3 DEF title
    <3> QED
      BY <1>1, <1>8, <3>1, <3>4
  <2>11. CASE Family[title] # Family[RoleAnchor]
    <3>1. /\ terms \in Seq(Term) /\ Len(terms) = 2 /\ terms[1] = RoleAnchor
          /\ Accepted(terms, n, pool, {}, FALSE)
      BY <2>2, <2>4, <2>6, <2>11, PairIsAccepted DEF title
    <3>2. Len(terms) >= 2 /\ terms # <<>>
      BY <3>1
    <3>3. SelectTerms(pool, n) = terms
      BY <1>1, <1>5, <3>1
    <3> QED
      BY <3>1, <3>2, <3>3
  <2> QED
    BY <2>10, <2>11
<1>9. CASE ~(n = 1 /\ titles # {}) /\ (n = 1 \/ rest = {})
  <2>1. lead \in pool.active \cap Admitted /\ lead # RoleAnchor /\ ~Title(lead)
    <3> HIDE DEF lead
    <3> QED
      BY <1>6, <1>7
  <2> HIDE DEF titles, leads, lead, rest
  <2>2. support = <<lead>>
    BY <1>9
  <2>3. lead \in Term /\ anchor \in Term
    BY <1>2, <2>1, OneAnchor
  <2> HIDE DEF support, anchor
  <2>4. terms = <<RoleAnchor, lead>>
    BY <1>2, <2>2, <2>3, JoinedPair
  <2> HIDE DEF terms
  <2>5. /\ terms \in Seq(Term) /\ Len(terms) >= 2 /\ terms[1] = RoleAnchor
        /\ Accepted(terms, n, pool, {}, FALSE)
    <3>1. /\ terms \in Seq(Term) /\ Len(terms) = 2 /\ terms[1] = RoleAnchor
          /\ Accepted(terms, n, pool, {}, FALSE)
      BY <2>1, <2>3, <2>4, OneAnchor, PairIsAccepted
    <3>2. 2 >= 2
      OBVIOUS
    <3> QED
      BY <3>1, <3>2
  <2>6. SelectTerms(pool, n) = terms /\ terms # <<>>
    BY <1>1, <1>5, <2>5
  <2> QED
    BY <2>5, <2>6
<1>10. CASE ~(n = 1 /\ titles # {}) /\ ~(n = 1 \/ rest = {})
  <2> DEFINE next == Least(rest, SignalKey)
  <2>1. next \in rest
    <3> HIDE DEF rest
    <3>1. rest \in SUBSET Term /\ rest # {}
      BY <1>3, <1>10 DEF rest
    <3> QED
      BY <3>1, LeadIs
  <2>3. next \in leads /\ next # lead
    <3> HIDE DEF next, lead, leads
    <3> QED
      BY <2>1
  <2>4. Family[lead] # Family[next]
    <3> SUFFICES ASSUME Family[lead] = Family[next] PROVE FALSE
      OBVIOUS
    <3> HIDE DEF next, lead
    <3>1. ~Less(SignalKey(next), SignalKey(lead)) /\ ~Less(SignalKey(lead), SignalKey(next))
      BY <1>6, <2>3
    <3>2. lead \in Term /\ next \in Term
      BY <1>3, <1>6, <2>3
    <3>3. Signal(lead) \in Int /\ Signal(next) \in Int
      BY DEF Signal
    <3>4. Rank[lead] \in Int /\ Rank[next] \in Int /\ (Rank[lead] = Rank[next] => lead = next)
      BY <3>2, PoolAssumption
    <3>5. /\ ~(Signal(next) < Signal(lead)) /\ ~(Signal(lead) < Signal(next))
          /\ Signal(lead) = Signal(next) => ~(Rank[next] < Rank[lead]) /\ ~(Rank[lead] < Rank[next])
      BY <3>1, LessPair DEF SignalKey
    <3> QED
      BY <2>3, <3>3, <3>4, <3>5
  <2>5. /\ lead \in pool.active \cap Admitted /\ ~Title(lead)
        /\ next \in pool.active \cap Admitted /\ ~Title(next) /\ n # 1
    <3> HIDE DEF lead, next, leads
    <3> QED
      BY <1>6, <1>7, <1>10, <2>3
  <2> HIDE DEF titles, leads, lead, rest
  <2>2. support = <<lead, next>>
    BY <1>10
  <2>8. lead \in Term /\ next \in Term /\ anchor \in Term
    BY <1>2, <2>5, OneAnchor
  <2> HIDE DEF support, anchor, next
  <2>9. terms = <<RoleAnchor, lead, next>>
    BY <1>2, <2>2, <2>8, JoinedTriple
  <2> HIDE DEF terms
  <2>6. /\ terms \in Seq(Term) /\ Len(terms) >= 2 /\ terms[1] = RoleAnchor
        /\ Accepted(terms, n, pool, {}, FALSE)
    <3>1. /\ terms \in Seq(Term) /\ Len(terms) = 3 /\ terms[1] = RoleAnchor
          /\ Accepted(terms, n, pool, {}, FALSE)
      BY <2>4, <2>5, <2>9, TripleIsAccepted
    <3>2. 3 >= 2
      OBVIOUS
    <3> QED
      BY <3>1, <3>2
  <2>7. SelectTerms(pool, n) = terms /\ terms # <<>>
    BY <1>1, <1>5, <2>6
  <2> QED
    BY <2>6, <2>7
<1> HIDE DEF terms, titles, leads, lead, rest
<1> QED
  BY <1>8, <1>9, <1>10

\* The key of a second query has four parts.
LEMMA LeastOfFour ==
    ASSUME NEW X, IsFiniteSet(X), X # {}, NEW key, \A x \in X : key[x] \in Int \X Int \X Int \X Int
    PROVE  \E x \in X : \A y \in X : ~Less(key[y], key[x])
<1> DEFINE f == [x \in X |-> key[x][1]]
           g == [x \in X |-> key[x][2]]
           h == [x \in X |-> key[x][3]]
           e == [x \in X |-> key[x][4]]
<1>1. /\ \A x \in X : f[x] \in Int /\ g[x] \in Int /\ h[x] \in Int /\ e[x] \in Int
      /\ \A x \in X : key[x] = <<f[x], g[x], h[x], e[x]>>
  OBVIOUS
<1> HIDE DEF f, g, h, e
<1>2. PICK m \in X : \A y \in X : f[m] <= f[y] /\ (f[y] = f[m] => g[m] <= g[y])
  BY <1>1, SmallestPair
<1> DEFINE alike == {x \in X : f[x] = f[m] /\ g[x] = g[m]}
<1>3. /\ IsFiniteSet(alike) /\ alike # {}
      /\ \A x \in alike : h[x] \in Int /\ e[x] \in Int
  BY <1>1, FS_Subset
<1>4. PICK x \in alike : \A y \in alike : h[x] <= h[y] /\ (h[y] = h[x] => e[x] <= e[y])
  <2> HIDE DEF alike
  <2> QED
    BY <1>3, SmallestPair
<1>5. ASSUME NEW y \in X, Less(<<f[y], g[y], h[y], e[y]>>, <<f[x], g[x], h[x], e[x]>>) PROVE FALSE
  <2>1. \/ f[y] < f[x]
        \/ g[y] < g[x] /\ f[y] = f[x]
        \/ h[y] < h[x] /\ f[y] = f[x] /\ g[y] = g[x]
        \/ e[y] < e[x] /\ f[y] = f[x] /\ g[y] = g[x] /\ h[y] = h[x]
    BY <1>5, LessFour
  <2>2. f[x] = f[m] /\ g[x] = g[m] /\ f[m] <= f[y] /\ (f[y] = f[m] => g[m] <= g[y])
    BY <1>2
  <2>3. f[y] = f[m] /\ g[y] = g[m] => h[x] <= h[y] /\ (h[y] = h[x] => e[x] <= e[y])
    BY <1>4
  <2>4. /\ f[x] \in Int /\ g[x] \in Int /\ h[x] \in Int /\ e[x] \in Int
        /\ f[y] \in Int /\ g[y] \in Int /\ h[y] \in Int /\ e[y] \in Int
    BY <1>1, <1>4
  <2> QED
    BY <2>1, <2>2, <2>3, <2>4
<1>6. x \in X
  BY <1>4
<1> QED
  BY <1>1, <1>5, <1>6

\* A term that no query counts has not been sent.
LEMMA UsageIs ==
    ASSUME NEW history, IsFiniteSet(history), NEW t
    PROVE  Usage(t, history) \in Nat /\ (Usage(t, history) = 0 => t \notin SentTerms(history))
<1> DEFINE own == {p \in history : t \in ToSet(p.terms)}
           name == [q \in own |-> <<q.round, q.terms>>]
           names == {<<q.round, q.terms>> : q \in own}
<1>1. IsFiniteSet(own) /\ name \in Surjection(own, names)
  BY FS_Subset DEF Surjection
<1>2. IsFiniteSet(names)
  <2> HIDE DEF own, name, names
  <2> QED
    BY <1>1, FS_Surjection
<1>3. Usage(t, history) = Cardinality(names)
  BY DEF Usage
<1>4. t \in SentTerms(history) => names # {}
  BY DEF SentTerms
<1> HIDE DEF names
<1> QED
  BY <1>2, <1>3, <1>4, FS_CardinalityType, FS_EmptySet

----------------------------------------------------------------------------
(* The second query.                                                       *)

\* The terms that SecondTerms offers.
SecondOnes(exploit, pool) ==
    {u \in pool.terms \cap Admitted : ~Title(u) /\ Family[u] # Family[exploit[1]]}

LEMMA OffersAre ==
    ASSUME NEW pool, PoolReady(pool), NEW history, IsFiniteSet(history), NEW exploit
    PROVE  /\ IsFiniteSet(SecondTerms(exploit, pool, history))
           /\ \A o \in SecondTerms(exploit, pool, history) :
                o.term \in Term /\ o.used = Usage(o.term, history) /\ o.used \in Nat /\ o.place \in Nat
           /\ \A u \in SecondOnes(exploit, pool) :
                \E o \in SecondTerms(exploit, pool, history) : o.term = u
<1> DEFINE key(t) == <<IF t \in ToSet(Tail(exploit)) THEN 2 ELSE IF t \in pool.active THEN 0 ELSE 1,
                       Usage(t, history), Signal(t), Rank[t]>>
           ones == SecondOnes(exploit, pool)
           keyed == {[term |-> t, key |-> key(t)] : t \in ones}
           place(k) == Cardinality({j \in keyed : Less(j.key, k.key)})
           offer(k) == [term |-> k.term, used |-> k.key[2], place |-> place(k)]
           offers == {offer(k) : k \in keyed}
<1>1. SecondTerms(exploit, pool, history) = offers
  BY DEF SecondTerms, SecondOnes
<1>2. IsFiniteSet(ones) /\ ones \subseteq Term
  <2>1. ones \subseteq Term
    BY DEF SecondOnes, PoolReady
  <2> QED
    BY <2>1, PoolAssumption, FS_Subset
<1>3. \A k \in keyed : k.term \in ones /\ k.key[2] = Usage(k.term, history)
  OBVIOUS
<1>4. ASSUME NEW u \in ones PROVE \E k \in keyed : k.term = u
  <2> DEFINE k == [term |-> u, key |-> key(u)]
  <2> HIDE DEF key
  <2>1. k \in keyed /\ k.term = u
    OBVIOUS
  <2> QED
    BY <2>1
<1>5. IsFiniteSet(keyed)
  <2> DEFINE f == [t \in ones |-> [term |-> t, key |-> key(t)]]
  <2> HIDE DEF ones, key
  <2>1. f \in Surjection(ones, keyed)
    BY DEF Surjection
  <2> HIDE DEF f, keyed
  <2> QED
    BY <1>2, <2>1, FS_Surjection
<1> HIDE DEF keyed, ones
<1>6. \A k : place(k) \in Nat
  <2> SUFFICES ASSUME NEW k PROVE place(k) \in Nat
    OBVIOUS
  <2>1. {j \in keyed : Less(j.key, k.key)} \in SUBSET keyed
    OBVIOUS
  <2> QED
    BY <1>5, <2>1, FS_Subset, FS_CardinalityType
<1> HIDE DEF place
<1>7. IsFiniteSet(offers)
  <2> DEFINE f == [k \in keyed |-> offer(k)]
  <2> HIDE DEF offer
  <2>1. f \in Surjection(keyed, offers)
    BY DEF Surjection
  <2> HIDE DEF f, offers
  <2> QED
    BY <1>5, <2>1, FS_Surjection
<1>8. ASSUME NEW o \in offers
      PROVE  o.term \in Term /\ o.used = Usage(o.term, history) /\ o.used \in Nat /\ o.place \in Nat
  <2>1. PICK k \in keyed : o = offer(k)
    OBVIOUS
  <2>2. o.term = k.term /\ o.used = k.key[2] /\ o.place = place(k)
    BY <2>1
  <2> HIDE DEF offers, offer
  <2>3. Usage(k.term, history) \in Nat
    BY UsageIs
  <2> QED
    BY <1>2, <1>3, <1>6, <2>2, <2>3
<1>9. ASSUME NEW u \in ones PROVE \E o \in offers : o.term = u
  <2>1. PICK k \in keyed : k.term = u
    BY <1>4
  <2>2. offer(k) \in offers /\ offer(k).term = k.term
    OBVIOUS
  <2> QED
    BY <2>1, <2>2
<1> HIDE DEF offers
<1> QED
  BY <1>1, <1>7, <1>8, <1>9 DEF ones

\* A choice of one or two offers, as it is sent.
SentQuery(exploit, c) == <<exploit[1]>> \o [i \in DOMAIN c |-> c[i].term]

LEMMA SentIs ==
    ASSUME NEW exploit, exploit[1] \in Term, NEW offers, \A o \in offers : o.term \in Term,
           NEW c \in {<<o>> : o \in offers} \cup (offers \X offers)
    PROVE  /\ Len(c) \in {1, 2} /\ DOMAIN c = 1..Len(c) /\ \A i \in DOMAIN c : c[i] \in offers
           /\ SentQuery(exploit, c) \in Seq(Term)
           /\ \A i \in DOMAIN c : c[i].term \in ToSet(SentQuery(exploit, c))
<1> DEFINE ts == [i \in DOMAIN c |-> c[i].term]
           all == <<exploit[1]>> \o ts
<1>1. Len(c) \in {1, 2} /\ DOMAIN c = 1..Len(c) /\ \A i \in DOMAIN c : c[i] \in offers
  <2>1. CASE c \in {<<o>> : o \in offers}
    <3>1. PICK o \in offers : c = <<o>>
      BY <2>1
    <3> QED
      BY <3>1
  <2>2. CASE c \in offers \X offers
    <3>1. PICK o \in offers, p \in offers : c = <<o, p>>
      BY <2>2
    <3> QED
      BY <3>1
  <2> QED
    BY <2>1, <2>2
<1>2. Len(c) \in Nat /\ ts \in [1..Len(c) -> Term]
  BY <1>1
<1>3. ts \in Seq(Term) /\ Len(ts) = Len(c) /\ \A i \in 1..Len(c) : ts[i] = c[i].term
  <2>1. ts \in Seq(Term)
    BY <1>2
  <2> QED
    BY <1>1, <1>2, <2>1
<1> HIDE DEF ts
<1>4. /\ all \in Seq(Term) /\ Len(all) = Len(ts) + 1
      /\ \A i \in 1..Len(ts) : all[i + 1] = ts[i]
  BY <1>3, Joined
<1> HIDE DEF all
<1>5. ASSUME NEW i \in 1..Len(c) PROVE c[i].term \in ToSet(all)
  <2>1. i + 1 \in 1..Len(all) /\ all[i + 1] = c[i].term
    BY <1>2, <1>3, <1>4
  <2>2. DOMAIN all = 1..Len(all)
    BY <1>4
  <2> QED
    BY <2>1, <2>2 DEF ToSet
<1> QED
  BY <1>1, <1>4, <1>5 DEF SentQuery, all, ts

\* The generic second query contains a term nobody has sent, when an active term has
\* not been sent and the first query does not send it.
LEMMA ExploreIs ==
    ASSUME NEW pool, PoolReady(pool), NEW history, IsFiniteSet(history),
           NEW exploit \in Seq(Term), Len(exploit) >= 2, exploit[1] = RoleAnchor
    PROVE  /\ ExploreTerms(exploit, pool, history) \in Seq(Term)
           /\ \A u \in pool.active \cap Admitted :
                ~Title(u) /\ u \notin ToSet(exploit) /\ u \notin SentTerms(history) =>
                  \E t \in ToSet(ExploreTerms(exploit, pool, history)) : t \notin SentTerms(history)
<1> DEFINE offers == SecondTerms(exploit, pool, history)
           own == ToSet(Tail(exploit))
           sent(c) == SentQuery(exploit, c)
           choices == {<<o>> : o \in offers} \cup (offers \X offers)
           combos == {c \in choices : /\ Len(c) = 2 => /\ c[1].place < c[2].place
                                                      /\ Family[c[1].term] # Family[c[2].term]
                                      /\ sent(c) # exploit}
           fresh == {c \in combos : sent(c) \notin {q.terms : q \in history}}
           total(n, c) == IF Len(c) = 1 THEN c[1][n] ELSE c[1][n] + c[2][n]
           shared(c) == Cardinality({i \in DOMAIN c : c[i].term \in own})
           score(c) == <<shared(c), total("used", c), total("place", c), -Len(c)>>
           terms == ExploreTerms(exploit, pool, history)
<1>1. terms = IF own = {} \/ combos = {} THEN <<>>
              ELSE sent(Least(IF fresh # {} THEN fresh ELSE combos, score))
  BY DEF ExploreTerms, SentQuery
<1>2. /\ IsFiniteSet(offers)
      /\ \A o \in offers : o.term \in Term /\ o.used = Usage(o.term, history)
                           /\ o.used \in Nat /\ o.place \in Nat
      /\ \A u \in SecondOnes(exploit, pool) : \E o \in offers : o.term = u
  BY OffersAre
<1> HIDE DEF offers, terms
<1>3. IsFiniteSet(choices)
  <2> DEFINE ones == {<<o>> : o \in offers}
             f == [o \in offers |-> <<o>>]
  <2>1. f \in Surjection(offers, ones)
    BY DEF Surjection
  <2> HIDE DEF f, ones
  <2>2. IsFiniteSet(ones)
    BY <1>2, <2>1, FS_Surjection
  <2>3. IsFiniteSet(offers \X offers)
    BY <1>2, FS_Product
  <2>4. IsFiniteSet(ones \cup (offers \X offers))
    BY <2>2, <2>3, FS_Union
  <2> QED
    BY <2>4 DEF ones
<1>4. exploit[1] \in Term
  BY OneAnchor
<1>5. ASSUME NEW c \in choices
      PROVE  /\ Len(c) \in {1, 2} /\ DOMAIN c = 1..Len(c) /\ \A i \in DOMAIN c : c[i] \in offers
             /\ sent(c) \in Seq(Term) /\ \A i \in DOMAIN c : c[i].term \in ToSet(sent(c))
  BY <1>2, <1>4, SentIs
<1> HIDE DEF choices, sent
<1>6. ASSUME NEW c \in choices
      PROVE  /\ shared(c) \in Nat
             /\ total("used", c) \in Nat /\ total("place", c) \in Nat /\ -Len(c) \in Int
             /\ total("used", c) = 0 => c[1].used = 0
             /\ 1 \in DOMAIN c
  <2>1. /\ Len(c) \in {1, 2} /\ 1 \in DOMAIN c /\ c[1] \in offers
        /\ Len(c) = 2 => c[2] \in offers
    BY <1>5
  <2>2. shared(c) \in Nat
    <3>1. IsFiniteSet(1..Len(c))
      BY <2>1, FS_Interval
    <3>2. {i \in DOMAIN c : c[i].term \in own} \in SUBSET (1..Len(c))
      BY <1>5
    <3> QED
      BY <3>1, <3>2, FS_Subset, FS_CardinalityType
  <2>3. total("used", c) \in Nat /\ (total("used", c) = 0 => c[1].used = 0)
    BY <1>2, <2>1
  <2>4. total("place", c) \in Nat
    BY <1>2, <2>1
  <2> QED
    BY <2>1, <2>2, <2>3, <2>4
<1> HIDE DEF shared, total
<1>7. ASSUME NEW X, X \subseteq choices, X # {}
      PROVE  Least(X, score) \in X /\ \A c \in X : ~Less(score(c), score(Least(X, score)))
  <2> DEFINE key == [c \in X |-> score(c)]
  <2>1. IsFiniteSet(X)
    BY <1>3, <1>7, FS_Subset
  <2>2. \A c \in X : key[c] = score(c) /\ key[c] \in Int \X Int \X Int \X Int
    BY <1>6, <1>7
  <2> HIDE DEF key, score
  <2>3. \E c \in X : \A d \in X : ~Less(key[d], key[c])
    BY <1>7, <2>1, <2>2, LeastOfFour
  <2>4. \E c \in X : \A d \in X : ~Less(score(d), score(c))
    BY <2>2, <2>3
  <2> QED
    BY <2>4 DEF Least
<1>8. terms \in Seq(Term)
  <2>1. CASE own = {} \/ combos = {}
    <3> HIDE DEF own, combos
    <3>1. terms = <<>>
      BY <1>1, <2>1
    <3> QED
      BY <3>1
  <2>2. CASE ~(own = {} \/ combos = {})
    <3> DEFINE X == IF fresh # {} THEN fresh ELSE combos
    <3>1. X \subseteq choices /\ X # {}
      BY <2>2
    <3>2. terms = sent(Least(X, score))
      BY <1>1, <2>2
    <3> HIDE DEF X, score
    <3>3. Least(X, score) \in choices
      BY <1>7, <3>1
    <3> QED
      BY <1>5, <3>2, <3>3
  <2> QED
    BY <2>1, <2>2
<1>9. own # {} /\ own \subseteq ToSet(exploit)
  <2>1. /\ DOMAIN exploit = 1..Len(exploit) /\ Len(exploit) \in Nat
        /\ DOMAIN Tail(exploit) = 1..(Len(exploit) - 1)
        /\ \A i \in 1..(Len(exploit) - 1) : Tail(exploit)[i] = exploit[i + 1]
    OBVIOUS
  <2>2. /\ 1 \in 1..(Len(exploit) - 1)
        /\ \A i \in 1..(Len(exploit) - 1) : i + 1 \in 1..Len(exploit)
    BY <2>1
  <2> DEFINE tail == Tail(exploit)
  <2> HIDE DEF tail
  <2>3. tail[1] \in ToSet(tail)
    BY <2>1, <2>2 DEF ToSet, tail
  <2>4. ASSUME NEW t \in ToSet(tail) PROVE t \in ToSet(exploit)
    <3>1. PICK i \in 1..(Len(exploit) - 1) : t = tail[i]
      BY <2>1 DEF ToSet, tail
    <3>2. t = exploit[i + 1] /\ i + 1 \in DOMAIN exploit
      BY <2>1, <2>2, <3>1 DEF tail
    <3> QED
      BY <3>2 DEF ToSet
  <2> QED
    BY <2>3, <2>4 DEF tail
<1>10. ASSUME NEW u \in pool.active \cap Admitted, ~Title(u), u \notin ToSet(exploit),
              u \notin SentTerms(history)
       PROVE  \E t \in ToSet(terms) : t \notin SentTerms(history)
  <2>1. u \in SecondOnes(exploit, pool)
    BY <1>10, OneAnchor DEF SecondOnes, PoolReady
  <2>2. PICK o \in offers : o.term = u
    BY <1>2, <2>1
  <2> DEFINE plain == <<o>>
  <2>3. plain \in choices /\ Len(plain) = 1 /\ DOMAIN plain = {1} /\ plain[1] = o
    BY DEF choices
  <2> HIDE DEF plain
  <2>4. u \in ToSet(sent(plain))
    BY <1>5, <2>2, <2>3
  <2>5. plain \in fresh
    <3>1. sent(plain) # exploit
      BY <1>10, <2>4
    <3>2. sent(plain) \notin {q.terms : q \in history}
      BY <1>10, <2>4 DEF SentTerms
    <3> QED
      BY <2>3, <3>1, <3>2
  <2>6. shared(plain) = 0 /\ total("used", plain) = 0
    <3>1. {i \in DOMAIN plain : plain[i].term \in own} = {}
      BY <1>9, <1>10, <2>2, <2>3
    <3>2. shared(plain) = 0
      BY <3>1, FS_EmptySet DEF shared
    <3>3. total("used", plain) = o.used
      BY <2>3 DEF total
    <3>4. o.used = 0
      <4>1. Usage(u, history) = 0
        <5>1. {p \in history : u \in ToSet(p.terms)} = {}
          BY <1>10 DEF SentTerms
        <5>2. {<<q.round, q.terms>> : q \in {p \in history : u \in ToSet(p.terms)}} = {}
          BY <5>1
        <5> QED
          BY <5>2, FS_EmptySet DEF Usage
      <4> QED
        BY <1>2, <2>2, <4>1
    <3> QED
      BY <3>2, <3>3, <3>4
  <2> DEFINE best == Least(fresh, score)
  <2>7. best \in fresh /\ ~Less(score(plain), score(best)) /\ fresh \subseteq choices
    <3>1. fresh \subseteq choices /\ fresh # {}
      BY <2>5
    <3> HIDE DEF fresh, score
    <3> QED
      BY <1>7, <2>5, <3>1
  <2>8. terms = sent(best)
    <3>1. combos # {} /\ fresh # {}
      BY <2>5
    <3> HIDE DEF fresh, combos, score
    <3> QED
      BY <1>1, <1>9, <3>1
  <2> HIDE DEF best, fresh
  <2>9. best \in choices
    BY <2>7
  <2>10. total("used", best) = 0
    <3>1. /\ ~(shared(plain) < shared(best))
          /\ ~(total("used", plain) < total("used", best) /\ shared(plain) = shared(best))
      BY <2>7, LessFour
    <3>2. shared(best) \in Nat /\ total("used", best) \in Nat
      BY <1>6, <2>9
    <3> QED
      BY <2>6, <3>1, <3>2
  <2>11. best[1].used = 0 /\ 1 \in DOMAIN best /\ best[1] \in offers
    BY <1>5, <1>6, <2>9, <2>10
  <2>12. best[1].term \notin SentTerms(history)
    BY <1>2, <2>11, UsageIs
  <2> QED
    BY <1>5, <2>8, <2>9, <2>11, <2>12
<1> QED
  BY <1>8, <1>10 DEF terms

----------------------------------------------------------------------------
(* What the decision of a round leaves behind.                             *)

\* What the gate reads of a run.
GateOf(r) == Guidance(round, r.done, MinRounds, MaxRounds, r.top, r.productive, r.pool, r.history)

\* A query with a term that no query has sent.
SendsNew(ts, history) == \E t \in ToSet(ts) : t \notin SentTerms(history)

\* A gate that wants another round has an active term that nobody has sent.
LEMMA ContinueMeans ==
    ASSUME NEW r, GateOf(r).status = "continue_low_quality", r.done \in Int, PoolReady(r.pool)
    PROVE  /\ r.done >= MinRounds
           /\ \E u \in r.pool.active \cap Admitted : ~Title(u) /\ u \notin SentTerms(r.history)
<1> DEFINE untried == UntriedFamilies(r.pool, r.history) # {}
           poor == \/ Strength(r.top) \in {"empty", "weak"}
                   \/ Strength(r.top) = "usable" /\ Cardinality(StrongFits(r.top)) < StrongStop
           lacking == poor \/ (Strength(r.top) # "strong" /\ r.productive < 2)
<1>1. GateOf(r).status = IF r.done < MinRounds THEN "pass"
                         ELSE IF round >= BudgetRound(MaxRounds) THEN "budget_stop_allowed"
                         ELSE IF lacking /\ untried THEN "continue_low_quality"
                         ELSE IF ~poor THEN "pass"
                         ELSE IF Broadened(r.pool, r.history) THEN "low_quality_exhausted"
                         ELSE "broaden_required"
  BY DEF GateOf, Guidance
<1> HIDE DEF untried, lacking, poor
<1>2. ~(r.done < MinRounds) /\ untried
  BY <1>1
<1>3. r.done >= MinRounds
  BY <1>2, RunAssumption
<1>4. PICK f \in UntriedFamilies(r.pool, r.history) : TRUE
  BY <1>2 DEF untried
<1>5. PICK u \in r.pool.active \cap Admitted :
        ~Title(u) /\ Family[u] \notin TriedFamilies(r.pool, r.history)
  BY <1>4 DEF UntriedFamilies
<1>6. u \notin SentTerms(r.history)
  BY <1>5 DEF TriedFamilies, PoolReady
<1> QED
  BY <1>3, <1>5, <1>6

\* What a decision that is no stop and does not raise leaves behind: a query that is accepted as it stands,
\* and that either sends something new or is open to a second query that does.
GoodPlan(d) ==
    /\ PoolReady(d.run.pool)
    /\ ~d.stop /\ d.terms # <<>> =>
         /\ d.terms \in Seq(Term) /\ Len(d.terms) >= 1 /\ d.terms[1] = RoleAnchor
         /\ Accepted(d.terms, round, d.run.pool, run.backed,
                     Gate.status = "broaden_required" \/ d.run.anchorTried)
         /\ d.broaden \in BOOLEAN
         /\ GateOf(d.run).status = "continue_low_quality"
              => SendsNew(d.terms, run.history) \/ Len(d.terms) >= 2

LEMMA OwnDecisionIsGood ==
    ASSUME PoolReady(run.pool), round \in Nat \ {0}, NEW answer \in Answers,
           NEW r, r.pool = run.pool
    PROVE  GoodPlan(OwnDecision(r, answer))
<1> DEFINE d == OwnDecision(r, answer)
           alone == Gate.status = "broaden_required" \/ r.anchorTried
<1> HIDE DEF alone
<1>1. CASE answer # <<>>
  <2>1. answer \in Seq(Term) /\ Accepted(answer, round, run.pool, run.backed, FALSE)
    BY <1>1, RunAssumption DEF Answers, Valid
  <2>2. d.run = r /\ d.terms = CanonicalTerms(answer) /\ d.broaden = FALSE
    BY <1>1 DEF OwnDecision, Forced
  <2>3. /\ CanonicalTerms(answer) \in Seq(Term) /\ Len(CanonicalTerms(answer)) >= 2
        /\ CanonicalTerms(answer)[1] = RoleAnchor
        /\ Accepted(CanonicalTerms(answer), round, run.pool, run.backed, FALSE)
    BY <2>1, CanonicalIs
  <2>4. Accepted(CanonicalTerms(answer), round, run.pool, run.backed, alone)
    BY <2>3, AcceptedStays
  <2> HIDE DEF d
  <2>5. Len(d.terms) >= 1
    BY <2>2, <2>3
  <2> QED
    BY <2>2, <2>3, <2>4, <2>5 DEF GoodPlan, d, alone
<1>2. CASE answer = <<>> /\ Gate.canStop
  <2>1. d.run = r /\ d.stop = TRUE
    BY <1>2 DEF OwnDecision, Forced
  <2> HIDE DEF d
  <2> QED
    BY <2>1 DEF GoodPlan, d
<1>3. CASE answer = <<>> /\ ~Gate.canStop
  <2> DEFINE ts == SelectTerms(run.pool, round)
  <2>1. d.run = r /\ d.terms = ts /\ d.broaden = FALSE
    BY <1>3 DEF OwnDecision, Forced
  <2> HIDE DEF d
  <2>5. CASE ts = <<>>
    BY <2>1, <2>5 DEF GoodPlan, d
  <2> SUFFICES ASSUME ts # <<>> PROVE GoodPlan(OwnDecision(r, answer))
    BY <2>5
  <2>2. /\ ts \in Seq(Term) /\ Len(ts) >= 2 /\ ts[1] = RoleAnchor
        /\ Accepted(ts, round, run.pool, {}, FALSE)
    BY SelectIs
  <2> HIDE DEF ts
  <2>3. Accepted(ts, round, run.pool, run.backed, alone)
    <3> DEFINE none == {}
    <3>1. none \subseteq run.backed /\ Accepted(ts, round, run.pool, none, FALSE)
      BY <2>2
    <3> HIDE DEF none
    <3> QED
      BY <3>1, AcceptedStays
  <2>4. Len(d.terms) >= 1
    BY <2>1, <2>2
  <2> QED
    BY <2>1, <2>2, <2>3, <2>4 DEF GoodPlan, d, alone
<1> QED
  BY <1>1, <1>2, <1>3

LEMMA AnchorOnlyIsGood ==
    ASSUME PoolReady(run.pool), RunShape(run), NEW r, RunShape(r), SameRounds(r, run),
           r.pool = run.pool, Gate.status \in {"broaden_required", "low_quality_exhausted"}
    PROVE  GoodPlan(AnchorOnly(r))
<1> DEFINE d == AnchorOnly(r)
<1>1. /\ d.terms = <<RoleAnchor>> /\ d.broaden = TRUE /\ d.run.anchorTried = TRUE
      /\ d.run.pool = run.pool /\ d.run.done = run.done /\ d.run.top = run.top
      /\ d.run.productive = run.productive /\ d.run.history = run.history
  BY ActiveAnchorIs DEF AnchorOnly, Forced, RunShape, SameRounds
<1> HIDE DEF d
<1>2. GateOf(d.run) = Gate
  BY <1>1 DEF GateOf, Gate
<1>3. GateOf(d.run).status # "continue_low_quality"
  BY <1>2
<1> DEFINE ts == <<RoleAnchor>>
<1>4. /\ ts \in Seq(Term) /\ Len(ts) = 1 /\ ts[1] = RoleAnchor
      /\ Accepted(ts, round, run.pool, run.backed, TRUE)
  BY AnchorIsAccepted
<1> HIDE DEF ts
<1> DEFINE alone == Gate.status = "broaden_required" \/ d.run.anchorTried
<1>5. alone
  BY <1>1
<1> HIDE DEF alone
<1>6. Accepted(ts, round, run.pool, run.backed, alone)
  BY <1>4, <1>5 DEF Accepted
<1>7. Len(ts) >= 1 /\ d.terms = ts
  BY <1>1, <1>4 DEF ts
<1> QED
  BY <1>1, <1>3, <1>4, <1>6, <1>7 DEF GoodPlan, d, alone

\* The anchor with one term that is new and that the decision makes active.
LEMMA AddedTermIsGood ==
    ASSUME PoolReady(run.pool), round \in Nat \ {0}, NEW t \in Term \cap Admitted, ~Title(t),
           t \notin SentTerms(run.history), NEW d, d.broaden \in BOOLEAN,
           d.terms = <<ActiveAnchor(run.pool), t>>, t \in d.run.pool.terms,
           d.run.pool.terms \subseteq Term, run.pool.terms \subseteq d.run.pool.terms,
           d.run.pool.active = run.pool.active \cup {t}
    PROVE  GoodPlan(d)
<1>1. PoolReady(d.run.pool)
  BY DEF PoolReady
<1> DEFINE ts == <<RoleAnchor, t>>
           alone == Gate.status = "broaden_required" \/ d.run.anchorTried
<1>2. d.terms = ts
  BY ActiveAnchorIs
<1>3. t # RoleAnchor /\ t \in d.run.pool.active /\ Family[t] # Family[RoleAnchor]
  BY OneAnchor
<1>4. \E i \in DOMAIN ts : ts[i] = t
  <2>1. 2 \in DOMAIN ts /\ ts[2] = t
    OBVIOUS
  <2> QED
    BY <2>1
<1> HIDE DEF ts, alone
<1>5. /\ ts \in Seq(Term) /\ Len(ts) = 2 /\ ts[1] = RoleAnchor
      /\ Accepted(ts, round, d.run.pool, run.backed, alone)
  BY <1>1, <1>3, PairIsAccepted DEF ts
<1>6. SendsNew(ts, run.history) /\ Len(ts) >= 1
  BY <1>4, <1>5 DEF SendsNew, ToSet
<1> QED
  BY <1>1, <1>2, <1>5, <1>6 DEF GoodPlan, alone

LEMMA DecisionIsGood ==
    ASSUME PoolReady(run.pool), RunShape(run), round \in Nat \ {0},
           NEW answer \in Answers, NEW d \in Resolutions(answer)
    PROVE  GoodPlan(d)
<1> DEFINE tried == [run EXCEPT !.fedBack = TRUE]
           phrases == FeedbackPhrases(run.top, run.cards, run.pool, run.history)
<1>1. /\ Lane \in {"reserve_broaden", "candidate_feedback", "anchor_only"} =>
            Gate.status \in {"broaden_required", "low_quality_exhausted"}
      /\ Lane = "reserve_broaden" => Reserves(run.pool, run.history) # {}
  <2> HIDE DEF Gate
  <2> QED
    BY DEF Lane, RescueLane
<1>2. RunShape(tried) /\ SameRounds(tried, run) /\ tried.pool = run.pool /\ SameRounds(run, run)
  BY DEF RunShape, SameRounds
<1> HIDE DEF tried
<1>3. CASE Lane = "reserve_broaden"
  <2> DEFINE t == NextReserve(run.pool, run.history)
  <2>1. d = Broaden
    BY <1>3 DEF Resolutions
  <2>2. t \in Reserves(run.pool, run.history)
    BY <1>1, <1>3, ReserveIsOfPool DEF PoolReady
  <2>3. t \in run.pool.terms \cap Admitted /\ ~Title(t) /\ t \notin SentTerms(run.history)
    BY <2>2 DEF Reserves, TriedFamilies
  <2> HIDE DEF t
  <2>4. /\ d.terms = <<ActiveAnchor(run.pool), t>> /\ d.broaden = TRUE
        /\ d.run.pool.terms = run.pool.terms /\ d.run.pool.active = run.pool.active \cup {t}
    BY <2>1 DEF Broaden, Forced, RunShape, t
  <2>5. t \in Term \cap Admitted /\ d.broaden \in BOOLEAN /\ run.pool.terms \subseteq Term
    BY <2>3, <2>4 DEF PoolReady
  <2> QED
    BY <2>3, <2>4, <2>5, AddedTermIsGood
<1>4. CASE Lane = "candidate_feedback"
  <2>1. d \in Feedback(answer)
    BY <1>4 DEF Resolutions
  <2>2. CASE phrases = {}
    <3>1. d = AfterFeedback(tried, answer)
      BY <2>1, <2>2 DEF Feedback, tried
    <3>2. CASE run.anchorTried
      <4>1. d = OwnDecision(tried, answer)
        BY <3>1, <3>2 DEF AfterFeedback
      <4> QED
        BY <1>2, <4>1, OwnDecisionIsGood
    <3>3. CASE ~run.anchorTried
      <4>1. d = AnchorOnly(tried)
        BY <3>1, <3>3 DEF AfterFeedback
      <4> QED
        BY <1>1, <1>2, <1>4, <4>1, AnchorOnlyIsGood
    <3> QED
      BY <3>2, <3>3
  <2>3. CASE phrases # {}
    <3>1. PICK p \in phrases :
             d = Forced([tried EXCEPT !.pool = [terms |-> @.terms \cup {p}, active |-> @.active \cup {p}]],
                        <<ActiveAnchor(run.pool), p>>, FALSE)
      BY <2>1, <2>3 DEF Feedback, tried
    <3>2. p \in Phrase /\ p \notin SentTerms(run.history)
      BY DEF FeedbackPhrases, NewPhrases
    <3>3. p \in Term \cap Admitted /\ ~Title(p)
      BY <3>2, PoolAssumption DEF Title, Primary
    <3> HIDE DEF phrases
    <3>4. /\ d.terms = <<ActiveAnchor(run.pool), p>> /\ d.broaden = FALSE
          /\ d.run.pool = [terms |-> run.pool.terms \cup {p}, active |-> run.pool.active \cup {p}]
      BY <1>2, <3>1 DEF Forced, RunShape
    <3>5. /\ d.run.pool.terms = run.pool.terms \cup {p}
          /\ d.run.pool.active = run.pool.active \cup {p}
      BY <3>4
    <3>7. d.broaden \in BOOLEAN
      BY <3>4
    <3>6. run.pool.terms \cup {p} \subseteq Term
      BY <3>3 DEF PoolReady
    <3> QED
      BY <3>2, <3>3, <3>4, <3>5, <3>6, <3>7, AddedTermIsGood
  <2> QED
    BY <2>2, <2>3
<1>5. CASE Lane = "anchor_only"
  <2>1. d = AnchorOnly(run)
    BY <1>5 DEF Resolutions
  <2> QED
    BY <1>1, <1>2, <1>5, <2>1, AnchorOnlyIsGood
<1>6. CASE Lane \notin {"reserve_broaden", "candidate_feedback", "anchor_only"}
  <2>1. d = OwnDecision(run, answer)
    BY <1>6 DEF Resolutions
  <2> QED
    BY <2>1, OwnDecisionIsGood
<1> QED
  BY <1>3, <1>4, <1>5, <1>6

----------------------------------------------------------------------------
(* The queries of a run.                                                   *)

\* What holds between the decision of a round and its search: the plan is accepted, and
\* where the round has to send something new, its query does or leaves it to the second.
PlansKept ==
    /\ PoolReady(run.pool) /\ IsFiniteSet(run.history)
    /\ query \in [terms : Seq(Term), second : Seq(Term), broaden : BOOLEAN, bare : BOOLEAN,
                  target : Nat]
    /\ stage \in {"plan", "prf"} =>
         /\ Len(query.terms) >= 1 /\ query.terms[1] = RoleAnchor
         /\ Accepted(query.terms, round, run.pool, run.backed, query.bare \/ run.anchorTried)
         /\ GateOf(run).status = "continue_low_quality"
              => SendsNew(query.terms, run.history) \/ Len(query.terms) >= 2
    /\ NewTermComesNext

LEMMA NoPlan ==
    /\ PoolReady(NewRun.pool) /\ IsFiniteSet(NewRun.history)
    /\ NoQuery \in [terms : Seq(Term), second : Seq(Term), broaden : BOOLEAN, bare : BOOLEAN,
                    target : Nat]
<1>1. PoolReady(NewRun.pool)
  BY CompiledIsReady DEF NewRun
<1>2. IsFiniteSet(NewRun.history)
  BY FS_EmptySet DEF NewRun
<1> QED
  BY <1>1, <1>2 DEF NoQuery

LEMMA PlansKeptInit == Init => PlansKept
BY NoPlan DEF Init, OpenInit, PlansKept, NewTermComesNext

\* Steps that end or leave the rounds, or forget the plan of one.
LEMMA QuietPlan ==
    ASSUME PlansKept, run'.pool = run.pool, IsFiniteSet(run'.history),
           UNCHANGED query \/ query' = NoQuery, stage' \notin {"plan", "prf", "search"}
    PROVE  PlansKept'
BY NoPlan DEF PlansKept, NewTermComesNext

LEMMA SamePlan ==
    ASSUME PlansKept, UNCHANGED <<round, run, query>>,
           \/ stage' = stage /\ (ended' = "no" => ended = "no")
           \/ stage = "plan" /\ stage' = "prf"
           \/ stage' \notin {"plan", "prf", "search"}
    PROVE  PlansKept'
BY DEF PlansKept, NewTermComesNext, GateOf, Gate, SendsNew, Accepted, SentTerms

LEMMA InJoined ==
    ASSUME NEW a \in Seq(Term), NEW b \in Seq(Term), NEW t, t \in ToSet(a) \/ t \in ToSet(b)
    PROVE  t \in ToSet(a \o b)
<1>1. /\ a \o b \in Seq(Term) /\ Len(a \o b) = Len(a) + Len(b)
      /\ \A i \in 1..(Len(a) + Len(b)) : (a \o b)[i] = IF i <= Len(a) THEN a[i] ELSE b[i - Len(a)]
  BY ConcatProperties
<1>2. /\ Len(a) \in Nat /\ Len(b) \in Nat /\ DOMAIN a = 1..Len(a) /\ DOMAIN b = 1..Len(b)
  OBVIOUS
<1> DEFINE all == a \o b
<1>3. DOMAIN all = 1..(Len(a) + Len(b))
  BY <1>1
<1> HIDE DEF all
<1>4. CASE t \in ToSet(a)
  <2>1. PICK i \in 1..Len(a) : t = a[i]
    BY <1>2, <1>4 DEF ToSet
  <2>2. i \in 1..(Len(a) + Len(b)) /\ all[i] = a[i]
    BY <1>1, <1>2 DEF all
  <2> QED
    BY <1>3, <2>1, <2>2 DEF ToSet, all
<1>5. CASE t \in ToSet(b)
  <2>1. PICK i \in 1..Len(b) : t = b[i]
    BY <1>2, <1>5 DEF ToSet
  <2>2. Len(a) + i \in 1..(Len(a) + Len(b)) /\ ~(Len(a) + i <= Len(a)) /\ (Len(a) + i) - Len(a) = i
    BY <1>2
  <2>3. all[Len(a) + i] = b[i]
    BY <1>1, <2>2 DEF all
  <2> QED
    BY <1>3, <2>1, <2>2, <2>3 DEF ToSet, all
<1> QED
  BY <1>4, <1>5

LEMMA DecideKeepsPlans ==
    ASSUME RunInv, PlansKept, NEW answer \in Answers,
           \E d \in Resolutions(answer) : Decided(answer, d)
    PROVE  PlansKept'
<1>2. PICK d \in Resolutions(answer) :
        /\ d.stop \/ d.terms # <<>>
        /\ run' = [d.run EXCEPT !.reason = IF d.stop THEN "stopped" ELSE @]
        /\ query' = IF d.stop THEN NoQuery
                    ELSE [terms |-> d.terms, second |-> <<>>, broaden |-> d.broaden,
                          bare |-> Gate.status = "broaden_required", target |-> TopK]
        /\ To(IF d.stop THEN "finalize" ELSE "plan")
        /\ UNCHANGED <<laneFrame, round, batch, ended>>
  BY DEF Decided, Resolve
<1>3. GoodPlan(d) /\ RunShape(d.run) /\ SameRounds(d.run, run) /\ d.stop \in BOOLEAN
  <2>1. round \in Nat \ {0}
    BY RunAssumption DEF RunInv, RoundsCounted
  <2> QED
    BY <2>1, DecisionIsGood, DecisionKeepsRounds DEF RunInv, PlansKept
<1>4. /\ run'.pool = d.run.pool /\ run'.history = run.history /\ run'.backed = run.backed
      /\ run'.anchorTried = d.run.anchorTried /\ run'.done = d.run.done /\ run'.top = d.run.top
      /\ run'.productive = d.run.productive /\ run'.history = d.run.history
  BY <1>2, <1>3 DEF RunShape, SameRounds
<1>5. PoolReady(run'.pool) /\ IsFiniteSet(run'.history)
  BY <1>3, <1>4 DEF GoodPlan, PlansKept
<1>6. round' = round /\ stage' = (IF d.stop THEN "finalize" ELSE "plan")
  BY <1>2 DEF To
<1>7. CASE d.stop
  <2>1. query' = NoQuery /\ stage' = "finalize"
    BY <1>2, <1>6, <1>7
  <2> QED
    BY <1>5, <2>1, NoPlan DEF PlansKept, NewTermComesNext
<1>8. CASE ~d.stop
  <2> DEFINE bare == Gate.status = "broaden_required"
             alone == bare \/ d.run.anchorTried
  <2>1. query' = [terms |-> d.terms, second |-> <<>>, broaden |-> d.broaden, bare |-> bare,
                  target |-> TopK] /\ stage' = "plan"
    BY <1>2, <1>6, <1>8
  <2>2. /\ d.terms \in Seq(Term) /\ Len(d.terms) >= 1 /\ d.terms[1] = RoleAnchor
        /\ Accepted(d.terms, round, d.run.pool, run.backed, alone) /\ d.broaden \in BOOLEAN
        /\ GateOf(d.run).status = "continue_low_quality"
              => SendsNew(d.terms, run.history) \/ Len(d.terms) >= 2
    BY <1>2, <1>3, <1>8 DEF GoodPlan
  <2>3. bare \in BOOLEAN
    OBVIOUS
  <2> HIDE DEF bare
  <2>4. /\ query' \in [terms : Seq(Term), second : Seq(Term), broaden : BOOLEAN, bare : BOOLEAN,
                       target : Nat]
    BY <2>1, <2>2, <2>3, RunAssumption
  <2>5. query'.terms = d.terms /\ (query'.bare <=> bare)
    BY <2>1
  <2>6. GateOf(run)' = GateOf(d.run)
    BY <1>4, <1>6 DEF GateOf
  <2>7. Accepted(query.terms, round, run.pool, run.backed, query.bare \/ run.anchorTried)'
    BY <1>4, <1>6, <2>2, <2>5 DEF Accepted
  <2>8. SendsNew(d.terms, run.history) => SendsNew(query.terms, run.history)'
    BY <1>4, <2>5 DEF SendsNew, SentTerms
  <2> QED
    BY <1>5, <2>1, <2>2, <2>4, <2>5, <2>6, <2>7, <2>8 DEF PlansKept, NewTermComesNext
<1> QED
  BY <1>3, <1>7, <1>8

LEMMA PrfKeepsPlans == ASSUME RunInv, PlansKept, Prf PROVE PlansKept'
<1>1. PICK phrase \in PrfProposals :
        query' = [query EXCEPT !.second =
                    SecondQuery(query.terms, round, run.pool, run.history, phrase)]
  BY DEF Prf
<1> DEFINE second == SecondQuery(query.terms, round, run.pool, run.history, phrase)
<1>2. /\ stage = "prf" /\ stage' = "search" /\ UNCHANGED <<round, run, ended>>
  BY DEF Prf, To
<1>3. /\ query.terms \in Seq(Term) /\ Len(query.terms) >= 1 /\ query.terms[1] = RoleAnchor
      /\ PoolReady(run.pool) /\ IsFiniteSet(run.history)
      /\ GateOf(run).status = "continue_low_quality"
           => SendsNew(query.terms, run.history) \/ Len(query.terms) >= 2
  BY <1>2 DEF PlansKept
<1>4. phrase = {} \/ \E p \in Phrase : phrase = {p} /\ p \notin SentTerms(run.history)
  BY DEF PrfProposals, PrfPhrases, NewPhrases
<1>5. phrase # {} => \E p \in Term : /\ p \notin SentTerms(run.history)
                                      /\ <<query.terms[1], CHOOSE q \in phrase : TRUE>> = <<RoleAnchor, p>>
  BY <1>3, <1>4, PoolAssumption
<1>6. round \in Nat \ {0} /\ run.done = round - 1
  BY <1>2, RunAssumption DEF RunInv, RoundsCounted, RoundStages
\* The second query is one of terms, and it sends something new where the first does not.
<1>7. /\ second \in Seq(Term)
      /\ GateOf(run).status = "continue_low_quality"
           => SendsNew(query.terms, run.history) \/ SendsNew(second, run.history)
  <2>1. CASE round = 1 \/ Len(query.terms) = 1
    <3>1. second = <<>>
      BY <2>1 DEF SecondQuery
    <3>2. ASSUME GateOf(run).status = "continue_low_quality", Len(query.terms) >= 2 PROVE FALSE
      <4>1. run.done >= MinRounds
        BY <1>3, <1>6, <3>2, ContinueMeans
      <4>2. round # 1
        BY <1>6, <4>1, RunAssumption
      <4>3. Len(query.terms) = 1
        BY <2>1, <4>2
      <4> QED
        BY <3>2, <4>3
    <3> HIDE DEF second
    <3> QED
      BY <1>3, <3>1, <3>2
  <2>2. CASE ~(round = 1 \/ Len(query.terms) = 1) /\ phrase # {}
    <3>1. PICK p \in Term : p \notin SentTerms(run.history) /\ second = <<RoleAnchor, p>>
      BY <1>5, <2>2 DEF SecondQuery
    <3> DEFINE pair == <<RoleAnchor, p>>
    <3>2. pair \in Seq(Term) /\ 2 \in DOMAIN pair /\ pair[2] = p
      BY OneAnchor
    <3> HIDE DEF pair, second
    <3>3. SendsNew(pair, run.history)
      BY <3>1, <3>2 DEF SendsNew, ToSet
    <3> QED
      BY <3>1, <3>2, <3>3 DEF pair
  <2>3. CASE ~(round = 1 \/ Len(query.terms) = 1) /\ phrase = {}
    <3>1. second = ExploreTerms(query.terms, run.pool, run.history)
      BY <2>3 DEF SecondQuery
    <3> DEFINE n == Len(query.terms)
    <3>2. n \in Nat /\ n >= 1 /\ n # 1
      BY <1>3, <2>3
    <3> HIDE DEF n
    <3>3. n >= 2
      BY <3>2
    <3>4. /\ second \in Seq(Term)
          /\ \A u \in run.pool.active \cap Admitted :
                ~Title(u) /\ u \notin ToSet(query.terms) /\ u \notin SentTerms(run.history) =>
                  \E t \in ToSet(second) : t \notin SentTerms(run.history)
      <4> HIDE DEF second
      <4> QED
        BY <1>3, <3>1, <3>3, ExploreIs DEF n
    <3>5. ASSUME GateOf(run).status = "continue_low_quality"
          PROVE  \E u \in run.pool.active \cap Admitted : ~Title(u) /\ u \notin SentTerms(run.history)
      BY <1>3, <1>6, <3>5, ContinueMeans
    <3> HIDE DEF second
    <3> QED
      BY <3>4, <3>5 DEF SendsNew
  <2> QED
    BY <2>1, <2>2, <2>3
<1> HIDE DEF second
<1>8. query' = [query EXCEPT !.second = second]
  BY <1>1 DEF second
<1>9. /\ query' \in [terms : Seq(Term), second : Seq(Term), broaden : BOOLEAN, bare : BOOLEAN,
                      target : Nat]
      /\ query'.terms = query.terms /\ query'.second = second
  BY <1>7, <1>8 DEF PlansKept
<1>10. NewTermComesNext'
  <2> SUFFICES ASSUME (Gate.status = "continue_low_quality")'
               PROVE  (\E t \in ToSet(query.terms \o query.second) : t \notin SentTerms(run.history))'
    BY DEF NewTermComesNext
  <2>1. GateOf(run).status = "continue_low_quality"
    BY <1>2 DEF GateOf, Gate
  <2>2. PICK t \in ToSet(query.terms) \cup ToSet(second) : t \notin SentTerms(run.history)
    BY <1>7, <2>1 DEF SendsNew
  <2>3. t \in ToSet(query.terms \o second)
    BY <1>3, <1>7, <2>2, InJoined
  <2> QED
    BY <1>2, <1>9, <2>2, <2>3 DEF SentTerms
<1> QED
  BY <1>2, <1>3, <1>9, <1>10 DEF PlansKept

LEMMA RecordKeepsPlans == ASSUME RunInv, PlansKept, Record PROVE PlansKept'
<1> DEFINE history == run.history \cup Sent
<1>1. IsFiniteSet(Sent)
  <2> DEFINE both == {query.terms, query.second} \ {<<>>}
             f == [ts \in both |-> [round |-> round, terms |-> ts, broaden |-> query.broaden]]
  <2>1. IsFiniteSet({query.terms} \cup {query.second}) /\ both \in SUBSET ({query.terms} \cup {query.second})
    BY FS_Singleton, FS_Union
  <2>2. IsFiniteSet(both)
    BY <2>1, FS_Subset
  <2>3. Sent = {[round |-> round, terms |-> ts, broaden |-> query.broaden] : ts \in both}
    BY DEF Sent
  <2> HIDE DEF both
  <2>4. f \in Surjection(both, Sent)
    BY <2>3 DEF Surjection
  <2> HIDE DEF f
  <2> QED
    BY <2>2, <2>4, FS_Surjection
<1>2. IsFiniteSet(history)
  BY <1>1, FS_Union DEF PlansKept
<1> QED
  <2>1. run' = [run EXCEPT !.history = history, !.seen = @ \cup batch]
    BY DEF Record
  <2> HIDE DEF history
  <2>2. run'.pool = run.pool /\ run'.history = history
    BY <2>1 DEF RunInv, RunShape
  <2>3. stage' = "score" /\ UNCHANGED query
    BY DEF Record, To
  <2> QED
    BY <1>2, <2>2, <2>3, QuietPlan

LEMMA PlansKeptStep == RunInv /\ PlansKept /\ [Next]_vars => PlansKept'
<1> SUFFICES ASSUME RunInv, PlansKept, [Next]_vars PROVE PlansKept'
  OBVIOUS
<1> USE DEF To
<1>1. CASE Prf \/ Record
  BY <1>1, PrfKeepsPlans, RecordKeepsPlans
<1>2. CASE Requirements
  <2>1. UNCHANGED <<round, run, query>> /\ stage' \in {"controller", "lanes"}
    BY <1>2 DEF Requirements
  <2> QED
    BY <2>1, SamePlan
<1>3. CASE Plan
  <2>1. UNCHANGED <<round, run, query>> /\ stage = "plan" /\ stage' \in {"prf", "corpus"}
    BY <1>3 DEF Plan, Fail
  <2> QED
    BY <2>1, SamePlan
<1>4. CASE Score \/ Reflect \/ ApplyLanes \/ Rescore
  <2>1. RunShape(run) /\ IsFiniteSet(run.history)
    BY DEF RunInv, PlansKept
  <2>2. run'.pool = run.pool /\ run'.history = run.history
    <3>1. CASE Score
      BY <2>1, <3>1 DEF Score, RunShape
    <3>2. CASE Reflect
      BY <2>1, <3>2 DEF Reflect, RunShape
    <3>3. CASE ApplyLanes
      BY <2>1, <3>3 DEF ApplyLanes, Shortlisted, RunShape
    <3>4. CASE Rescore
      BY <2>1, <3>4 DEF Rescore, Shortlisted, RunShape
    <3> QED
      BY <1>4, <3>1, <3>2, <3>3, <3>4
  <2>3. /\ UNCHANGED query \/ query' = NoQuery
        /\ stage' \in {"reflect", "finalize", "controller", "rescore"}
    BY <1>4 DEF Score, Reflect, ApplyLanes, Rescore
  <2> QED
    BY <2>1, <2>2, <2>3, QuietPlan
<1>5. CASE \/ SearchGathers \/ SearchReturns \/ SearchBreaks \/ LaneReturns \/ Finished
           \/ ExtractAgain \/ DecideAgain \/ ReflectAgain \/ FinalizeAgain
           \/ UNCHANGED vars
  <2>1. UNCHANGED <<round, run, query>> /\ stage' = stage /\ (ended' = "no" => ended = "no")
    BY <1>5 DEF SearchGathers, SearchReturns, SearchBreaks, LaneReturns, Finished, ExtractAgain,
                DecideAgain, ReflectAgain, FinalizeAgain, AskAgain, Search!Return, Search!Break,
                frame, locals, vars
  <2> QED
    BY <2>1, SamePlan
<1>6. CASE Finalize
  <2>1. UNCHANGED <<round, run, query>> /\ stage' = "evaluate"
    BY <1>6 DEF Finalize
  <2> QED
    BY <2>1, SamePlan
<1>7. ASSUME Forget, stage' = "corpus" PROVE PlansKept'
  <2>1. run' = NewRun /\ query' = NoQuery
    BY <1>7 DEF Forget
  <2> QED
    BY <1>7, <2>1, NoPlan DEF PlansKept, NewTermComesNext
<1>8. CASE CancelRun \/ Evaluate
  BY <1>7, <1>8 DEF CancelRun, Cancel, Evaluate, Return
<1>11. CASE Decide
  <2>1. CASE Fail /\ Forget
    BY <1>7, <2>1 DEF Fail
  <2>2. CASE \E answer \in Answers : \E d \in Resolutions(answer) : Decided(answer, d)
    BY <2>2, DecideKeepsPlans
  <2> QED
    BY <1>11, <2>1, <2>2, DecideIs
<1>9. CASE \/ RequirementsFail \/ ControllerFails \/ ReflectionFails \/ FinalizerFails \/ PlanFails
           \/ PrfFails \/ ScoringFails \/ RowsFail \/ LanesFail \/ EvaluationFails
           \/ SearchFails \/ RecordFails
  <2>1. ASSUME NEW s, Raise(s) PROVE PlansKept'
    BY <1>7, <2>1 DEF Raise, Fail
  <2> QED
    BY <1>9, <2>1 DEF RequirementsFail, ControllerFails, ReflectionFails, FinalizerFails, PlanFails,
          PrfFails, ScoringFails, RowsFail, LanesFail, EvaluationFails, SearchFails, RecordFails
<1>10. CASE (OpenRun \/ StartRun \/ OpenFails \/ StartFails \/ Close) /\ UNCHANGED <<laneFrame, locals>>
  <2>1. UNCHANGED <<round, run, query>> /\ stage' \notin {"plan", "prf", "search"}
    BY <1>10 DEF OpenRun, StartRun, OpenFails, StartFails, Close, CloseCorpus, CloseDatabase,
             CloseDatabaseFails, CloseFlywheel, CloseFlywheelFails, CloseTrace, CloseTraceFails, locals
  <2> QED
    BY <2>1, SamePlan
<1> QED
  BY <1>1, <1>2, <1>3, <1>4, <1>5, <1>6, <1>8, <1>9, <1>10, <1>11 DEF Next, Step, Trouble

\* A query that the decision of a round has come to, by the controller, by a rescue lane
\* or in place of a stop, passes build_round_retrieval_plan, and a round that may not be
\* the last because terms are untried sends one that nobody has sent.
THEOREM RoundsStaySound == Spec => []RoundsAreSound
<1>1. Init => PlansKept
  BY PlansKeptInit
<1>2. RunInv /\ PlansKept /\ [Next]_vars => PlansKept'
  BY PlansKeptStep
<1>3. Spec => []PlansKept
  BY <1>1, <1>2, RunInvHolds, PTL DEF Spec
<1>4. RuntimeTypeOK /\ RunInv /\ PlansKept => RoundsAreSound
  <2> SUFFICES ASSUME RuntimeTypeOK, RunInv, PlansKept PROVE RoundsAreSound
    OBVIOUS
  <2>1. PoolReady(run.pool) /\ round \in Nat \ {0}
    BY RunAssumption DEF PlansKept, RunInv, RoundsCounted
  <2>2. FallbackStands
    <3>1. \/ SelectTerms(run.pool, round) # <<>>
          \/ round = 1 /\ TitleTwins(run.pool.terms)
      BY <2>1, SelectIs
    <3> QED
      BY <3>1 DEF FallbackStands, TitleTwins
  <2> QED
    BY <2>2 DEF PlansKept, RoundsAreSound, ForcedPlansHold
<1> QED
  BY <1>3, <1>4, RunTypes, RunInvHolds, PTL
=============================================================================
