------------------------ MODULE RetrievalLoopProofs ------------------------
(***************************************************************************)
(* Proofs about RetrievalLoop: for any settings, provider, cities and      *)
(* lanes, a round's search counts nobody twice, uses nobody it has not     *)
(* recorded, falls short of its target only when no lane can be asked      *)
(* again, and does what RoundSearch promises the rounds.                   *)
(***************************************************************************)
EXTENDS RetrievalLoop, FiniteSetTheorems, TLAPS

----------------------------------------------------------------------------
(* Orders: the elements of a finite set under a key of integers that tells *)
(* them apart have the places 0, 1, ... without a gap.                     *)

Ordered(X, key) == /\ \A r \in X : key[r] \in Int
                   /\ \A r, x \in X : key[r] = key[x] => r = x
Ahead(X, key, r) == {x \in X : key[x] < key[r]}
Ranks(X, key) == [r \in X |-> Cardinality(Ahead(X, key, r))]

LEMMA AheadIsProper ==
    ASSUME NEW X, IsFiniteSet(X), NEW key, Ordered(X, key), NEW r \in X
    PROVE  /\ IsFiniteSet(Ahead(X, key, r)) /\ Cardinality(Ahead(X, key, r)) \in Nat
           /\ Cardinality(Ahead(X, key, r)) < Cardinality(X)
<1>1. r \notin Ahead(X, key, r) /\ Ahead(X, key, r) \in SUBSET X
  BY DEF Ahead, Ordered
<1>2. /\ IsFiniteSet(Ahead(X, key, r)) /\ Cardinality(Ahead(X, key, r)) <= Cardinality(X)
      /\ Cardinality(Ahead(X, key, r)) # Cardinality(X)
  BY <1>1, FS_Subset
<1>3. Cardinality(Ahead(X, key, r)) \in Nat /\ Cardinality(X) \in Nat
  BY <1>2, FS_CardinalityType
<1> QED
  BY <1>2, <1>3

LEMMA RankGrows ==
    ASSUME NEW X, IsFiniteSet(X), NEW key, Ordered(X, key),
           NEW r \in X, NEW x \in X, key[r] < key[x]
    PROVE  Cardinality(Ahead(X, key, r)) < Cardinality(Ahead(X, key, x))
<1>1. /\ Ahead(X, key, r) \in SUBSET Ahead(X, key, x)
      /\ r \in Ahead(X, key, x) /\ r \notin Ahead(X, key, r)
  BY DEF Ahead, Ordered
<1>2. /\ Cardinality(Ahead(X, key, r)) <= Cardinality(Ahead(X, key, x))
      /\ Cardinality(Ahead(X, key, r)) # Cardinality(Ahead(X, key, x))
  BY <1>1, AheadIsProper, FS_Subset
<1>3. Cardinality(Ahead(X, key, r)) \in Nat /\ Cardinality(Ahead(X, key, x)) \in Nat
  BY AheadIsProper
<1> QED
  BY <1>2, <1>3

\* The ranks in the order are 0, 1, ... without a gap.
LEMMA RankIsBijection ==
    ASSUME NEW X, IsFiniteSet(X), NEW key, Ordered(X, key)
    PROVE  Ranks(X, key) \in Bijection(X, 0..(Cardinality(X) - 1))
<1> DEFINE ranks == 0..(Cardinality(X) - 1)
<1>1. Cardinality(X) \in Nat
  BY FS_CardinalityType
<1>2. \A r \in X : Ranks(X, key)[r] = Cardinality(Ahead(X, key, r))
  BY DEF Ranks
<1>3. Ranks(X, key) \in [X -> ranks]
  BY <1>1, AheadIsProper DEF Ranks
<1>4. ASSUME NEW r \in X, NEW x \in X, Ranks(X, key)[r] = Ranks(X, key)[x] PROVE r = x
  <2>1. ~(key[r] < key[x]) /\ ~(key[x] < key[r])
    <3>1. Cardinality(Ahead(X, key, r)) = Cardinality(Ahead(X, key, x))
      BY <1>2, <1>4
    <3>2. Cardinality(Ahead(X, key, r)) \in Nat
      BY AheadIsProper
    <3> QED
      BY <3>1, <3>2, RankGrows
  <2> QED
    BY <2>1 DEF Ordered
<1>5. Ranks(X, key) \in Injection(X, ranks)
  BY <1>3, <1>4 DEF Injection, IsInjective
<1>6. IsFiniteSet(ranks) /\ Cardinality(ranks) = Cardinality(X)
  BY <1>1, FS_Interval
<1>7. Ranks(X, key) \in Surjection(X, ranks)
  BY <1>5, <1>6, FS_Injection
<1> QED
  BY <1>5, <1>7 DEF Bijection

----------------------------------------------------------------------------
(* Sequences.                                                              *)

LEMMA ToSetIs == ASSUME NEW S, NEW s \in Seq(S)
                 PROVE  /\ \A i \in 1..Len(s) : s[i] \in ToSet(s)
                        /\ \A x \in ToSet(s) : \E i \in 1..Len(s) : x = s[i]
                        /\ ToSet(s) \subseteq S
BY DEF ToSet

LEMMA ToSetJoins == ASSUME NEW S, NEW s \in Seq(S), NEW t \in Seq(S)
                    PROVE  /\ s \o t \in Seq(S) /\ Len(s \o t) = Len(s) + Len(t)
                           /\ ToSet(s \o t) = ToSet(s) \cup ToSet(t)
<1>1. s \o t \in Seq(S) /\ Len(s \o t) = Len(s) + Len(t)
  OBVIOUS
<1>2. ASSUME NEW x \in ToSet(s \o t) PROVE x \in ToSet(s) \cup ToSet(t)
  <2>1. PICK i \in 1..Len(s \o t) : x = (s \o t)[i]
    BY <1>1, <1>2, ToSetIs
  <2>2. CASE i <= Len(s)
    <3>1. x = s[i] /\ i \in 1..Len(s)
      BY <2>1, <2>2
    <3> QED
      BY <3>1, ToSetIs
  <2>3. CASE i > Len(s)
    <3>1. x = t[i - Len(s)] /\ i - Len(s) \in 1..Len(t)
      BY <1>1, <2>1, <2>3
    <3> QED
      BY <3>1, ToSetIs
  <2> QED
    BY <1>1, <2>1, <2>2, <2>3
<1>3. ASSUME NEW x \in ToSet(s) PROVE x \in ToSet(s \o t)
  <2>1. PICK i \in 1..Len(s) : x = s[i]
    BY <1>3, ToSetIs
  <2>2. (s \o t)[i] = x /\ i \in 1..Len(s \o t)
    BY <1>1, <2>1
  <2> QED
    BY <1>1, <2>2, ToSetIs
<1>4. ASSUME NEW x \in ToSet(t) PROVE x \in ToSet(s \o t)
  <2>1. PICK i \in 1..Len(t) : x = t[i]
    BY <1>4, ToSetIs
  <2>2. (s \o t)[Len(s) + i] = x /\ Len(s) + i \in 1..Len(s \o t)
    BY <1>1, <2>1
  <2> QED
    BY <1>1, <2>2, ToSetIs
<1> QED
  BY <1>1, <1>2, <1>3, <1>4

LEMMA InjectionsJoin == ASSUME NEW S, NEW s \in Seq(S), NEW t \in Seq(S),
                               IsInjective(s), IsInjective(t), ToSet(s) \cap ToSet(t) = {}
                        PROVE  IsInjective(s \o t)
<1>1. Len(s \o t) = Len(s) + Len(t) /\ s \o t \in Seq(S)
  OBVIOUS
<1>2. \A i \in 1..Len(s) : (s \o t)[i] = s[i] /\ s[i] \in ToSet(s)
  BY ToSetIs
<1>3. \A i \in 1..Len(s \o t) : i > Len(s) =>
          /\ i - Len(s) \in 1..Len(t) /\ (s \o t)[i] = t[i - Len(s)] /\ t[i - Len(s)] \in ToSet(t)
  BY <1>1, ToSetIs
<1>4. ASSUME NEW i \in 1..Len(s \o t), NEW j \in 1..Len(s \o t), (s \o t)[i] = (s \o t)[j]
      PROVE  i = j
  <2>1. CASE i <= Len(s) /\ j <= Len(s)
    BY <1>2, <1>4, <2>1 DEF IsInjective
  <2>2. CASE i > Len(s) /\ j > Len(s)
    <3>1. i - Len(s) = j - Len(s)
      BY <1>3, <1>4, <2>2 DEF IsInjective
    <3> QED
      BY <3>1
  <2>3. CASE i <= Len(s) /\ j > Len(s)
    BY <1>2, <1>3, <1>4, <2>3
  <2>4. CASE i > Len(s) /\ j <= Len(s)
    BY <1>2, <1>3, <1>4, <2>4
  <2> QED
    BY <1>1, <2>1, <2>2, <2>3, <2>4
<1> QED
  BY <1>1, <1>4 DEF IsInjective

LEMMA EmptySequence == ASSUME NEW S PROVE /\ <<>> \in Seq(S) /\ Len(<<>>) = 0
                                          /\ ToSet(<<>>) = {} /\ IsInjective(<<>>)
BY DEF ToSet, IsInjective

LEMMA TailIs == ASSUME NEW S, NEW s \in Seq(S), s # <<>>
                PROVE  /\ Head(s) \in S /\ Tail(s) \in Seq(S) /\ Len(Tail(s)) = Len(s) - 1
                       /\ ToSet(s) = {Head(s)} \cup ToSet(Tail(s))
<1>1. Head(s) \in S /\ Tail(s) \in Seq(S) /\ Len(Tail(s)) = Len(s) - 1 /\ Len(s) > 0
      /\ \A i \in 1..Len(Tail(s)) : Tail(s)[i] = s[i + 1]
      /\ Head(s) = s[1]
  OBVIOUS
<1>2. ToSet(s) \subseteq {Head(s)} \cup ToSet(Tail(s))
  <2> SUFFICES ASSUME NEW i \in 1..Len(s), i # 1 PROVE s[i] \in ToSet(Tail(s))
    BY <1>1, ToSetIs
  <2>1. i - 1 \in 1..Len(Tail(s)) /\ Tail(s)[i - 1] = s[i]
    BY <1>1
  <2> QED
    BY <1>1, <2>1, ToSetIs
<1>3. ASSUME NEW x \in ToSet(Tail(s)) PROVE x \in ToSet(s)
  <2>1. PICK i \in 1..Len(Tail(s)) : x = Tail(s)[i]
    BY <1>1, <1>3, ToSetIs
  <2>2. i + 1 \in 1..Len(s) /\ x = s[i + 1]
    BY <1>1, <2>1
  <2> QED
    BY <2>2, ToSetIs
<1>4. Head(s) \in ToSet(s)
  BY <1>1, ToSetIs
<1> QED
  BY <1>1, <1>2, <1>3, <1>4

\* A sequence picked at some positions has as many elements as positions, those at
\* the positions, and each once if the original has each once there.
LEMMA PickedIs ==
    ASSUME NEW S, NEW s \in Seq(S), NEW keep \in SUBSET (1..Len(s))
    PROVE  /\ Picked(s, keep) \in Seq(S) /\ Len(Picked(s, keep)) <= Len(s)
           /\ \A x \in ToSet(Picked(s, keep)) : \E i \in keep : x = s[i]
           /\ (\A i, j \in keep : s[i] = s[j] => i = j) => IsInjective(Picked(s, keep))
<1> DEFINE n == Cardinality(keep)
           at1(i) == {j \in keep : j <= i}
           id == [i \in keep |-> i]
           nth(k) == CHOOSE i \in keep : Cardinality(at1(i)) = k
<1>1. Len(s) \in Nat /\ IsFiniteSet(1..Len(s)) /\ Cardinality(1..Len(s)) = Len(s)
  BY FS_Interval
<1>2. IsFiniteSet(keep) /\ n \in Nat /\ n <= Len(s)
  BY <1>1, FS_Subset, FS_CardinalityType
<1>3. Ordered(keep, id)
  BY DEF Ordered
<1>4. ASSUME NEW i \in keep PROVE Cardinality(at1(i)) = Cardinality(Ahead(keep, id, i)) + 1
  <2>1. at1(i) = Ahead(keep, id, i) \cup {i} /\ i \notin Ahead(keep, id, i)
    BY DEF Ahead
  <2>2. IsFiniteSet(Ahead(keep, id, i))
    BY <1>2, <1>3, AheadIsProper
  <2> QED
    BY <2>1, <2>2, FS_AddElement
<1>5. \A k \in 1..n : \E i \in keep : Cardinality(at1(i)) = k
  <2> SUFFICES ASSUME NEW k \in 1..n PROVE \E i \in keep : Cardinality(at1(i)) = k
    OBVIOUS
  <2>1. k - 1 \in 0..(n - 1)
    BY <1>2
  <2> HIDE DEF id
  <2>4. \A m \in 0..(n - 1) : \E i \in keep : Ranks(keep, id)[i] = m
    <3>1. Ranks(keep, id) \in Bijection(keep, 0..(n - 1))
      BY <1>2, <1>3, RankIsBijection
    <3> QED
      BY <3>1 DEF Bijection, Surjection
  <2>2. PICK i \in keep : Ranks(keep, id)[i] = k - 1
    BY <2>1, <2>4
  <2>3. Cardinality(Ahead(keep, id, i)) = k - 1
    BY <2>2 DEF Ranks
  <2> QED
    BY <1>4, <2>1, <2>3
<1>6. \A k \in 1..n : nth(k) \in keep /\ Cardinality(at1(nth(k))) = k
  BY <1>5
<1>7. Picked(s, keep) = [k \in 1..n |-> s[nth(k)]]
  BY DEF Picked
<1> HIDE DEF n, nth
<1>8. \A k \in 1..n : s[nth(k)] \in S
  <2> SUFFICES ASSUME NEW k \in 1..n PROVE s[nth(k)] \in S
    OBVIOUS
  <2>1. nth(k) \in 1..Len(s)
    BY <1>6
  <2> QED
    BY <2>1
<1>9. Picked(s, keep) \in Seq(S) /\ Len(Picked(s, keep)) = n /\ DOMAIN Picked(s, keep) = 1..n
  BY <1>2, <1>7, <1>8
<1>10. ASSUME NEW x \in ToSet(Picked(s, keep)) PROVE \E i \in keep : x = s[i]
  <2>1. PICK k \in 1..n : x = Picked(s, keep)[k]
    BY <1>9, <1>10, ToSetIs
  <2> QED
    BY <1>6, <1>7, <2>1
<1>11. ASSUME \A i, j \in keep : s[i] = s[j] => i = j PROVE IsInjective(Picked(s, keep))
  <2> SUFFICES ASSUME NEW k \in 1..n, NEW m \in 1..n, Picked(s, keep)[k] = Picked(s, keep)[m]
               PROVE  k = m
    BY <1>9 DEF IsInjective
  <2>1. nth(k) = nth(m)
    BY <1>6, <1>7, <1>11
  <2> QED
    BY <1>6, <2>1
<1> QED
  BY <1>2, <1>9, <1>10, <1>11

LEMMA FreshIs ==
    ASSUME NEW S, NEW batch \in Seq(S), NEW met
    PROVE  /\ FreshOf(batch, met) \in Seq(S) /\ Len(FreshOf(batch, met)) <= Len(batch)
           /\ ToSet(FreshOf(batch, met)) \subseteq ToSet(batch) \ met
           /\ IsInjective(FreshOf(batch, met))
<1> DEFINE keep == {i \in DOMAIN batch : /\ batch[i] \notin met
                                         /\ \A j \in 1..(i - 1) : batch[j] # batch[i]}
<1>1. keep \in SUBSET (1..Len(batch)) /\ FreshOf(batch, met) = Picked(batch, keep)
  BY DEF FreshOf
<1>2. \A i, j \in keep : batch[i] = batch[j] => i = j
  <2> SUFFICES ASSUME NEW i \in keep, NEW j \in keep, batch[i] = batch[j] PROVE i = j
    OBVIOUS
  <2>1. i \in Nat /\ j \in Nat /\ i >= 1 /\ j >= 1
    BY <1>1
  <2>2. ~(i < j)
    <3>1. ASSUME i < j PROVE i \in 1..(j - 1)
      BY <2>1, <3>1
    <3> QED
      BY <3>1
  <2>3. ~(j < i)
    <3>1. ASSUME j < i PROVE j \in 1..(i - 1)
      BY <2>1, <3>1
    <3> QED
      BY <3>1
  <2> QED
    BY <2>1, <2>2, <2>3
<1>3. \A i \in keep : batch[i] \in ToSet(batch) \ met
  BY <1>1, ToSetIs
<1> HIDE DEF keep
<1> QED
  BY <1>1, <1>2, <1>3, PickedIs

----------------------------------------------------------------------------
(* The inductive invariant.                                                *)

Stages == {"pick", "plan", "send", "fetch", "score", "done", "failed"}
InCall == at \in {"plan", "send", "fetch", "score"}
OnePlace == places.mode \in {"none", "single"}
Bad == {"zero_recall", "duplicate_only", "broad_noise", "drift_suspected"}

LocationPlans == [mode : {"none", "single", "priority_then_fallback", "balanced_all"},
                  priority : Seq(City), balanced : Seq(City)]
Orders == [city : Where, want : Nat \ {0}]
Calls == [lane : LaneType \cup {"none"}, want : Nat, new : Seq(Candidate), first : Seq(Where),
          queue : Seq(Orders), stop : BOOLEAN]
Tools == [city : Where, want : Nat, page : 1..(MaxPages + 1), attempts : 0..MaxAttempts,
          new : Seq(Candidate), raw : Nat, zero : Nat]

InputTypes ==
    /\ target \in Targets /\ known \in SUBSET Candidate /\ lanes \in LaneChoices
    /\ places \in LocationPlans /\ (places.mode = "single" => Len(places.balanced) = 1)

LoopTypes ==
    /\ at \in Stages /\ pass \in {"initial", "refill"} /\ progressed \in BOOLEAN
    /\ todo \in Seq(LaneType)
    /\ asked \in [LaneType -> [Where -> [page : 1..(MaxPages + 1), done : BOOLEAN]]]
    /\ spent \in [LaneType -> BOOLEAN] /\ labels \in [LaneType -> SUBSET Bad]
    /\ judged \in [LaneType -> Seq(Candidate)] /\ collected \in Seq(Candidate)
    /\ pending \in SUBSET Candidate /\ recorded \in SUBSET Candidate

\* Between two calls there is none, and between two dispatches no tool is at work.
CallTypes ==
    /\ call \in Calls /\ tool \in Tools
    /\ at \in {"pick", "done"} => call = NoCall
    /\ InCall => todo # <<>> /\ call.lane = Head(todo)
    /\ at = "plan" => call.queue = <<>>
    /\ at = "send" => call.queue # <<>>
    /\ at \in {"pick", "done", "plan", "send"} => tool = NoTool
    /\ at = "fetch" => tool.page <= MaxPages /\ tool.attempts < MaxAttempts /\ Len(tool.new) < tool.want

SearchTyped == InputTypes /\ LoopTypes /\ CallTypes

\* With one place there is one dispatch in a call, and nothing in hand before it.
NewInHand ==
    /\ ToSet(call.new) \cap Counted = {} /\ known \cap ToSet(collected) = {}
    /\ IsInjective(tool.new) /\ (at = "fetch" => ToSet(tool.new) \cap Counted = {})
    /\ OnePlace =>
         /\ IsInjective(collected) /\ IsInjective(call.new)
         /\ at = "plan" => Len(call.first) <= 1
         /\ at = "plan" /\ call.first # <<>> => call.new = <<>>
         /\ at \in {"send", "fetch"} => call.new = <<>>
         /\ at \in {"send", "fetch", "score"} => call.first = <<>>
         /\ at = "send" => Len(call.queue) = 1
         /\ at \in {"fetch", "score"} => call.queue = <<>>

\* What a dispatch has in hand is about to be recorded, or it is.
ReturnsOnRecord ==
    /\ RecordedBeforeUse
    /\ at = "fetch" => ToSet(tool.new) \subseteq pending
    /\ at = "score" => ToSet(tool.new) \subseteq recorded

\* A refill pass that has found nothing has passed only lanes not to be asked again.
CannotAsk(l) == spent[l] \/ ~RefillAllowed(l, labels[l])
FruitlessPass ==
    /\ ShortageMeansExhausted
    /\ pass = "refill" /\ ~progressed /\ (InCall \/ at = "pick") =>
         Gap > 0 /\ \A l \in ToSet(lanes) : l \in ToSet(todo) \/ CannotAsk(l)

\* What the lanes of the first pass have still to bring.
StillWanted ==
    LET share == InitialTargets(lanes, target)
    IN  IF todo = <<>> THEN 0
        ELSE IF Len(todo) = 1 THEN share[todo[1]] ELSE share[todo[1]] + share[todo[2]]

\* The wants of a queue of dispatches: p of them want q + 1, those behind want q.
QueueWants(q, p) ==
    /\ p <= Len(call.queue)
    /\ \A i \in 1..Len(call.queue) : call.queue[i].want = q + (IF i <= p THEN 1 ELSE 0)
    /\ Len(call.new) + (IF at = "fetch" THEN tool.want ELSE 0) + Len(call.queue) * q + p <= call.want

\* No pass collects more than the target.
NeverTooMany ==
    /\ Len(collected) <= target
    /\ pass = "initial" => /\ todo \in {lanes, Tail(lanes), <<>>}
                           /\ Len(collected) + StillWanted <= target
    /\ InCall => call.want = Wanted(call.lane) /\ call.want > 0
    /\ at = "plan" => Len(call.new) <= call.want
    /\ at \in {"send", "fetch", "score"} => \E q, p \in Nat : QueueWants(q, p)

RetrievalInv == SearchTyped /\ NewInHand /\ ReturnsOnRecord /\ FruitlessPass /\ NeverTooMany

LEMMA RotatedIs == ASSUME NEW cities \in Seq(City), NEW offset \in Nat PROVE Rotated(cities, offset) \in Seq(City)
<1> DEFINE k == IF cities = <<>> THEN 0 ELSE offset % Len(cities)
<1>1. Len(cities) \in Nat /\ (cities # <<>> => Len(cities) > 0)
  OBVIOUS
<1>2. k \in Nat /\ k <= Len(cities)
  <2>1. CASE cities = <<>>
    BY <1>1, <2>1
  <2>2. CASE cities # <<>>
    <3>1. Len(cities) \in Nat \ {0}
      BY <1>1, <2>2
    <3>2. \A n \in Nat \ {0} : offset % n \in 0..(n - 1)
      OBVIOUS
    <3> QED
      BY <2>2, <3>1, <3>2
  <2> QED
    BY <2>1, <2>2
<1>3. Rotated(cities, offset) = SubSeq(cities, k + 1, Len(cities)) \o SubSeq(cities, 1, k)
  BY DEF Rotated
<1> HIDE DEF k
<1>4. SubSeq(cities, k + 1, Len(cities)) \in Seq(City) /\ SubSeq(cities, 1, k) \in Seq(City)
  <2>1. \A i \in (k + 1)..Len(cities) : cities[i] \in City
    BY <1>2
  <2>2. \A i \in 1..k : cities[i] \in City
    BY <1>2
  <2> QED
    BY <1>1, <1>2, <2>1, <2>2
<1> QED
  BY <1>3, <1>4

LEMMA LocationPlanIs ==
    ASSUME NEW allowed \in Seq(City), NEW preferred \in Seq(City), NEW n \in 1..MaxRound
    PROVE  LET p == LocationPlan(allowed, preferred, n)
           IN  p \in LocationPlans /\ (p.mode = "single" => Len(p.balanced) = 1)
<1> DEFINE wanted == Picked(preferred, {i \in DOMAIN preferred : preferred[i] \in ToSet(allowed)})
           others == Picked(allowed, {i \in DOMAIN allowed : allowed[i] \notin ToSet(wanted)})
           offered == IF wanted = <<>> THEN allowed ELSE others
           mode == CASE allowed = <<>> -> "none"
                     [] Len(allowed) = 1 -> "single"
                     [] Len(allowed) > 1 /\ wanted # <<>> -> "priority_then_fallback"
                     [] OTHER -> "balanced_all"
           priority == IF Len(allowed) > 1 THEN wanted ELSE <<>>
           balanced == IF Len(allowed) > 1 THEN Rotated(offered, n - 1) ELSE allowed
<1>1. wanted \in Seq(City)
  BY PickedIs
<1>2. others \in Seq(City)
  <2> HIDE DEF wanted
  <2> QED
    BY PickedIs
<1>3. n - 1 \in Nat
  BY RetrievalAssumption
<1>4. LocationPlan(allowed, preferred, n) = [mode |-> mode, priority |-> priority, balanced |-> balanced]
  BY DEF LocationPlan
<1> HIDE DEF wanted, others
<1>5. priority \in Seq(City) /\ balanced \in Seq(City)
  <2>1. offered \in Seq(City) /\ <<>> \in Seq(City)
    BY <1>1, <1>2
  <2> HIDE DEF offered
  <2>2. Rotated(offered, n - 1) \in Seq(City)
    BY <1>3, <2>1, RotatedIs
  <2> QED
    BY <1>1, <2>1, <2>2
<1>6. mode \in {"none", "single", "priority_then_fallback", "balanced_all"}
  OBVIOUS
<1>7. mode = "single" => Len(allowed) = 1 /\ balanced = allowed
  <2>1. mode = "single" => Len(allowed) = 1
    OBVIOUS
  <2>2. Len(allowed) = 1 => balanced = allowed
    OBVIOUS
  <2> HIDE DEF mode, balanced
  <2> QED
    BY <2>1, <2>2
<1> HIDE DEF mode, priority, balanced
<1> QED
  BY <1>4, <1>5, <1>6, <1>7 DEF LocationPlans

LEMMA InitialShares ==
    ASSUME InputTypes
    PROVE  LET share == InitialTargets(lanes, target)
           IN  /\ \A i \in 1..Len(lanes) : share[lanes[i]] \in Nat
               /\ Len(lanes) = 1 => share[lanes[1]] <= target
               /\ Len(lanes) = 2 => share[lanes[1]] + share[lanes[2]] <= target
<1> DEFINE first == IF "exploit" \in ToSet(lanes) THEN "exploit" ELSE lanes[1]
           seven == (7 * target + 9) \div 10
           second == IF target - seven > 1 THEN target - seven ELSE 1
           main == IF seven + second > target THEN target - second ELSE seven
           share == InitialTargets(lanes, target)
<1>1. /\ target \in Nat \ {0} /\ lanes \in Seq(LaneType) /\ Len(lanes) \in {1, 2}
      /\ \A i, j \in 1..Len(lanes) : lanes[i] = lanes[j] => i = j
  BY RetrievalAssumption DEF InputTypes, IsInjective
<1>2. seven \in Nat /\ seven >= 1 /\ seven <= target
  BY <1>1
<1>3. target > 1 => main \in Nat /\ second \in Nat /\ main + second <= target
  <2> HIDE DEF seven
  <2> QED
    BY <1>1, <1>2
<1>4. \A i \in 1..Len(lanes) : lanes[i] \in ToSet(lanes)
  BY <1>1, ToSetIs
<1>5. \A l \in ToSet(lanes) : share[l] = CASE Len(lanes) = 1 -> target
              [] Len(lanes) = 2 /\ target <= 1 -> IF l = first THEN target ELSE 0
              [] OTHER -> IF l = first THEN main ELSE second
  BY DEF InitialTargets
<1>6. first \in ToSet(lanes) /\ \E i \in 1..Len(lanes) : first = lanes[i]
  BY <1>1, <1>4, ToSetIs
<1> HIDE DEF first, main, second, seven, share
<1>7. CASE Len(lanes) = 1
  BY <1>1, <1>4, <1>5, <1>7 DEF share
<1>8. CASE Len(lanes) = 2
  <2>1. lanes[1] # lanes[2] /\ (first = lanes[1] \/ first = lanes[2])
    BY <1>1, <1>6, <1>8
  <2>2. CASE target <= 1
    BY <1>1, <1>4, <1>5, <1>8, <2>1, <2>2 DEF share
  <2>3. CASE target > 1
    BY <1>1, <1>3, <1>4, <1>5, <1>8, <2>1, <2>3 DEF share
  <2> QED
    BY <1>1, <2>2, <2>3
<1> QED
  BY <1>1, <1>7, <1>8

LEMMA LoopBegins == RetrievalInit => RetrievalInv
<1> SUFFICES ASSUME RetrievalInit PROVE RetrievalInv
  OBVIOUS
<1>1. InputTypes
  <2>1. PICK p \in Plans, n \in 1..MaxRound : places = LocationPlan(p[1], p[2], n)
    BY DEF RetrievalInit
  <2>2. p[1] \in Seq(City) /\ p[2] \in Seq(City)
    BY RetrievalAssumption
  <2>3. places \in LocationPlans /\ (places.mode = "single" => Len(places.balanced) = 1)
    BY <2>1, <2>2, LocationPlanIs
  <2> QED
    BY <2>3, RetrievalAssumption DEF InputTypes, RetrievalInit
<1>2. lanes \in Seq(LaneType) /\ Len(lanes) \in {1, 2} /\ target \in Nat \ {0} /\ MaxPages \in Nat \ {0}
      /\ MaxAttempts \in Nat \ {0}
  BY <1>1, RetrievalAssumption DEF InputTypes
<1>3. LoopTypes
  <2>1. Untouched \in [page : 1..(MaxPages + 1), done : BOOLEAN]
    BY <1>2 DEF Untouched
  <2>2. \A T : <<>> \in Seq(T)
    OBVIOUS
  <2>3. asked \in [LaneType -> [Where -> [page : 1..(MaxPages + 1), done : BOOLEAN]]]
    BY <2>1 DEF RetrievalInit
  <2> QED
    BY <1>2, <2>2, <2>3 DEF LoopTypes, RetrievalInit, Stages
<1>4. CallTypes
  <2>1. call = NoCall /\ NoCall \in Calls
    BY DEF RetrievalInit, NoCall, Calls
  <2>2. tool = NoTool /\ NoTool \in Tools
    BY <1>2 DEF RetrievalInit, NoTool, Tools, Where
  <2> QED
    BY <2>1, <2>2 DEF CallTypes, RetrievalInit, InCall
<1>5. /\ call.new = <<>> /\ collected = <<>> /\ at = "pick" /\ pass = "initial"
      /\ recorded = {} /\ \A l \in LaneType : judged[l] = <<>>
  BY DEF RetrievalInit, NoCall
<1>6. ToSet(<<>>) = {} /\ IsInjective(<<>>)
  BY EmptySequence
<1>7. NewInHand
  <2>1. tool.new = <<>>
    BY DEF RetrievalInit, NoTool
  <2> QED
    BY <1>5, <1>6, <2>1 DEF NewInHand, Counted
<1>8. ReturnsOnRecord
  <2>1. ToSet(collected \o call.new) = {}
    BY <1>5, <1>6
  <2>2. \A l \in LaneType : ToSet(judged[l]) = {}
    BY <1>5, <1>6
  <2> QED
    BY <1>5, <2>1, <2>2 DEF ReturnsOnRecord, RecordedBeforeUse
<1>9. FruitlessPass
  BY <1>5 DEF FruitlessPass, ShortageMeansExhausted
<1>10. NeverTooMany
  <2>1. todo = lanes /\ todo # <<>> /\ Len(collected) = 0
    <3>1. Len(<<>>) = 0 /\ todo = lanes /\ collected = <<>>
      BY <1>5 DEF RetrievalInit
    <3>2. Len(lanes) # 0
      BY <1>2
    <3> QED
      BY <3>1, <3>2
  <2>2. StillWanted <= target
    BY <1>1, <1>2, <2>1, InitialShares DEF StillWanted
  <2>3. StillWanted \in Nat
    <3>1. 1 \in 1..Len(lanes) /\ (Len(lanes) = 2 => 2 \in 1..Len(lanes))
      <4>1. \A n \in {1, 2} : 1 \in 1..n /\ (n = 2 => 2 \in 1..n)
        OBVIOUS
      <4> QED
        BY <1>2, <4>1
    <3> QED
      BY <1>1, <1>2, <2>1, <3>1, InitialShares DEF StillWanted
  <2> QED
    BY <1>2, <1>5, <2>1, <2>2, <2>3 DEF NeverTooMany, InCall
<1> QED
  BY <1>1, <1>3, <1>4, <1>7, <1>8, <1>9, <1>10 DEF RetrievalInv, SearchTyped

----------------------------------------------------------------------------
(* What a page brings, and how a gap is spread over cities.                *)

LEMMA TimesIsNat == \A i, j \in Nat : i * j \in Nat
  OBVIOUS

LEMMA PageIs ==
    ASSUME SearchTyped, at = "fetch"
    PROVE  /\ Page \in Seq(Candidate) /\ Len(Page) <= tool.want - Len(tool.new)
           /\ call.lane \in LaneType
<1>1. /\ call.lane \in LaneType /\ tool.city \in Where /\ tool.page \in Nat \ {0}
      /\ tool.want \in Nat /\ Len(tool.new) \in Nat /\ Len(tool.new) < tool.want
  <2>1. todo # <<>> /\ todo \in Seq(LaneType) /\ call.lane = Head(todo)
    BY DEF SearchTyped, CallTypes, LoopTypes, InCall
  <2>2. tool \in Tools /\ Len(tool.new) < tool.want
    BY DEF SearchTyped, CallTypes
  <2>3. tool.new \in Seq(Candidate) /\ tool.city \in Where /\ tool.want \in Nat /\ tool.page \in 1..(MaxPages + 1)
    BY <2>2 DEF Tools
  <2> QED
    BY <2>1, <2>2, <2>3, RetrievalAssumption
<1> DEFINE held == Holding[call.lane][tool.city]
           size == tool.want - Len(tool.new)
           from == (tool.page - 1) * size
           last == IF from + size < Len(held) THEN from + size ELSE Len(held)
<1>2. held \in Seq(Candidate) /\ Len(held) \in Nat
  BY <1>1, RetrievalAssumption
<1>3. size \in Nat /\ from \in Nat
  <2>1. size \in Nat /\ tool.page - 1 \in Nat
    BY <1>1
  <2> HIDE DEF size
  <2> QED
    BY <2>1, TimesIsNat
<1>4. Page = SubSeq(held, from + 1, last)
  BY DEF Page, PageOf
<1> HIDE DEF held, size, from
<1>5. last \in Int /\ last <= Len(held) /\ last <= from + size
  BY <1>2, <1>3
<1> HIDE DEF last
<1>6. \A i \in (from + 1)..last : held[i] \in Candidate
  BY <1>2, <1>3, <1>5
<1>7. SubSeq(held, from + 1, last) \in Seq(Candidate) /\ Len(SubSeq(held, from + 1, last)) <= size
  BY <1>2, <1>3, <1>5, <1>6
<1> QED
  BY <1>1, <1>4, <1>7 DEF size

LEMMA AfterPageIs ==
    ASSUME SearchTyped, at = "fetch", NEW t, t = AfterPage(Page)
    PROVE  /\ t \in Tools /\ t.want = tool.want /\ t.city = tool.city /\ Len(t.new) <= t.want
           /\ t.page = tool.page + 1 /\ t.attempts = tool.attempts + 1
           /\ ToSet(t.new) \subseteq ToSet(tool.new) \cup ToSet(Page)
           /\ ToSet(tool.new) \cap Counted = {} => ToSet(t.new) \cap Counted = {}
           /\ IsInjective(tool.new) => IsInjective(t.new)
<1> DEFINE fresh == FreshOf(Page, Counted \cup ToSet(tool.new))
<1>1. Page \in Seq(Candidate) /\ Len(Page) <= tool.want - Len(tool.new)
  BY PageIs
<1>2. /\ fresh \in Seq(Candidate) /\ Len(fresh) <= Len(Page) /\ IsInjective(fresh)
      /\ ToSet(fresh) \subseteq ToSet(Page) \ (Counted \cup ToSet(tool.new))
  BY <1>1, FreshIs
<1> HIDE DEF fresh
<1>3. /\ tool \in Tools /\ tool.page <= MaxPages /\ tool.attempts < MaxAttempts
      /\ MaxPages \in Nat /\ MaxAttempts \in Nat
  BY RetrievalAssumption DEF SearchTyped, CallTypes
<1>4. t = [tool EXCEPT !.attempts = @ + 1, !.page = @ + 1, !.raw = @ + Len(Page),
                       !.new = @ \o fresh, !.zero = IF fresh = <<>> THEN @ + 1 ELSE 0]
  BY DEF AfterPage, fresh
<1>5. /\ t.new = tool.new \o fresh /\ t.page = tool.page + 1 /\ t.attempts = tool.attempts + 1
      /\ t.want = tool.want /\ t.city = tool.city
  BY <1>3, <1>4 DEF Tools
<1>6. tool.new \in Seq(Candidate) /\ tool.want \in Nat /\ Len(tool.new) \in Nat
  BY <1>3 DEF Tools
<1>7. /\ t.new \in Seq(Candidate) /\ Len(t.new) = Len(tool.new) + Len(fresh)
      /\ ToSet(t.new) = ToSet(tool.new) \cup ToSet(fresh)
  BY <1>2, <1>5, <1>6, ToSetJoins
<1>8. t \in Tools
  <2>1. /\ tool.page \in 1..(MaxPages + 1) /\ tool.attempts \in 0..MaxAttempts /\ tool.raw \in Nat
        /\ tool.zero \in Nat /\ tool.city \in Where
    BY <1>3 DEF Tools
  <2>2. tool.page + 1 \in 1..(MaxPages + 1) /\ tool.attempts + 1 \in 0..MaxAttempts
    BY <1>3, <2>1
  <2>4. Len(Page) \in Nat
    BY <1>1
  <2>5. tool.raw + Len(Page) \in Nat /\ (IF fresh = <<>> THEN tool.zero + 1 ELSE 0) \in Nat
    BY <2>1, <2>4
  <2>3. tool.new \o fresh \in Seq(Candidate)
    BY <1>5, <1>7
  <2> QED
    BY <1>3, <1>4, <1>6, <2>1, <2>2, <2>3, <2>5 DEF Tools
<1>9. Len(t.new) <= t.want
  BY <1>1, <1>2, <1>5, <1>6, <1>7
<1>10. IsInjective(tool.new) => IsInjective(t.new)
  BY <1>2, <1>5, <1>6, InjectionsJoin
<1> QED
  BY <1>2, <1>5, <1>7, <1>8, <1>9, <1>10

\* The wants of a batch: p of them q + 1, those behind q, and the gap in sum.
Splits(batch, gap) ==
    \E q, p \in Nat :
        /\ p <= Len(batch) /\ Len(batch) * q + p = gap
        /\ \A i \in 1..Len(batch) : batch[i].want = q + (IF i <= p THEN 1 ELSE 0)

LEMMA Division == \A g \in Nat, n \in Nat \ {0} :
    /\ g \div n \in Nat /\ g % n \in 0..(n - 1) /\ g = n * (g \div n) + (g % n)
    /\ g < n => g \div n = 0 /\ g % n = g
    /\ g >= n => g \div n >= 1
<1> TAKE g \in Nat, n \in Nat \ {0}
<1>1. g \div n \in Nat /\ g % n \in 0..(n - 1) /\ g = n * (g \div n) + (g % n)
  OBVIOUS
<1>2. g < n => g \div n = 0 /\ g % n = g
  BY <1>1
<1>3. g >= n => g \div n >= 1
  BY <1>1
<1> QED
  BY <1>1, <1>2, <1>3

LEMMA BalancedIs ==
    ASSUME NEW cities \in Seq(City), NEW gap \in Nat \ {0}
    PROVE  LET b == BalancedTargets(cities, gap)
           IN  b \in Seq(Orders) /\ (b # <<>> => Splits(b, gap))
<1> DEFINE n == Len(cities)
           m == IF gap < n THEN gap ELSE n
           b == [i \in 1..m |-> [city |-> cities[i], want |-> gap \div n + (IF i <= gap % n THEN 1 ELSE 0)]]
<1>1. CASE n = 0
  BY <1>1 DEF BalancedTargets
<1>2. CASE n # 0
  <2>1. n \in Nat \ {0} /\ m \in Nat \ {0} /\ m <= n /\ m <= gap
    BY <1>2
  <2>2. BalancedTargets(cities, gap) = b
    BY <1>2 DEF BalancedTargets
  <2>3. /\ gap \div n \in Nat /\ gap % n \in 0..(n - 1) /\ gap = n * (gap \div n) + (gap % n)
        /\ gap < n => gap \div n = 0 /\ gap % n = gap
        /\ gap >= n => gap \div n >= 1
    BY <2>1, Division
  <2>4. \A i \in 1..m : cities[i] \in Where
    BY <2>1 DEF Where
  <2>5. gap < n => m = gap
    OBVIOUS
  <2>6. gap >= n => m = n
    BY <2>1
  <2> DEFINE q == gap \div n
             p == gap % n
  <2> HIDE DEF n, m, q, p
  <2>7. \A i \in 1..m : q + (IF i <= p THEN 1 ELSE 0) \in Nat \ {0}
    BY <2>1, <2>3, <2>5, <2>6 DEF q, p
  <2>8. b \in Seq(Orders) /\ Len(b) = m /\ \A i \in 1..m : b[i].want = q + (IF i <= p THEN 1 ELSE 0)
    BY <2>1, <2>4, <2>7 DEF q, p, Orders
  <2>9. q \in Nat /\ p \in Nat /\ p <= m /\ m * q + p = gap
    <3>1. CASE gap < n
      BY <2>1, <2>3, <2>5, <3>1 DEF q, p
    <3>2. CASE gap >= n
      BY <2>1, <2>3, <2>6, <3>2 DEF q, p
    <3> QED
      BY <2>1, <3>1, <3>2
  <2> HIDE DEF b
  <2> QED
    BY <2>2, <2>8, <2>9 DEF Splits
<1> QED
  BY <1>1, <1>2


\* The next dispatches share out what the call is short of, and there are none
\* when it is stopped or has all it wants.  With one place there is at most one.
LEMMA NextBatchIs ==
    ASSUME SearchTyped, at = "plan"
    PROVE  /\ NextBatch \in Seq(Orders)
           /\ NextBatch # <<>> => call.want - Len(call.new) > 0
           /\ NextBatch # <<>> => Splits(NextBatch, call.want - Len(call.new))
           /\ NextBatch # <<>> /\ OnePlace => call.first # <<>> /\ Len(NextBatch) = 1
<1> DEFINE gap == call.want - Len(call.new)
           keep == {i \in DOMAIN places.balanced : ~asked[call.lane][places.balanced[i]].done}
           active == Picked(places.balanced, keep)
           one == <<[city |-> Head(call.first), want |-> gap]>>
<1>1. /\ places.balanced \in Seq(City) /\ call.first \in Seq(Where)
      /\ gap \in Int
  BY DEF SearchTyped, InputTypes, CallTypes, LocationPlans, Calls
<1>2. active \in Seq(City)
  <2>1. keep \in SUBSET (1..Len(places.balanced))
    BY <1>1
  <2> HIDE DEF keep
  <2> QED
    BY <1>1, <2>1, PickedIs
<1>3. NextBatch = IF call.stop \/ gap <= 0 THEN <<>>
                    ELSE IF call.first # <<>> THEN one
                    ELSE IF places.mode \in {"none", "single"} THEN <<>>
                    ELSE BalancedTargets(active, gap)
  BY DEF NextBatch
<1> HIDE DEF gap, active
<1>4. CASE NextBatch = <<>>
  BY <1>4
<1>5. CASE NextBatch # <<>>
  <2>1. gap \in Nat \ {0}
    <3>1. ~(call.stop \/ gap <= 0)
      BY <1>3, <1>5
    <3> QED
      BY <1>1, <3>1
  <2>2. CASE call.first # <<>>
    <3>1. NextBatch = one
      <4>1. ~(call.stop \/ gap <= 0)
        BY <1>3, <1>5
      <4> QED
        BY <1>3, <4>1, <2>2
    <3>2. Head(call.first) \in Where
      BY <1>1, <2>2
    <3>3. one \in Seq(Orders) /\ Len(one) = 1 /\ one[1].want = gap
      BY <2>1, <3>2 DEF Orders
    <3>4. Splits(one, gap)
      <4>1. /\ 0 <= Len(one) /\ Len(one) * gap + 0 = gap
            /\ \A i \in 1..Len(one) : one[i].want = gap + (IF i <= 0 THEN 1 ELSE 0)
        BY <2>1, <3>3
      <4>2. 0 \in Nat /\ gap \in Nat
        BY <2>1
      <4> QED
        BY <4>1, <4>2 DEF Splits
    <3> QED
      BY <2>1, <2>2, <3>1, <3>3, <3>4 DEF gap
  <2>3. CASE call.first = <<>>
    <3>1. ~(places.mode \in {"none", "single"}) /\ NextBatch = BalancedTargets(active, gap)
      <4>1. ~(call.stop \/ gap <= 0)
        BY <1>3, <1>5
      <4> QED
        BY <1>3, <1>5, <4>1, <2>3
    <3>2. BalancedTargets(active, gap) \in Seq(Orders)
          /\ (BalancedTargets(active, gap) # <<>> => Splits(BalancedTargets(active, gap), gap))
      BY <1>2, <2>1, BalancedIs
    <3> QED
      BY <1>5, <2>1, <3>1, <3>2 DEF gap, OnePlace
  <2> QED
    BY <2>2, <2>3
<1> QED
  BY <1>4, <1>5, EmptySequence

----------------------------------------------------------------------------
(* Steps.                                                                  *)

LEMMA ShortSequences ==
    ASSUME NEW S, NEW s \in Seq(S)
    PROVE  /\ Len(s) = 1 => Head(s) = s[1] /\ Tail(s) = <<>> /\ s # <<>>
           /\ Len(s) = 2 => /\ Head(s) = s[1] /\ s # <<>> /\ Tail(s) \in Seq(S) /\ Len(Tail(s)) = 1
                            /\ Tail(s)[1] = s[2] /\ Tail(s) # <<>>
<1>1. Head(s) = s[1] /\ (s # <<>> => Tail(s) \in Seq(S) /\ Len(Tail(s)) = Len(s) - 1) /\ Len(<<>>) = 0
  OBVIOUS
<1>2. \A t \in Seq(S) : Len(t) = 0 => t = <<>>
  OBVIOUS
<1>3. \A i \in 1..Len(Tail(s)) : s # <<>> => Tail(s)[i] = s[i + 1]
  OBVIOUS
<1>4. Len(s) \in Nat /\ (Len(s) > 0 => s # <<>>)
  BY <1>1
<1>5. CASE Len(s) = 1
  <2>1. s # <<>> /\ Tail(s) \in Seq(S) /\ Len(Tail(s)) = 0
    BY <1>1, <1>4, <1>5
  <2>2. Tail(s) = <<>>
    BY <1>2, <2>1
  <2>3. Head(s) = s[1]
    OBVIOUS
  <2> QED
    BY <1>5, <2>1, <2>2, <2>3
<1>6. CASE Len(s) = 2
  <2>1. s # <<>> /\ Tail(s) \in Seq(S) /\ Len(Tail(s)) = 1
    BY <1>1, <1>4, <1>6
  <2>2. 1 \in 1..Len(Tail(s)) /\ Tail(s) # <<>>
    <3>1. Tail(s) = <<>> => Len(Tail(s)) = 0
      BY <1>1
    <3> QED
      BY <2>1, <3>1
  <2>3. Tail(s)[1] = s[1 + 1]
    BY <1>3, <2>1, <2>2
  <2> QED
    BY <1>1, <1>6, <2>1, <2>2, <2>3
<1> QED
  BY <1>5, <1>6

\* What the lanes of the first pass still have to bring is shared out lane by lane.
LEMMA StillWantedIs ==
    ASSUME SearchTyped, NeverTooMany, pass = "initial", todo # <<>>
    PROVE  /\ Wanted(Head(todo)) \in Nat
           /\ todo' = Tail(todo) /\ UNCHANGED inputs =>
                /\ todo' \in {lanes, Tail(lanes), <<>>}'
                /\ StillWanted' \in Nat /\ StillWanted = Wanted(Head(todo)) + StillWanted'
<1> DEFINE share == InitialTargets(lanes, target)
<1>1. lanes \in Seq(LaneType) /\ Len(lanes) \in {1, 2} /\ todo \in {lanes, Tail(lanes)}
  BY RetrievalAssumption DEF SearchTyped, InputTypes, NeverTooMany
<1>2. \A i \in 1..Len(lanes) : share[lanes[i]] \in Nat
  BY InitialShares DEF SearchTyped
<1>3. Wanted(Head(todo)) = share[Head(todo)]
  BY DEF Wanted
<1>4. UNCHANGED inputs => share' = share /\ lanes' = lanes
  BY DEF inputs, share
<1>5. StillWanted = IF todo = <<>> THEN 0
                    ELSE IF Len(todo) = 1 THEN share[todo[1]] ELSE share[todo[1]] + share[todo[2]]
  BY DEF StillWanted
<1>6. ASSUME UNCHANGED inputs
      PROVE  StillWanted' = IF todo' = <<>> THEN 0
                    ELSE IF Len(todo') = 1 THEN share[todo'[1]] ELSE share[todo'[1]] + share[todo'[2]]
  BY <1>6 DEF StillWanted, inputs, share
<1> HIDE DEF share
<1>7. \A n \in {1, 2} : 1 \in 1..n /\ (n = 2 => 2 \in 1..n)
  OBVIOUS
<1>8. CASE Len(lanes) = 1
  <2>1. Tail(lanes) = <<>> /\ Head(lanes) = lanes[1]
    BY <1>1, <1>8, ShortSequences
  <2>2. todo = lanes /\ share[lanes[1]] \in Nat
    BY <1>1, <1>2, <1>7, <2>1
  <2>3. StillWanted = share[lanes[1]] /\ Wanted(Head(todo)) = share[lanes[1]]
    BY <1>3, <1>5, <1>8, <2>1, <2>2
  <2>4. todo' = Tail(todo) /\ UNCHANGED inputs => todo' = <<>> /\ StillWanted' = 0
    BY <1>6, <2>1, <2>2
  <2> QED
    BY <2>2, <2>3, <2>4
<1>9. CASE Len(lanes) = 2
  <2>1. /\ Head(lanes) = lanes[1] /\ Tail(lanes) \in Seq(LaneType) /\ Len(Tail(lanes)) = 1
        /\ Tail(lanes)[1] = lanes[2]
    BY <1>1, <1>9, ShortSequences
  <2>2. Tail(Tail(lanes)) = <<>> /\ Head(Tail(lanes)) = lanes[2] /\ Tail(lanes) # <<>>
    BY <2>1, ShortSequences
  <2>3. share[lanes[1]] \in Nat /\ share[lanes[2]] \in Nat
    BY <1>1, <1>2, <1>7, <1>9
  <2>4. CASE todo = lanes
    <3>1. StillWanted = share[lanes[1]] + share[lanes[2]] /\ Wanted(Head(todo)) = share[lanes[1]]
      BY <1>3, <1>5, <1>9, <2>1, <2>4
    <3>2. todo' = Tail(todo) /\ UNCHANGED inputs => todo' = Tail(lanes) /\ StillWanted' = share[lanes[2]]
      BY <1>6, <2>1, <2>2, <2>4
    <3> QED
      BY <1>4, <2>3, <3>1, <3>2
  <2>5. CASE todo = Tail(lanes)
    <3>1. StillWanted = share[lanes[2]] /\ Wanted(Head(todo)) = share[lanes[2]]
      BY <1>3, <1>5, <2>1, <2>2, <2>5
    <3>2. todo' = Tail(todo) /\ UNCHANGED inputs => todo' = <<>> /\ StillWanted' = 0
      BY <1>6, <2>2, <2>5
    <3> QED
      BY <2>3, <3>1, <3>2
  <2> QED
    BY <1>1, <2>4, <2>5
<1> QED
  BY <1>1, <1>8, <1>9

LEMMA WantedIs ==
    ASSUME SearchTyped, NeverTooMany, todo # <<>>
    PROVE  Wanted(Head(todo)) \in Int /\ Gap \in Int /\ Head(todo) \in LaneType /\ Tail(todo) \in Seq(LaneType)
<1>1. target \in Nat /\ collected \in Seq(Candidate) /\ todo \in Seq(LaneType) /\ pass \in {"initial", "refill"}
  BY RetrievalAssumption DEF SearchTyped, InputTypes, LoopTypes
<1>2. Gap \in Int
  BY <1>1 DEF Gap
<1>3. pass = "initial" => Wanted(Head(todo)) \in Nat
  BY StillWantedIs
<1>4. pass # "initial" => Wanted(Head(todo)) = Gap
  BY DEF Wanted
<1> QED
  BY <1>1, <1>2, <1>3, <1>4

LEMMA LabelsAre == ASSUME NEW raw, NEW new, NEW other PROVE OutcomeLabels(raw, new, other) \in SUBSET Bad
BY DEF OutcomeLabels, Bad

LEMMA InputsStay ==
    ASSUME RetrievalNext PROVE UNCHANGED inputs
BY DEF RetrievalNext, SkipLane, BeginCollect, EndPass, SendBatch, EndCollect, Dispatch, FetchAndGoOn,
       FetchAndStop, FetchFails, ScoreDispatch, ScoreFails

LEMMA CallIs ==
    ASSUME SearchTyped, InCall
    PROVE  /\ call.lane \in LaneType /\ call.lane = Head(todo) /\ todo # <<>> /\ call \in Calls /\ tool \in Tools
           /\ call.want \in Nat /\ call.new \in Seq(Candidate) /\ call.first \in Seq(Where)
           /\ call.queue \in Seq(Orders) /\ call.stop \in BOOLEAN
           /\ tool.city \in Where /\ tool.want \in Nat /\ tool.page \in 1..(MaxPages + 1)
           /\ tool.attempts \in 0..MaxAttempts /\ tool.new \in Seq(Candidate)
           /\ Len(tool.new) \in Nat /\ Len(call.new) \in Nat
<1>1. todo # <<>> /\ todo \in Seq(LaneType) /\ call.lane = Head(todo)
  BY DEF SearchTyped, CallTypes, LoopTypes
<1>2. call \in Calls /\ tool \in Tools
  BY DEF SearchTyped, CallTypes
<1>3. /\ call.want \in Nat /\ call.new \in Seq(Candidate) /\ call.first \in Seq(Where)
      /\ call.queue \in Seq(Orders) /\ call.stop \in BOOLEAN
  BY <1>2 DEF Calls
<1>4. /\ tool.city \in Where /\ tool.want \in Nat /\ tool.page \in 1..(MaxPages + 1)
      /\ tool.attempts \in 0..MaxAttempts /\ tool.new \in Seq(Candidate)
  BY <1>2 DEF Tools
<1> QED
  BY <1>1, <1>2, <1>3, <1>4

\* Between two dispatches there is no tool, between two calls no call either.
LEMMA NothingAtWork == ASSUME RetrievalAssumption PROVE NoCall \in Calls /\ NoTool \in Tools
<1>1. \A T : <<>> \in Seq(T)
  OBVIOUS
<1>2. MaxPages \in Nat \ {0} /\ MaxAttempts \in Nat \ {0}
  BY RetrievalAssumption
<1> QED
  BY <1>1, <1>2 DEF NoCall, NoTool, Calls, Tools, Where

LEMMA TypesStayBetweenCalls ==
    ASSUME SearchTyped, NeverTooMany, SkipLane \/ BeginCollect \/ EndPass \/ EndCollect
    PROVE  LoopTypes' /\ CallTypes'
<1>1. NoCall \in Calls /\ NoTool \in Tools
  BY NothingAtWork, RetrievalAssumption
<1>2. CASE SkipLane
  <2>1. todo # <<>> /\ Tail(todo) \in Seq(LaneType) /\ at = "pick"
    BY <1>2, WantedIs DEF SkipLane
  <2>2. LoopTypes'
    BY <1>2, <2>1 DEF SkipLane, SearchTyped, LoopTypes, laneVars
  <2>3. CallTypes'
    BY <1>2, <2>1 DEF SkipLane, SearchTyped, CallTypes, InCall
  <2> QED
    BY <2>2, <2>3
<1>3. CASE BeginCollect
  <2>1. todo # <<>> /\ at = "pick" /\ at' = "plan" /\ tool' = tool /\ todo' = todo
    BY <1>3 DEF BeginCollect
  <2>2. Wanted(Head(todo)) \in Nat /\ Head(todo) \in LaneType
    BY <1>3, <2>1, WantedIs DEF BeginCollect, Skipped
  <2>3. FirstPlaces \in Seq(Where)
    <3>1. places.balanced \in Seq(City) /\ places.priority \in Seq(City)
      BY DEF SearchTyped, InputTypes, LocationPlans
    <3>2. places.balanced \in Seq(Where) /\ places.priority \in Seq(Where) /\ <<Nowhere>> \in Seq(Where)
      BY <3>1 DEF Where
    <3> QED
      BY <3>2 DEF FirstPlaces
  <2>4. call' = [NoCall EXCEPT !.lane = Head(todo), !.want = Wanted(Head(todo)), !.first = FirstPlaces]
    BY <1>3 DEF BeginCollect
  <2>5. call' \in Calls /\ call'.lane = Head(todo) /\ call'.queue = <<>>
    BY <1>1, <2>2, <2>3, <2>4 DEF Calls, NoCall
  <2>6. tool = NoTool
    BY <2>1 DEF SearchTyped, CallTypes
  <2>7. CallTypes'
    BY <1>1, <2>1, <2>5, <2>6 DEF CallTypes, InCall
  <2>8. LoopTypes'
    BY <1>3 DEF BeginCollect, SearchTyped, LoopTypes, laneVars, Stages
  <2> QED
    BY <2>7, <2>8
<1>4. CASE EndPass
  <2>1. lanes \in Seq(LaneType) /\ at = "pick"
    BY <1>4, RetrievalAssumption DEF SearchTyped, InputTypes, EndPass
  <2>2. LoopTypes'
    BY <1>4, <2>1 DEF EndPass, SearchTyped, LoopTypes, laneVars, Stages
  <2>3. at' \in {"pick", "done"} /\ call' = call /\ tool' = tool
    BY <1>4, <2>1 DEF EndPass
  <2>4. CallTypes'
    BY <2>1, <2>3 DEF SearchTyped, CallTypes, InCall
  <2> QED
    BY <2>2, <2>4
<1>5. CASE EndCollect
  <2>1. at = "plan" /\ at' = "pick" /\ InCall
    BY <1>5 DEF EndCollect, InCall
  <2>2. call.new \in Seq(Candidate) /\ call.lane \in LaneType /\ todo # <<>> /\ Tail(todo) \in Seq(LaneType)
    BY <2>1, CallIs, WantedIs
  <2>3. CallTypes'
    BY <1>1, <1>5, <2>1 DEF EndCollect, CallTypes, InCall
  <2>4. collected' \in Seq(Candidate) /\ progressed' \in BOOLEAN
    BY <1>5, <2>2 DEF EndCollect, SearchTyped, LoopTypes
  <2>5. spent' \in [LaneType -> BOOLEAN]
    <3>1. spent \in [LaneType -> BOOLEAN] /\ spent' = [spent EXCEPT ![call.lane] = @ \/ Len(call.new) < call.want]
      BY <1>5 DEF EndCollect, SearchTyped, LoopTypes
    <3>2. (spent[call.lane] \/ Len(call.new) < call.want) \in BOOLEAN
      OBVIOUS
    <3> QED
      BY <2>2, <3>1, <3>2, Zenon
  <2>6. LoopTypes'
    BY <1>5, <2>1, <2>2, <2>4, <2>5 DEF EndCollect, SearchTyped, LoopTypes, Stages
  <2> QED
    BY <2>3, <2>6
<1> QED
  BY <1>2, <1>3, <1>4, <1>5

LEMMA TypesStayInCalls ==
    ASSUME SearchTyped, SendBatch \/ Dispatch \/ ScoreDispatch \/ FetchFails \/ ScoreFails
    PROVE  LoopTypes' /\ CallTypes'
<1>1. NoCall \in Calls /\ NoTool \in Tools
  BY NothingAtWork, RetrievalAssumption
<1>2. InCall
  BY DEF InCall, SendBatch, Dispatch, ScoreDispatch, FetchFails, ScoreFails
<1>3. CASE SendBatch
  <2>1. /\ at = "plan" /\ at' = "send" /\ NextBatch # <<>> /\ todo' = todo /\ tool' = tool
        /\ call' = [call EXCEPT !.queue = NextBatch, !.first = IF @ = <<>> THEN @ ELSE Tail(@)]
    BY <1>3 DEF SendBatch
  <2>2. NextBatch \in Seq(Orders)
    BY <2>1, NextBatchIs
  <2>3. (IF call.first = <<>> THEN call.first ELSE Tail(call.first)) \in Seq(Where)
    BY <1>2, CallIs
  <2> HIDE DEF NextBatch
  <2>4. call' \in Calls /\ call'.lane = call.lane /\ call'.queue = NextBatch
    BY <1>2, <2>1, <2>2, <2>3, CallIs DEF Calls
  <2>5. tool = NoTool
    BY <2>1 DEF SearchTyped, CallTypes
  <2>6. CallTypes'
    BY <1>1, <1>2, <2>1, <2>4, <2>5, CallIs DEF CallTypes, InCall
  <2>7. LoopTypes'
    BY <1>3 DEF SendBatch, SearchTyped, LoopTypes, laneVars, Stages
  <2> QED
    BY <2>6, <2>7
<1>4. CASE Dispatch
  <2> DEFINE d == Head(call.queue)
             been == asked[call.lane][d.city]
  <2>1. /\ at = "send" /\ todo' = todo /\ call' = [call EXCEPT !.queue = Tail(@)]
        /\ tool' = [NoTool EXCEPT !.city = d.city, !.want = d.want, !.page = been.page]
        /\ IF been.page > MaxPages
           THEN asked' = [asked EXCEPT ![call.lane][d.city] = [been EXCEPT !.done = TRUE]] /\ at' = "score"
           ELSE at' = "fetch" /\ asked' = asked
    BY <1>4 DEF Dispatch
  <2>2. d \in Orders /\ Tail(call.queue) \in Seq(Orders)
    <3>1. call.queue # <<>> /\ call.queue \in Seq(Orders)
      BY <1>2, <2>1, CallIs DEF SearchTyped, CallTypes
    <3> QED
      BY <3>1
  <2>3. d.city \in Where /\ d.want \in Nat \ {0}
    BY <2>2 DEF Orders
  <2> HIDE DEF d
  <2>4. been \in [page : 1..(MaxPages + 1), done : BOOLEAN] /\ call.lane \in LaneType
    BY <1>2, <2>3, CallIs DEF SearchTyped, LoopTypes
  <2>5. been.page \in 1..(MaxPages + 1) /\ MaxPages \in Nat
    BY <2>4, RetrievalAssumption
  <2> HIDE DEF been
  <2>6. tool' \in Tools /\ tool'.page = been.page /\ tool'.attempts = 0 /\ tool'.new = <<>> /\ tool'.want = d.want
    BY <1>1, <2>1, <2>3, <2>5 DEF NoTool, Tools
  <2>7. call' \in Calls /\ call'.lane = call.lane
    BY <1>2, <2>1, <2>2, CallIs DEF Calls
  <2>8. at' \in {"fetch", "score"} /\ (at' = "fetch" => been.page <= MaxPages)
    BY <2>1, <2>5
  <2>9. CallTypes'
    <3>1. MaxAttempts \in Nat \ {0} /\ Len(<<>>) = 0
      BY RetrievalAssumption
    <3>2. at' = "fetch" => tool'.page <= MaxPages /\ tool'.attempts < MaxAttempts /\ Len(tool'.new) < tool'.want
      BY <2>3, <2>6, <2>8, <3>1
    <3>3. (InCall => todo # <<>> /\ call.lane = Head(todo))'
      BY <1>2, <2>1, <2>7, CallIs
    <3> QED
      BY <2>6, <2>7, <2>8, <3>2, <3>3 DEF CallTypes
  <2>10. asked' \in [LaneType -> [Where -> [page : 1..(MaxPages + 1), done : BOOLEAN]]]
    <3>1. asked \in [LaneType -> [Where -> [page : 1..(MaxPages + 1), done : BOOLEAN]]]
      BY DEF SearchTyped, LoopTypes
    <3>2. CASE been.page > MaxPages
      <4>1. asked' = [asked EXCEPT ![call.lane][d.city] = [been EXCEPT !.done = TRUE]]
        BY <2>1, <3>2
      <4>2. [been EXCEPT !.done = TRUE] \in [page : 1..(MaxPages + 1), done : BOOLEAN]
        BY <2>4
      <4> DEFINE place == [been EXCEPT !.done = TRUE]
      <4>3. asked' = [asked EXCEPT ![call.lane][d.city] = place] /\ place \in [page : 1..(MaxPages + 1), done : BOOLEAN]
        BY <4>1, <4>2
      <4> HIDE DEF place
      <4> QED
        BY <2>3, <2>4, <3>1, <4>3
    <3> QED
      BY <2>1, <3>1, <3>2
  <2>11. LoopTypes'
    BY <1>4, <2>8, <2>10 DEF Dispatch, SearchTyped, LoopTypes, Stages
  <2> QED
    BY <2>9, <2>11
<1>5. CASE ScoreDispatch
  <2> DEFINE bad == OutcomeLabels(tool.raw, tool.new, judged'["exploit"])
             stop == ~RefillAllowed(call.lane, bad)
  <2>1. /\ at = "score" /\ todo' = todo /\ tool' = NoTool
        /\ labels' = [labels EXCEPT ![call.lane] = bad]
        /\ call' = [call EXCEPT !.stop = stop, !.queue = IF stop THEN <<>> ELSE @]
        /\ at' = IF call'.queue = <<>> THEN "plan" ELSE "send"
        /\ judged' = [judged EXCEPT ![call.lane] = @ \o tool.new]
    BY <1>5 DEF ScoreDispatch
  <2>2. bad \in SUBSET Bad /\ stop \in BOOLEAN
    BY LabelsAre
  <2> HIDE DEF bad, stop
  <2>3. call' \in Calls /\ call'.lane = call.lane
    <3>1. <<>> \in Seq(Orders)
      OBVIOUS
    <3> QED
      BY <1>2, <2>1, <2>2, <3>1, CallIs DEF Calls
  <2>4. CallTypes'
    <3>1. at' \in {"plan", "send"} /\ (at' = "plan" => call'.queue = <<>>) /\ (at' = "send" => call'.queue # <<>>)
      BY <2>1
    <3>2. (InCall => todo # <<>> /\ call.lane = Head(todo))'
      BY <1>2, <2>1, <2>3, CallIs
    <3> QED
      BY <1>1, <2>1, <2>3, <3>1, <3>2 DEF CallTypes
  <2>5. judged' \in [LaneType -> Seq(Candidate)]
    <3>1. judged \in [LaneType -> Seq(Candidate)] /\ judged[call.lane] \o tool.new \in Seq(Candidate)
      BY <1>2, CallIs DEF SearchTyped, LoopTypes
    <3> QED
      BY <2>1, <3>1
  <2>6. labels' \in [LaneType -> SUBSET Bad] /\ at' \in Stages
    BY <2>1, <2>2 DEF SearchTyped, LoopTypes, Stages
  <2>7. LoopTypes'
    BY <1>5, <2>5, <2>6 DEF ScoreDispatch, SearchTyped, LoopTypes
  <2> QED
    BY <2>4, <2>7
<1>6. CASE FetchFails \/ ScoreFails
  <2>1. at' = "failed" /\ UNCHANGED <<pass, progressed, todo, laneVars, collected, call, tool, pending, recorded>>
    BY <1>6 DEF FetchFails, ScoreFails
  <2>2. LoopTypes'
    BY <2>1 DEF SearchTyped, LoopTypes, laneVars, Stages
  <2>3. CallTypes'
    BY <2>1 DEF SearchTyped, CallTypes, InCall
  <2> QED
    BY <2>2, <2>3
<1> QED
  BY <1>3, <1>4, <1>5, <1>6

LEMMA TypesStayInFetches ==
    ASSUME SearchTyped, FetchAndGoOn \/ FetchAndStop
    PROVE  LoopTypes' /\ CallTypes'
<1> DEFINE t == AfterPage(Page)
<1>1. at = "fetch" /\ InCall /\ tool' = t /\ todo' = todo
  BY DEF FetchAndGoOn, FetchAndStop, InCall
<1>2. /\ t \in Tools /\ t.want = tool.want /\ t.city = tool.city /\ t.page = tool.page + 1
  BY <1>1, AfterPageIs
<1>3. Page \in Seq(Candidate) /\ ToSet(Page) \subseteq Candidate
  BY <1>1, PageIs, ToSetIs
<1>4. /\ t.page \in 1..(MaxPages + 1) /\ t.attempts \in 0..MaxAttempts /\ t.new \in Seq(Candidate)
      /\ t.want \in Nat /\ t.city \in Where /\ MaxPages \in Nat /\ MaxAttempts \in Nat /\ Len(t.new) \in Nat
  BY <1>2, RetrievalAssumption DEF Tools
<1> HIDE DEF t
<1>5. pending \cup ToSet(Page) \in SUBSET Candidate /\ recorded \cup pending \cup ToSet(Page) \in SUBSET Candidate
  BY <1>3 DEF SearchTyped, LoopTypes
<1>6. CASE FetchAndGoOn
  <2>1. ~ToolStops(t) /\ at' = at /\ call' = call /\ pending' = pending \cup ToSet(Page)
    BY <1>6 DEF FetchAndGoOn, t
  <2>2. t.page <= MaxPages /\ t.attempts < MaxAttempts /\ Len(t.new) < t.want
    BY <1>4, <2>1 DEF ToolStops
  <2>3. CallTypes'
    <3>1. (InCall => todo # <<>> /\ call.lane = Head(todo))' /\ call' \in Calls
      BY <1>1, <2>1, CallIs
    <3> QED
      BY <1>1, <1>2, <2>1, <2>2, <3>1 DEF CallTypes
  <2>4. LoopTypes'
    BY <1>5, <1>6, <2>1 DEF FetchAndGoOn, SearchTyped, LoopTypes, laneVars
  <2> QED
    BY <2>3, <2>4
<1>7. CASE FetchAndStop
  <2> DEFINE place == [page |-> t.page, done |-> asked[call.lane][t.city].done \/ Len(t.new) < t.want]
  <2>1. /\ at' = "score" /\ call' = [call EXCEPT !.new = @ \o t.new] /\ pending' = {}
        /\ recorded' = recorded \cup pending \cup ToSet(Page)
        /\ asked' = [asked EXCEPT ![call.lane][t.city] =
                        [page |-> t.page, done |-> @.done \/ Len(t.new) < t.want]]
    BY <1>7 DEF FetchAndStop, t
  <2>2. asked' \in [LaneType -> [Where -> [page : 1..(MaxPages + 1), done : BOOLEAN]]]
    <3>1. asked \in [LaneType -> [Where -> [page : 1..(MaxPages + 1), done : BOOLEAN]]] /\ call.lane \in LaneType
      BY <1>1, CallIs DEF SearchTyped, LoopTypes
    <3>2. place \in [page : 1..(MaxPages + 1), done : BOOLEAN]
      <4>1. (asked[call.lane][t.city].done \/ Len(t.new) < t.want) \in BOOLEAN
        OBVIOUS
      <4> QED
        BY <1>4, <4>1, Zenon
    <3>3. asked' = [asked EXCEPT ![call.lane][t.city] = place]
      BY <2>1, Zenon
    <3> HIDE DEF place
    <3> QED
      BY <1>4, <3>1, <3>2, <3>3
  <2>3. call' \in Calls /\ call'.lane = call.lane
    <3>1. call.new \o t.new \in Seq(Candidate)
      BY <1>1, <1>4, CallIs
    <3> QED
      BY <1>1, <2>1, <3>1, CallIs DEF Calls
  <2>4. CallTypes'
    <3>1. (InCall => todo # <<>> /\ call.lane = Head(todo))'
      BY <1>1, <2>1, <2>3, CallIs
    <3> QED
      BY <1>1, <1>2, <2>1, <2>3, <3>1 DEF CallTypes
  <2>5. LoopTypes'
    BY <1>5, <1>7, <2>1, <2>2 DEF FetchAndStop, SearchTyped, LoopTypes, Stages
  <2> QED
    BY <2>4, <2>5
<1> QED
  BY <1>6, <1>7

LEMMA TypesStay ==
    ASSUME SearchTyped, NeverTooMany, RetrievalNext PROVE SearchTyped'
<1>1. InputTypes'
  BY InputsStay DEF SearchTyped, InputTypes, inputs
<1>2. LoopTypes' /\ CallTypes'
  BY TypesStayBetweenCalls, TypesStayInCalls, TypesStayInFetches DEF RetrievalNext
<1> QED
  BY <1>1, <1>2 DEF SearchTyped

----------------------------------------------------------------------------
(* Nobody is in hand who is counted.                                       *)

LEMMA CountedStays == UNCHANGED <<inputs, collected>> => Counted' = Counted /\ OnePlace' = OnePlace
  BY DEF Counted, OnePlace, inputs

LEMMA NewStays ==
    ASSUME SearchTyped, NewInHand, RetrievalNext
    PROVE  NewInHand'
<1>0. known' = known /\ places' = places /\ UNCHANGED inputs /\ OnePlace' = OnePlace
  BY InputsStay DEF inputs, OnePlace
<1>1. ASSUME SkipLane \/ EndPass PROVE NewInHand'
  <2>1. at' \in {"pick", "done"} /\ collected' = collected /\ call' = call /\ tool' = tool
    BY <1>1 DEF SkipLane, EndPass
  <2>2. Counted' = Counted
    BY <1>0, <2>1, CountedStays
  <2> QED
    BY <1>0, <2>1, <2>2 DEF NewInHand
<1>2. ASSUME FetchFails \/ ScoreFails PROVE NewInHand'
  <2>1. at' = "failed" /\ collected' = collected /\ call' = call /\ tool' = tool
    BY <1>2 DEF FetchFails, ScoreFails
  <2>2. Counted' = Counted
    BY <1>0, <2>1, CountedStays
  <2> QED
    BY <1>0, <2>1, <2>2 DEF NewInHand
<1>3. ASSUME BeginCollect PROVE NewInHand'
  <2>1. at' = "plan" /\ collected' = collected /\ call'.new = <<>> /\ call'.first = FirstPlaces
        /\ tool' = tool
    BY <1>3 DEF BeginCollect, NoCall
  <2>2. Counted' = Counted
    BY <1>0, <2>1, CountedStays
  <2>3. OnePlace => Len(FirstPlaces) <= 1
    <3>1. Len(<<Nowhere>>) <= 1
      OBVIOUS
    <3>2. places.mode = "single" => Len(places.balanced) = 1
      BY DEF SearchTyped, InputTypes
    <3>7. \A n \in {1} : n <= 1
      OBVIOUS
    <3>3. places.mode = "none" => FirstPlaces = <<Nowhere>>
      BY DEF FirstPlaces
    <3>4. places.mode = "single" => FirstPlaces = places.balanced
      BY DEF FirstPlaces
    <3>5. places.mode = "single" => Len(FirstPlaces) <= 1
      BY <3>2, <3>4, <3>7, Zenon
    <3>6. places.mode = "none" => Len(FirstPlaces) <= 1
      BY <3>1, <3>3
    <3> QED
      BY <3>5, <3>6 DEF OnePlace
  <2>4. ToSet(<<>>) = {} /\ IsInjective(<<>>)
    BY EmptySequence
  <2> QED
    BY <1>0, <2>1, <2>2, <2>3, <2>4 DEF NewInHand
<1>4. ASSUME SendBatch PROVE NewInHand'
  <2>1. /\ at = "plan" /\ at' = "send" /\ collected' = collected /\ NextBatch # <<>>
        /\ call' = [call EXCEPT !.queue = NextBatch, !.first = IF @ = <<>> THEN @ ELSE Tail(@)]
        /\ tool' = tool
    BY <1>4 DEF SendBatch
  <2>2. Counted' = Counted
    BY <1>0, <2>1, CountedStays
  <2>3. call \in Calls /\ call.first \in Seq(Where)
    BY <2>1, CallIs DEF InCall
  <2>4. OnePlace => call.first # <<>> /\ Len(NextBatch) = 1
    BY <2>1, NextBatchIs
  <2> HIDE DEF NextBatch
  <2>5. call'.new = call.new /\ call'.queue = NextBatch
        /\ call'.first = IF call.first = <<>> THEN <<>> ELSE Tail(call.first)
    BY <2>1, <2>3 DEF Calls
  <2>6. OnePlace => call'.first = <<>> /\ call'.new = <<>> /\ Len(call'.queue) = 1
    <3>1. ASSUME OnePlace PROVE Len(call.first) <= 1 /\ call.new = <<>> /\ call.first # <<>>
      BY <2>1, <2>4, <3>1 DEF NewInHand
    <3>2. OnePlace => Tail(call.first) = <<>>
      <4>1. OnePlace => Len(call.first) = 1
        <5>1. Len(call.first) \in Nat /\ (Len(call.first) = 0 => call.first = <<>>)
          BY <2>3
        <5>2. \A n \in Nat : n <= 1 => n \in {0, 1}
          OBVIOUS
        <5>3. OnePlace => Len(call.first) <= 1 /\ Len(call.first) # 0
          BY <3>1, <5>1
        <5> QED
          BY <5>1, <5>2, <5>3
      <4> QED
        BY <2>3, <4>1, ShortSequences
    <3> QED
      BY <2>4, <2>5, <3>1, <3>2
  <2> QED
    BY <1>0, <2>1, <2>2, <2>5, <2>6 DEF NewInHand
<1>5. ASSUME EndCollect PROVE NewInHand'
  <2>1. /\ at = "plan" /\ at' = "pick" /\ collected' = collected \o call.new /\ call'.new = <<>>
    BY <1>5 DEF EndCollect, NoCall
  <2>0. tool'.new = <<>>
    BY <1>5 DEF EndCollect, NoTool
  <2>2. call.new \in Seq(Candidate) /\ collected \in Seq(Candidate)
    BY <2>1, CallIs DEF InCall, SearchTyped, LoopTypes
  <2>3. ToSet(collected') = ToSet(collected) \cup ToSet(call.new)
    BY <2>1, <2>2, ToSetJoins
  <2>4. known' \cap ToSet(collected') = {}
    BY <1>0, <2>3 DEF NewInHand, Counted
  <2>5. OnePlace => IsInjective(collected')
    <3>1. ToSet(collected) \cap ToSet(call.new) = {}
      BY DEF NewInHand, Counted
    <3> QED
      BY <2>1, <2>2, <3>1, InjectionsJoin DEF NewInHand
  <2>6. ToSet(<<>>) = {} /\ IsInjective(<<>>)
    BY EmptySequence
  <2> QED
    BY <1>0, <2>0, <2>1, <2>4, <2>5, <2>6 DEF NewInHand
<1>6. ASSUME Dispatch PROVE NewInHand'
  <2>1. /\ at = "send" /\ at' \in {"fetch", "score"} /\ collected' = collected
        /\ call' = [call EXCEPT !.queue = Tail(@)]
    BY <1>6 DEF Dispatch
  <2>2. tool'.new = <<>>
    BY <1>6 DEF Dispatch, NoTool
  <2>3. Counted' = Counted
    BY <1>0, <2>1, CountedStays
  <2>4. call \in Calls /\ call.queue \in Seq(Orders)
    BY <2>1, CallIs DEF InCall
  <2>5. call'.new = call.new /\ call'.first = call.first /\ call'.queue = Tail(call.queue)
    BY <2>1, <2>4 DEF Calls
  <2>6. OnePlace => call.new = <<>> /\ call.first = <<>> /\ Tail(call.queue) = <<>>
    <3>1. OnePlace => call.new = <<>> /\ call.first = <<>> /\ Len(call.queue) = 1
      BY <2>1 DEF NewInHand
    <3> QED
      BY <2>4, <3>1, ShortSequences
  <2>7. ToSet(<<>>) = {} /\ IsInjective(<<>>)
    BY EmptySequence
  <2> QED
    BY <1>0, <2>1, <2>2, <2>3, <2>5, <2>6, <2>7 DEF NewInHand
<1>7. ASSUME FetchAndGoOn PROVE NewInHand'
  <2>1. at = "fetch" /\ at' = at /\ collected' = collected /\ call' = call /\ tool' = AfterPage(Page)
    BY <1>7 DEF FetchAndGoOn
  <2>2. Counted' = Counted
    BY <1>0, <2>1, CountedStays
  <2>3. ToSet(tool'.new) \cap Counted = {} /\ IsInjective(tool'.new)
    BY <2>1, AfterPageIs DEF NewInHand
  <2> QED
    BY <1>0, <2>1, <2>2, <2>3 DEF NewInHand
<1>8. ASSUME FetchAndStop PROVE NewInHand'
  <2> DEFINE t == AfterPage(Page)
  <2>1. at = "fetch" /\ at' = "score" /\ collected' = collected /\ call' = [call EXCEPT !.new = @ \o t.new]
        /\ tool' = t
    BY <1>8 DEF FetchAndStop
  <2>2. Counted' = Counted
    BY <1>0, <2>1, CountedStays
  <2>3. ToSet(t.new) \cap Counted = {} /\ IsInjective(t.new) /\ t \in Tools
    BY <2>1, AfterPageIs DEF NewInHand
  <2> HIDE DEF t
  <2>4. call \in Calls /\ call.new \in Seq(Candidate) /\ t.new \in Seq(Candidate)
    BY <2>1, <2>3, CallIs DEF InCall, Tools
  <2>5. call'.new = call.new \o t.new /\ call'.first = call.first /\ call'.queue = call.queue
    BY <2>1, <2>4 DEF Calls
  <2>6. ToSet(call'.new) = ToSet(call.new) \cup ToSet(t.new)
    BY <2>4, <2>5, ToSetJoins
  <2>7. ToSet(call'.new) \cap Counted = {}
    BY <2>3, <2>6 DEF NewInHand
  <2>8. OnePlace => call'.new = t.new
    <3>1. OnePlace => call.new = <<>>
      BY <2>1 DEF NewInHand
    <3>2. <<>> \o t.new = t.new
      BY <2>4
    <3> QED
      BY <2>5, <3>1, <3>2
  <2> QED
    BY <1>0, <2>1, <2>2, <2>3, <2>5, <2>7, <2>8 DEF NewInHand
<1>9. ASSUME ScoreDispatch PROVE NewInHand'
  <2> DEFINE stop == ~RefillAllowed(call.lane, OutcomeLabels(tool.raw, tool.new, judged'["exploit"]))
  <2>1. /\ at = "score" /\ collected' = collected
        /\ call' = [call EXCEPT !.stop = stop, !.queue = IF stop THEN <<>> ELSE @]
        /\ at' = IF call'.queue = <<>> THEN "plan" ELSE "send"
    BY <1>9 DEF ScoreDispatch
  <2>0. tool'.new = <<>> /\ IsInjective(<<>>)
    BY <1>9, EmptySequence DEF ScoreDispatch, NoTool
  <2> HIDE DEF stop
  <2>2. Counted' = Counted
    BY <1>0, <2>1, CountedStays
  <2>3. call \in Calls
    BY <2>1, CallIs DEF InCall
  <2>4. call'.new = call.new /\ call'.first = call.first /\ (call.queue = <<>> => call'.queue = <<>>)
    BY <2>1, <2>3 DEF Calls
  <2>5. at' \in {"plan", "send"} /\ (call'.queue = <<>> => at' = "plan")
    BY <2>1
  <2>6. OnePlace => at' = "plan" /\ call'.first = <<>>
    BY <2>1, <2>4, <2>5 DEF NewInHand
  <2>7. Len(<<>>) = 0
    OBVIOUS
  <2> QED
    BY <1>0, <2>0, <2>2, <2>1, <2>4, <2>5, <2>6, <2>7 DEF NewInHand
<1> QED
  BY <1>1, <1>2, <1>3, <1>4, <1>5, <1>6, <1>7, <1>8, <1>9 DEF RetrievalNext

----------------------------------------------------------------------------
(* Nobody is used who is not on record.                                    *)

OnRecord == /\ ToSet(collected) \subseteq recorded /\ ToSet(call.new) \subseteq recorded
            /\ \A l \in LaneType : ToSet(judged[l]) \subseteq recorded

LEMMA RecordedIs == SearchTyped => (RecordedBeforeUse <=> OnRecord)
<1> SUFFICES ASSUME SearchTyped PROVE RecordedBeforeUse <=> OnRecord
  OBVIOUS
<1>1. call.new \in Seq(Candidate) /\ collected \in Seq(Candidate)
  BY DEF SearchTyped, LoopTypes, CallTypes, Calls
<1>2. ToSet(collected \o call.new) = ToSet(collected) \cup ToSet(call.new)
  BY <1>1, ToSetJoins
<1> QED
  BY <1>2 DEF RecordedBeforeUse, OnRecord

LEMMA RecordStays ==
    ASSUME SearchTyped, SearchTyped', ReturnsOnRecord, RetrievalNext
    PROVE  ReturnsOnRecord'
<1> USE DEF ReturnsOnRecord
<1>0. OnRecord /\ (RecordedBeforeUse' <=> OnRecord')
  <2>1. RecordedBeforeUse' <=> OnRecord'
    BY RecordedIs, PTL
  <2> QED
    BY <2>1, RecordedIs
<1>1. ASSUME SkipLane \/ EndPass \/ FetchFails \/ ScoreFails PROVE ReturnsOnRecord'
  <2>1. /\ at' \notin {"fetch", "score"}
        /\ UNCHANGED <<laneVars, collected, call, recorded>>
    BY <1>1 DEF SkipLane, EndPass, FetchFails, ScoreFails
  <2> QED
    BY <1>0, <2>1 DEF OnRecord, laneVars
<1>2. ASSUME BeginCollect PROVE ReturnsOnRecord'
  <2>1. at' = "plan" /\ UNCHANGED <<laneVars, collected, recorded>> /\ call'.new = <<>>
    BY <1>2 DEF BeginCollect, NoCall
  <2> QED
    BY <1>0, <2>1, EmptySequence DEF OnRecord, laneVars
<1>3. ASSUME SendBatch PROVE ReturnsOnRecord'
  <2>1. /\ at = "plan" /\ at' = "send" /\ UNCHANGED <<laneVars, collected, recorded>>
        /\ call' = [call EXCEPT !.queue = NextBatch, !.first = IF @ = <<>> THEN @ ELSE Tail(@)]
    BY <1>3 DEF SendBatch
  <2> HIDE DEF NextBatch
  <2>2. call'.new = call.new
    BY <2>1, CallIs DEF InCall, Calls
  <2> QED
    BY <1>0, <2>1, <2>2 DEF OnRecord, laneVars
<1>4. ASSUME EndCollect PROVE ReturnsOnRecord'
  <2>1. /\ at = "plan" /\ at' = "pick" /\ judged' = judged /\ recorded' = recorded
        /\ collected' = collected \o call.new /\ call'.new = <<>>
    BY <1>4 DEF EndCollect, NoCall
  <2>2. call.new \in Seq(Candidate) /\ collected \in Seq(Candidate)
    BY <2>1, CallIs DEF InCall, SearchTyped, LoopTypes
  <2>3. ToSet(collected') = ToSet(collected) \cup ToSet(call.new)
    BY <2>1, <2>2, ToSetJoins
  <2> QED
    BY <1>0, <2>1, <2>3, EmptySequence DEF OnRecord
<1>5. ASSUME Dispatch PROVE ReturnsOnRecord'
  <2>1. /\ at = "send" /\ judged' = judged /\ collected' = collected /\ recorded' = recorded
        /\ call' = [call EXCEPT !.queue = Tail(@)] /\ tool'.new = <<>>
    BY <1>5 DEF Dispatch, NoTool
  <2>2. call'.new = call.new
    BY <2>1, CallIs DEF InCall, Calls
  <2> QED
    BY <1>0, <2>1, <2>2, EmptySequence DEF OnRecord
<1>6. ASSUME FetchAndGoOn \/ FetchAndStop PROVE ReturnsOnRecord'
  <2> DEFINE t == AfterPage(Page)
  <2>1. at = "fetch" /\ InCall
    BY <1>6 DEF FetchAndGoOn, FetchAndStop, InCall
  <2>2. ToSet(t.new) \subseteq pending \cup ToSet(Page) /\ t \in Tools
    BY <2>1, AfterPageIs
  <2>3. CASE FetchAndGoOn
    <3>1. /\ at' = "fetch" /\ tool' = t /\ pending' = pending \cup ToSet(Page)
          /\ UNCHANGED <<laneVars, collected, call, recorded>>
      BY <2>3 DEF FetchAndGoOn
    <3> HIDE DEF t
    <3> QED
      BY <1>0, <2>2, <3>1 DEF OnRecord, laneVars
  <2>4. CASE FetchAndStop
    <3>1. /\ at' = "score" /\ tool' = t /\ recorded' = recorded \cup pending \cup ToSet(Page)
          /\ judged' = judged /\ collected' = collected /\ call' = [call EXCEPT !.new = @ \o t.new]
      BY <2>4 DEF FetchAndStop
    <3> HIDE DEF t
    <3>2. call.new \in Seq(Candidate) /\ t.new \in Seq(Candidate) /\ call'.new = call.new \o t.new
      BY <2>1, <2>2, <3>1, CallIs DEF Tools, Calls
    <3>3. ToSet(call'.new) = ToSet(call.new) \cup ToSet(t.new)
      BY <3>2, ToSetJoins
    <3> QED
      BY <1>0, <2>2, <3>1, <3>3 DEF OnRecord
  <2> QED
    BY <1>6, <2>3, <2>4
<1>7. ASSUME ScoreDispatch PROVE ReturnsOnRecord'
  <2> DEFINE stop == ~RefillAllowed(call.lane, OutcomeLabels(tool.raw, tool.new, judged'["exploit"]))
  <2>1. /\ at = "score" /\ collected' = collected /\ recorded' = recorded
        /\ judged' = [judged EXCEPT ![call.lane] = @ \o tool.new]
        /\ call' = [call EXCEPT !.stop = stop, !.queue = IF stop THEN <<>> ELSE @]
        /\ at' \in {"plan", "send"}
    BY <1>7 DEF ScoreDispatch
  <2> HIDE DEF stop
  <2>2. call.lane \in LaneType /\ tool.new \in Seq(Candidate) /\ call \in Calls
    BY <2>1, CallIs DEF InCall
  <2>3. call'.new = call.new
    BY <2>1, <2>2 DEF Calls
  <2>4. judged \in [LaneType -> Seq(Candidate)]
    BY DEF SearchTyped, LoopTypes
  <2>5. ASSUME NEW l \in LaneType PROVE ToSet(judged'[l]) \subseteq recorded
    <3>1. CASE l = call.lane
      <4>1. judged'[l] = judged[l] \o tool.new
        BY <2>1, <2>4, <3>1
      <4>2. ToSet(judged'[l]) = ToSet(judged[l]) \cup ToSet(tool.new)
        BY <2>2, <2>4, <4>1, ToSetJoins
      <4> QED
        BY <1>0, <2>1, <4>2 DEF OnRecord
    <3>2. CASE l # call.lane
      BY <1>0, <2>1, <2>4, <3>2 DEF OnRecord
    <3> QED
      BY <3>1, <3>2
  <2> QED
    BY <1>0, <2>1, <2>3, <2>5 DEF OnRecord
<1> QED
  BY <1>1, <1>2, <1>3, <1>4, <1>5, <1>6, <1>7 DEF RetrievalNext

----------------------------------------------------------------------------
(* A pass that finds nothing has nobody left to ask.                       *)

LEMMA FruitlessStays ==
    ASSUME SearchTyped, NeverTooMany, FruitlessPass, RetrievalNext
    PROVE  FruitlessPass'
<1> DEFINE Left(l) == l \in ToSet(todo) \/ CannotAsk(l)
           Fruitless == pass = "refill" /\ ~progressed
<1>0. lanes' = lanes /\ target' = target /\ todo \in Seq(LaneType)
  BY InputsStay DEF inputs, SearchTyped, LoopTypes
<1>1. ASSUME BeginCollect \/ SendBatch \/ Dispatch \/ FetchAndGoOn \/ FetchAndStop PROVE FruitlessPass'
  <2>1. /\ InCall \/ at = "pick"
        /\ at' \in {"plan", "send", "fetch", "score"}
        /\ UNCHANGED <<pass, progressed, todo, spent, labels, collected>>
    BY <1>1 DEF BeginCollect, SendBatch, Dispatch, FetchAndGoOn, FetchAndStop, InCall, laneVars
  <2> QED
    BY <1>0, <2>1 DEF FruitlessPass, ShortageMeansExhausted, CannotAsk, Gap
<1>2. ASSUME FetchFails \/ ScoreFails PROVE FruitlessPass'
  BY <1>2 DEF FetchFails, ScoreFails, FruitlessPass, ShortageMeansExhausted, InCall
<1>3. ASSUME SkipLane PROVE FruitlessPass'
  <2>1. /\ at = "pick" /\ at' = "pick" /\ todo # <<>> /\ todo' = Tail(todo) /\ Skipped(Head(todo))
        /\ UNCHANGED <<pass, progressed, spent, labels, collected>>
    BY <1>3 DEF SkipLane, laneVars
  <2>2. ToSet(todo) = {Head(todo)} \cup ToSet(todo')
    BY <1>0, <2>1, TailIs
  <2>3. ASSUME Fruitless PROVE Gap > 0 /\ CannotAsk(Head(todo)) /\ \A l \in ToSet(lanes) : Left(l)
    <3>1. Gap > 0 /\ \A l \in ToSet(lanes) : Left(l)
      BY <2>1, <2>3 DEF FruitlessPass
    <3>2. Wanted(Head(todo)) = Gap /\ Gap \in Int
      BY <2>1, <2>3, WantedIs DEF Wanted
    <3>3. ~(Wanted(Head(todo)) <= 0)
      BY <3>1, <3>2
    <3> QED
      BY <2>1, <3>1, <3>3 DEF Skipped, CannotAsk
  <2> QED
    BY <1>0, <2>1, <2>2, <2>3 DEF FruitlessPass, ShortageMeansExhausted, CannotAsk, Gap
<1>4. ASSUME EndPass PROVE FruitlessPass'
  <2>1. /\ at = "pick" /\ todo = <<>> /\ UNCHANGED <<spent, labels, collected>>
        /\ IF Gap > 0 /\ (pass = "initial" \/ progressed)
           THEN todo' = lanes /\ at' = at ELSE at' = "done" /\ UNCHANGED <<pass, progressed>>
    BY <1>4 DEF EndPass, laneVars
  <2>2. Gap' = Gap /\ \A l : CannotAsk(l)' = CannotAsk(l)
    BY <1>0, <2>1 DEF Gap, CannotAsk
  <2>3. CASE Gap > 0 /\ (pass = "initial" \/ progressed)
    BY <1>0, <2>1, <2>2, <2>3 DEF FruitlessPass, ShortageMeansExhausted
  <2>4. CASE ~(Gap > 0 /\ (pass = "initial" \/ progressed))
    <3>1. at' = "done" /\ pass \in {"initial", "refill"}
      BY <2>1, <2>4 DEF SearchTyped, LoopTypes
    <3>2. Gap > 0 => \A l \in ToSet(lanes) : l \in ToSet(<<>>) \/ CannotAsk(l)
      BY <2>1, <2>4, <3>1 DEF FruitlessPass
    <3>3. Gap > 0 => \A l \in ToSet(lanes) : CannotAsk(l)
      BY <3>2, EmptySequence
    <3> QED
      BY <1>0, <2>1, <2>2, <3>1, <3>3 DEF FruitlessPass, ShortageMeansExhausted, CannotAsk, InCall
  <2> QED
    BY <2>3, <2>4
<1>5. ASSUME EndCollect PROVE FruitlessPass'
  <2>1. /\ at = "plan" /\ at' = "pick" /\ todo' = Tail(todo) /\ pass' = pass /\ labels' = labels
        /\ spent' = [spent EXCEPT ![call.lane] = @ \/ Len(call.new) < call.want]
        /\ progressed' = (progressed \/ call.new # <<>>) /\ collected' = collected \o call.new
    BY <1>5 DEF EndCollect
  <2>2. /\ todo # <<>> /\ call.lane = Head(todo) /\ call.lane \in LaneType /\ call.new \in Seq(Candidate)
        /\ call.want \in Nat /\ call.want > 0
    BY <2>1, CallIs DEF InCall, NeverTooMany
  <2>3. ToSet(todo) = {Head(todo)} \cup ToSet(todo')
    BY <1>0, <2>1, <2>2, TailIs
  <2>4. spent \in [LaneType -> BOOLEAN] /\ lanes \in Seq(LaneType) /\ collected \in Seq(Candidate)
    BY RetrievalAssumption DEF SearchTyped, InputTypes, LoopTypes
  <2>5. ASSUME Fruitless' PROVE Gap' > 0 /\ \A l \in ToSet(lanes) : l \in ToSet(todo') \/ CannotAsk(l)'
    <3>1. Fruitless /\ call.new = <<>>
      BY <2>1, <2>5
    <3>2. collected' = collected /\ Len(call.new) < call.want
      <4>1. collected \o <<>> = collected /\ Len(<<>>) = 0
        BY <2>4
      <4> QED
        BY <2>1, <2>2, <3>1, <4>1
    <3>3. Gap > 0 /\ \A l \in ToSet(lanes) : Left(l)
      BY <2>1, <3>1 DEF FruitlessPass, InCall
    <3>4. ASSUME NEW l \in ToSet(lanes) PROVE l \in ToSet(todo') \/ CannotAsk(l)'
      <4>1. l \in LaneType
        BY <2>4, ToSetIs
      <4>2. CASE l = call.lane
        <5>1. spent'[l]
          BY <2>1, <2>4, <3>2, <4>1, <4>2
        <5> QED
          BY <5>1 DEF CannotAsk
      <4>3. CASE l # call.lane
        <5>1. spent'[l] = spent[l]
          BY <2>1, <2>4, <4>1, <4>3
        <5> QED
          BY <2>1, <2>2, <2>3, <3>3, <4>3, <5>1 DEF CannotAsk
      <4> QED
        BY <4>2, <4>3
    <3> QED
      BY <1>0, <3>2, <3>3, <3>4 DEF Gap
  <2> QED
    BY <1>0, <2>1, <2>5 DEF FruitlessPass, ShortageMeansExhausted
<1>6. ASSUME ScoreDispatch PROVE FruitlessPass'
  <2>1. /\ at = "score" /\ InCall /\ at' \in {"plan", "send"}
        /\ UNCHANGED <<pass, progressed, todo, spent, collected>>
        /\ \E bad : labels' = [labels EXCEPT ![call.lane] = bad]
    BY <1>6 DEF ScoreDispatch, InCall
  <2>2. todo # <<>> /\ call.lane = Head(todo) /\ call.lane \in LaneType
    BY <2>1, CallIs
  <2>3. call.lane \in ToSet(todo)
    BY <1>0, <2>2, TailIs
  <2>4. \A l \in LaneType : l # call.lane => labels'[l] = labels[l]
    BY <2>1 DEF SearchTyped, LoopTypes
  <2>5. ToSet(lanes) \subseteq LaneType
    BY ToSetIs, RetrievalAssumption DEF SearchTyped, InputTypes
  <2>6. Gap' = Gap
    BY <1>0, <2>1 DEF Gap
  <2> QED
    BY <1>0, <2>1, <2>3, <2>4, <2>5, <2>6 DEF FruitlessPass, ShortageMeansExhausted, CannotAsk
<1> QED
  BY <1>1, <1>2, <1>3, <1>4, <1>5, <1>6 DEF RetrievalNext

----------------------------------------------------------------------------
(* No pass collects more than is wanted.                                   *)

LEMMA TimesIsLinear == \A n \in Nat \ {0}, q \in Nat : n * q = (n - 1) * q + q /\ n * q \in Nat /\ (n - 1) * q \in Nat
  OBVIOUS

LEMMA Sums ==
    \A c, d, m, l, w \in Nat : /\ c + (d + m) <= w => c + m <= w
                              /\ c + d + m + l <= w => c + 0 + m + l <= w /\ c <= w
  OBVIOUS

LEMMA SumOfGap == \A c, m, l, w \in Nat : m + l = w - c => c + 0 + m + l <= w
  OBVIOUS

LEMMA SumOfHead == \A c, d, m, l, w, q, p \in Nat :
    c + 0 + (m + q) + p <= w /\ d + l = q + p => c + d + m + l <= w
  OBVIOUS

LEMMA SumOfFetch == \A c, d, m, l, w, e \in Nat :
    c + d + m + l <= w /\ e <= d => (c + e) + 0 + m + l <= w
  OBVIOUS

\* What the loop around the calls keeps as long as it is not its turn.
LEMMA LoopWaits ==
    ASSUME UNCHANGED inputs, UNCHANGED <<pass, todo, collected>>, NeverTooMany
    PROVE  /\ Len(collected') <= target'
           /\ pass' = "initial" => /\ todo' \in {lanes', Tail(lanes'), <<>>}
                                   /\ Len(collected') + StillWanted' <= target'
           /\ \A l : Wanted(l)' = Wanted(l)
<1>1. lanes' = lanes /\ target' = target /\ StillWanted' = StillWanted
  BY DEF inputs, StillWanted
<1>2. \A l : Wanted(l)' = Wanted(l)
  BY <1>1 DEF Wanted, Gap
<1> QED
  BY <1>1, <1>2 DEF NeverTooMany

LEMMA EndsInBounds ==
    ASSUME SearchTyped, NeverTooMany, SkipLane \/ BeginCollect \/ EndPass \/ EndCollect
    PROVE  NeverTooMany'
<1>0. UNCHANGED inputs /\ lanes' = lanes /\ target' = target
  BY InputsStay DEF RetrievalNext, inputs
<1>1. target \in Nat /\ collected \in Seq(Candidate) /\ Len(collected) \in Nat /\ pass \in {"initial", "refill"}
  BY RetrievalAssumption DEF SearchTyped, InputTypes, LoopTypes
<1>2. CASE SkipLane
  <2>1. /\ todo # <<>> /\ todo' = Tail(todo) /\ at' = "pick" /\ pass' = pass /\ collected' = collected
    BY <1>2 DEF SkipLane
  <2>2. ASSUME pass = "initial"
        PROVE  todo' \in {lanes, Tail(lanes), <<>>}' /\ Len(collected') + StillWanted' <= target'
    <3>1. /\ Wanted(Head(todo)) \in Nat /\ StillWanted' \in Nat /\ StillWanted = Wanted(Head(todo)) + StillWanted'
          /\ todo' \in {lanes, Tail(lanes), <<>>}'
      BY <1>0, <2>1, <2>2, StillWantedIs
    <3>2. Len(collected) + StillWanted <= target
      BY <2>2 DEF NeverTooMany
    <3>3. Len(collected) + StillWanted' <= target
      BY <1>1, <3>1, <3>2, Sums
    <3> QED
      BY <1>0, <2>1, <3>1, <3>3
  <2> QED
    BY <1>0, <2>1, <2>2 DEF NeverTooMany, InCall
<1>3. CASE BeginCollect
  <2>1. /\ todo # <<>> /\ at' = "plan" /\ UNCHANGED <<pass, todo, collected>> /\ ~Skipped(Head(todo))
        /\ call'.want = Wanted(Head(todo)) /\ call'.lane = Head(todo) /\ call'.new = <<>>
    BY <1>3 DEF BeginCollect, NoCall
  <2>2. Wanted(Head(todo)) \in Int /\ Wanted(Head(todo)) > 0
    BY <2>1, WantedIs DEF Skipped
  <2>3. call'.want = Wanted(call.lane)' /\ call'.want > 0
    <3>1. Wanted(call.lane)' = Wanted(Head(todo))
      BY <1>0, <2>1 DEF Wanted, Gap
    <3> QED
      BY <2>1, <2>2, <3>1
  <2>4. Len(call'.new) <= call'.want
    <3>1. Len(<<>>) = 0
      OBVIOUS
    <3> QED
      BY <2>1, <2>2, <3>1
  <2> QED
    BY <1>0, <2>1, <2>3, <2>4, LoopWaits DEF NeverTooMany
<1>4. CASE EndPass
  <2>1. at' \in {"pick", "done"} /\ collected' = collected
    BY <1>4 DEF EndPass
  <2>2. CASE pass' = "refill"
    BY <1>0, <2>1, <2>2 DEF NeverTooMany, InCall
  <2>3. CASE pass' # "refill"
    <3>1. pass' = pass /\ todo' = todo
      BY <1>4, <2>3 DEF EndPass
    <3> QED
      BY <1>0, <2>1, <3>1, LoopWaits DEF NeverTooMany, InCall
  <2> QED
    BY <2>2, <2>3
<1>5. CASE EndCollect
  <2>1. /\ at = "plan" /\ at' = "pick" /\ todo' = Tail(todo) /\ pass' = pass
        /\ collected' = collected \o call.new
    BY <1>5 DEF EndCollect
  <2>2. /\ todo # <<>> /\ call.lane = Head(todo) /\ call.new \in Seq(Candidate) /\ Len(call.new) \in Nat
        /\ call.want \in Nat /\ call.want = Wanted(Head(todo)) /\ Len(call.new) <= call.want
    BY <2>1, CallIs DEF InCall, NeverTooMany
  <2>3. Len(collected') = Len(collected) + Len(call.new)
    BY <1>1, <2>1, <2>2
  <2>4. CASE pass = "initial"
    <3>1. /\ Wanted(Head(todo)) \in Nat /\ StillWanted' \in Nat /\ StillWanted = Wanted(Head(todo)) + StillWanted'
          /\ todo' \in {lanes, Tail(lanes), <<>>}'
      BY <1>0, <2>1, <2>2, <2>4, StillWantedIs
    <3>2. Len(collected) + StillWanted <= target
      BY <2>4 DEF NeverTooMany
    <3>3. Len(collected') + StillWanted' <= target' /\ Len(collected') <= target'
      BY <1>0, <1>1, <2>2, <2>3, <3>1, <3>2
    <3> QED
      BY <2>1, <3>1, <3>3 DEF NeverTooMany, InCall
  <2>5. CASE pass = "refill"
    <3>1. call.want = target - Len(collected)
      BY <2>2, <2>5 DEF Wanted, Gap
    <3>2. Len(collected') <= target'
      BY <1>0, <1>1, <2>2, <2>3, <3>1
    <3> QED
      BY <2>1, <2>5, <3>2 DEF NeverTooMany, InCall
  <2> QED
    BY <1>1, <2>4, <2>5
<1> QED
  BY <1>2, <1>3, <1>4, <1>5

LEMMA CallsInBounds ==
    ASSUME SearchTyped, NeverTooMany,
           SendBatch \/ Dispatch \/ FetchAndGoOn \/ FetchAndStop \/ ScoreDispatch
    PROVE  NeverTooMany'
<1>0. UNCHANGED inputs /\ UNCHANGED <<pass, todo, collected>> /\ InCall
  BY InputsStay DEF RetrievalNext, SendBatch, Dispatch, FetchAndGoOn, FetchAndStop, ScoreDispatch, InCall
<1>1. /\ call.want \in Nat /\ call.new \in Seq(Candidate) /\ Len(call.new) \in Nat /\ call \in Calls
      /\ call.queue \in Seq(Orders) /\ Len(call.queue) \in Nat
      /\ tool.want \in Nat /\ call.want = Wanted(call.lane) /\ call.want > 0
  BY <1>0, CallIs DEF NeverTooMany
<1>2. ASSUME call'.want = call.want, call'.lane = call.lane,
             at' = "plan" => Len(call'.new) <= call'.want,
             at' \in {"send", "fetch", "score"} => \E q, p \in Nat : QueueWants(q, p)'
      PROVE  NeverTooMany'
  <2>1. call'.want = Wanted(call.lane)' /\ call'.want > 0
    BY <1>0, <1>1, <1>2 DEF Wanted, Gap, inputs
  <2> QED
    BY <1>0, <1>2, <2>1, LoopWaits DEF NeverTooMany
<1>3. ASSUME SendBatch PROVE NeverTooMany'
  <2>1. /\ at = "plan" /\ at' = "send" /\ NextBatch # <<>>
        /\ call' = [call EXCEPT !.queue = NextBatch, !.first = IF @ = <<>> THEN @ ELSE Tail(@)]
    BY <1>3 DEF SendBatch
  <2>2. Splits(NextBatch, call.want - Len(call.new)) /\ NextBatch \in Seq(Orders)
    BY <2>1, NextBatchIs
  <2> HIDE DEF NextBatch
  <2>3. call'.want = call.want /\ call'.lane = call.lane /\ call'.new = call.new /\ call'.queue = NextBatch
    BY <1>1, <2>1 DEF Calls
  <2>4. PICK q \in Nat, p \in Nat :
            /\ p <= Len(NextBatch) /\ Len(NextBatch) * q + p = call.want - Len(call.new)
            /\ \A i \in 1..Len(NextBatch) : NextBatch[i].want = q + (IF i <= p THEN 1 ELSE 0)
    BY <2>2 DEF Splits
  <2>5. Len(NextBatch) \in Nat /\ Len(NextBatch) * q \in Nat
    <3>1. Len(NextBatch) \in Nat
      BY <2>2
    <3> QED
      BY <3>1, TimesIsNat
  <2>6. Len(call.new) + 0 + Len(NextBatch) * q + p <= call.want
    BY <1>1, <2>4, <2>5, SumOfGap, Zenon
  <2>7. QueueWants(q, p)'
    BY <2>1, <2>3, <2>4, <2>6 DEF QueueWants
  <2> QED
    BY <1>2, <2>1, <2>3, <2>7
<1>4. ASSUME Dispatch PROVE NeverTooMany'
  <2> DEFINE d == Head(call.queue)
  <2>1. /\ at = "send" /\ at' \in {"fetch", "score"} /\ call' = [call EXCEPT !.queue = Tail(@)]
        /\ tool'.want = d.want /\ call.queue # <<>>
    BY <1>4 DEF Dispatch, NoTool, SearchTyped, CallTypes
  <2>2. PICK q \in Nat, p \in Nat : QueueWants(q, p)
    BY <2>1 DEF NeverTooMany
  <2> DEFINE n == Len(call.queue)
             left == IF p > 0 THEN p - 1 ELSE 0
  <2>3. /\ p <= n /\ \A i \in 1..n : call.queue[i].want = q + (IF i <= p THEN 1 ELSE 0)
        /\ Len(call.new) + 0 + n * q + p <= call.want
    BY <2>1, <2>2 DEF QueueWants
  <2>4. /\ call'.want = call.want /\ call'.lane = call.lane /\ call'.new = call.new
        /\ call'.queue = Tail(call.queue)
    BY <1>1, <2>1 DEF Calls
  <2>5. /\ n \in Nat \ {0} /\ Len(Tail(call.queue)) = n - 1 /\ d = call.queue[1]
        /\ \A i \in 1..(n - 1) : Tail(call.queue)[i] = call.queue[i + 1]
    BY <1>1, <2>1
  <2>6. n * q = (n - 1) * q + q /\ (n - 1) * q \in Nat
    BY <2>5, TimesIsLinear
  <2> HIDE DEF n, d
  <2>7. d.want = q + (IF 1 <= p THEN 1 ELSE 0)
    <3>1. 1 \in 1..n
      BY <2>5
    <3> QED
      BY <2>3, <2>5, <3>1
  <2>8. /\ left \in Nat /\ left <= n - 1
        /\ \A i \in 1..(n - 1) : Tail(call.queue)[i].want = q + (IF i <= left THEN 1 ELSE 0)
    <3>1. left \in Nat /\ left <= n - 1 /\ (p > 0 => left = p - 1) /\ (p = 0 => left = 0)
      BY <2>3, <2>5
    <3>2. ASSUME NEW i \in 1..(n - 1) PROVE Tail(call.queue)[i].want = q + (IF i <= left THEN 1 ELSE 0)
      <4>1. i + 1 \in 1..n /\ (i <= left <=> i + 1 <= p)
        BY <2>5, <3>1
      <4> QED
        BY <2>3, <2>5, <4>1
    <3> QED
      BY <3>1, <3>2
  <2>9. Len(call.new) + (IF at' = "fetch" THEN d.want ELSE 0) + (n - 1) * q + left <= call.want
    <3> DEFINE m == (n - 1) * q
    <3>1. d.want \in Nat /\ d.want + left = q + p
      BY <2>3, <2>5, <2>7
    <3>2. m \in Nat /\ left \in Nat /\ n * q = m + q
      BY <2>6, <2>8
    <3>3. Len(call.new) + 0 + (m + q) + p <= call.want
      BY <2>3, <3>2
    <3> HIDE DEF m, left
    <3>4. Len(call.new) + d.want + m + left <= call.want
      BY <1>1, <3>1, <3>2, <3>3, SumOfHead, Zenon
    <3>5. Len(call.new) + 0 + m + left <= call.want
      BY <1>1, <3>1, <3>2, <3>4, Sums
    <3> QED
      BY <3>4, <3>5 DEF m
  <2>10. QueueWants(q, left)'
    BY <2>1, <2>4, <2>5, <2>8, <2>9 DEF QueueWants
  <2> QED
    BY <1>2, <2>1, <2>4, <2>8, <2>10
<1>5. ASSUME FetchAndGoOn \/ FetchAndStop PROVE NeverTooMany'
  <2> DEFINE t == AfterPage(Page)
  <2>1. at = "fetch" /\ tool' = t
    BY <1>5 DEF FetchAndGoOn, FetchAndStop
  <2>2. t \in Tools /\ t.want = tool.want /\ Len(t.new) <= t.want
    BY <2>1, AfterPageIs
  <2> HIDE DEF t
  <2>3. PICK q \in Nat, p \in Nat : QueueWants(q, p)
    BY <2>1 DEF NeverTooMany
  <2>4. CASE FetchAndGoOn
    <3>1. at' = at /\ call' = call
      BY <2>4 DEF FetchAndGoOn
    <3>2. QueueWants(q, p)'
      BY <2>1, <2>2, <2>3, <3>1 DEF QueueWants
    <3> QED
      BY <1>2, <2>1, <3>1, <3>2
  <2>5. CASE FetchAndStop
    <3>1. at' = "score" /\ call' = [call EXCEPT !.new = @ \o t.new]
      BY <2>5 DEF FetchAndStop, t
    <3>2. t.new \in Seq(Candidate) /\ Len(t.new) \in Nat
      BY <2>2 DEF Tools
    <3>3. /\ call'.want = call.want /\ call'.lane = call.lane /\ call'.queue = call.queue
          /\ call'.new = call.new \o t.new
      BY <1>1, <3>1 DEF Calls
    <3>4. Len(call'.new) = Len(call.new) + Len(t.new)
      BY <1>1, <3>2, <3>3
    <3>5. Len(call.queue) * q \in Nat
      BY <1>1, TimesIsNat
    <3>6. Len(call.new) + tool.want + Len(call.queue) * q + p <= call.want
      BY <2>1, <2>3 DEF QueueWants
    <3>7. Len(call'.new) + 0 + Len(call.queue) * q + p <= call.want
      <4> DEFINE m == Len(call.queue) * q
      <4>1. m \in Nat /\ Len(call.new) + tool.want + m + p <= call.want /\ Len(t.new) <= tool.want
        BY <2>2, <3>5, <3>6
      <4> HIDE DEF m
      <4>2. (Len(call.new) + Len(t.new)) + 0 + m + p <= call.want
        BY <1>1, <3>2, <4>1, SumOfFetch, Zenon
      <4> QED
        BY <3>4, <4>2 DEF m
    <3>8. QueueWants(q, p)'
      BY <2>3, <3>1, <3>3, <3>7 DEF QueueWants
    <3> QED
      BY <1>2, <3>1, <3>3, <3>8
  <2> QED
    BY <1>5, <2>4, <2>5
<1>6. ASSUME ScoreDispatch PROVE NeverTooMany'
  <2> DEFINE stop == ~RefillAllowed(call.lane, OutcomeLabels(tool.raw, tool.new, judged'["exploit"]))
  <2>1. /\ at = "score"
        /\ call' = [call EXCEPT !.stop = stop, !.queue = IF stop THEN <<>> ELSE @]
        /\ at' = IF call'.queue = <<>> THEN "plan" ELSE "send"
    BY <1>6 DEF ScoreDispatch
  <2> HIDE DEF stop
  <2>2. PICK q \in Nat, p \in Nat : QueueWants(q, p)
    BY <2>1 DEF NeverTooMany
  <2>3. /\ call'.want = call.want /\ call'.lane = call.lane /\ call'.new = call.new
        /\ call'.queue \in {<<>>, call.queue}
    BY <1>1, <2>1 DEF Calls
  <2>4. Len(call.queue) * q \in Nat /\ Len(call.new) + 0 + Len(call.queue) * q + p <= call.want
    <3>1. Len(call.queue) * q \in Nat
      BY <1>1, TimesIsNat
    <3> QED
      BY <2>1, <2>2, <3>1 DEF QueueWants
  <2>5. Len(call.new) <= call.want
    <3> DEFINE m == Len(call.queue) * q
    <3>1. m \in Nat /\ Len(call.new) + 0 + m + p <= call.want
      BY <2>4
    <3> HIDE DEF m
    <3> QED
      BY <1>1, <3>1, Sums
  <2>6. CASE call'.queue = <<>>
    BY <1>2, <2>1, <2>3, <2>5, <2>6
  <2>7. CASE call'.queue # <<>>
    <3>1. at' = "send" /\ call'.queue = call.queue
      BY <2>1, <2>3, <2>7
    <3>2. QueueWants(q, p)'
      BY <2>2, <2>3, <2>4, <3>1 DEF QueueWants
    <3> QED
      BY <1>2, <2>3, <3>1, <3>2
  <2> QED
    BY <2>6, <2>7
<1> QED
  BY <1>3, <1>4, <1>5, <1>6

LEMMA BoundsStay ==
    ASSUME SearchTyped, NeverTooMany, RetrievalNext PROVE NeverTooMany'
<1>1. ASSUME FetchFails \/ ScoreFails PROVE NeverTooMany'
  <2>1. at' = "failed" /\ UNCHANGED inputs /\ UNCHANGED <<pass, todo, collected>>
    BY <1>1 DEF FetchFails, ScoreFails
  <2> QED
    BY <2>1, LoopWaits DEF NeverTooMany, InCall
<1> QED
  BY <1>1, EndsInBounds, CallsInBounds DEF RetrievalNext

----------------------------------------------------------------------------
(* The invariant, and what follows from it.                                *)

LEMMA SearchStep ==
    RetrievalInv /\ [RetrievalNext \/ RetrievalOver]_retrievalVars => RetrievalInv'
<1> SUFFICES ASSUME RetrievalInv, [RetrievalNext \/ RetrievalOver]_retrievalVars PROVE RetrievalInv'
  OBVIOUS
<1>1. CASE RetrievalNext
  <2>1. SearchTyped'
    BY <1>1, TypesStay DEF RetrievalInv
  <2> QED
    BY <1>1, <2>1, NewStays, RecordStays, FruitlessStays, BoundsStay DEF RetrievalInv
<1>2. CASE UNCHANGED retrievalVars
  <2>1. SearchTyped'
    BY <1>2 DEF RetrievalInv, SearchTyped, InputTypes, LoopTypes, CallTypes, InCall, retrievalVars, inputs, laneVars
  <2>2. NewInHand'
    BY <1>2 DEF RetrievalInv, NewInHand, Counted, OnePlace, retrievalVars, inputs, laneVars
  <2>3. ReturnsOnRecord'
    BY <1>2 DEF RetrievalInv, ReturnsOnRecord, RecordedBeforeUse, retrievalVars, inputs, laneVars
  <2>4. FruitlessPass'
    BY <1>2 DEF RetrievalInv, FruitlessPass, ShortageMeansExhausted, CannotAsk, Gap, InCall,
               retrievalVars, inputs, laneVars
  <2>5. NeverTooMany'
    BY <1>2 DEF RetrievalInv, NeverTooMany, StillWanted, Wanted, Gap, QueueWants, InCall,
               retrievalVars, inputs, laneVars
  <2> QED
    BY <2>1, <2>2, <2>3, <2>4, <2>5 DEF RetrievalInv
<1> QED
  BY <1>1, <1>2 DEF RetrievalOver

\* The inductive invariant of the round search: its types, nobody counted in hand, nobody
\* used off the record, a fruitless pass has nobody left to ask, and no pass collects more
\* than is wanted (execute_round_search, _collect_candidates_for_query, execute_search_tool).
THEOREM RetrievalInvariant == RetrievalSpec => []RetrievalInv
BY LoopBegins, SearchStep, PTL DEF RetrievalSpec

LEMMA Accounted == RetrievalInv => ReturnsAreAccounted
<1> SUFFICES ASSUME RetrievalInv PROVE ReturnsAreAccounted
  OBVIOUS
<1> USE DEF RetrievalInv
<1>1. /\ call.new \in Seq(Candidate) /\ tool.new \in Seq(Candidate) /\ tool.attempts \in 0..MaxAttempts
      /\ collected \in Seq(Candidate)
  BY DEF SearchTyped, LoopTypes, CallTypes, Calls, Tools
<1>2. RetrievalTypeOK
  BY <1>1 DEF SearchTyped, InputTypes, LoopTypes, RetrievalTypeOK, Stages
<1>3. CountedOnce
  <2>1. CASE at = "fetch"
    <3>1. InHand = call.new \o tool.new
      BY <2>1 DEF InHand
    <3>2. ToSet(InHand) = ToSet(call.new) \cup ToSet(tool.new)
      BY <1>1, <3>1, ToSetJoins
    <3>3. ToSet(InHand) \cap Counted = {}
      BY <2>1, <3>2 DEF NewInHand
    <3>4. OnePlace => IsInjective(collected \o InHand)
      <4>1. OnePlace => InHand = tool.new
        <5>1. OnePlace => call.new = <<>>
          BY <2>1 DEF NewInHand
        <5>2. <<>> \o tool.new = tool.new
          BY <1>1
        <5> QED
          BY <3>1, <5>1, <5>2
      <4>2. ToSet(collected) \cap ToSet(tool.new) = {} /\ IsInjective(tool.new)
        BY <2>1 DEF NewInHand, Counted
      <4>3. OnePlace => IsInjective(collected \o tool.new)
        BY <1>1, <4>2, InjectionsJoin DEF NewInHand
      <4> QED
        BY <4>1, <4>3
    <3> QED
      BY <3>3, <3>4 DEF CountedOnce, NewInHand, OnePlace
  <2>2. CASE at # "fetch"
    <3>1. InHand = call.new
      BY <1>1, <2>2 DEF InHand
    <3>2. ToSet(collected) \cap ToSet(call.new) = {}
      BY DEF NewInHand, Counted
    <3>3. OnePlace => IsInjective(collected \o call.new)
      BY <1>1, <3>2, InjectionsJoin DEF NewInHand
    <3> QED
      BY <3>1, <3>3 DEF CountedOnce, NewInHand, OnePlace
  <2> QED
    BY <2>1, <2>2
<1> QED
  BY <1>2, <1>3 DEF ReturnsAreAccounted, ReturnsOnRecord, FruitlessPass

\* No resume is counted twice over rounds, lane calls and pages, nor within a call whose plan
\* has one place; nobody is scored or counted before the provider's answer is on record; and
\* a search that ends short of its target has asked every lane it may (execute_round_search).
THEOREM SearchesAccount == RetrievalSpec => []ReturnsAreAccounted
BY RetrievalInvariant, Accounted, PTL

\* A sequence has at most as many different elements as places.
LEMMA DistinctElements ==
    ASSUME NEW S, NEW s \in Seq(S)
    PROVE  IsFiniteSet(ToSet(s)) /\ Cardinality(ToSet(s)) <= Len(s)
<1>1. Len(s) \in Nat /\ IsFiniteSet(1..Len(s)) /\ Cardinality(1..Len(s)) = Len(s)
  <2>1. Len(s) \in Nat
    OBVIOUS
  <2>2. \A n \in Nat : IsFiniteSet(1..n) /\ Cardinality(1..n) = n
    BY FS_Interval
  <2> QED
    BY <2>1, <2>2
<1>2. s \in Surjection(1..Len(s), ToSet(s))
  <2>1. s \in [1..Len(s) -> ToSet(s)]
    BY ToSetIs
  <2> QED
    BY <2>1, ToSetIs DEF Surjection
<1> QED
  BY <1>1, <1>2, FS_Surjection

LEMMA PromiseIsKept ==
    ASSUME RetrievalInv, RetrievalInv', RetrievalNext
    PROVE  [Promise!Next]_(Promise!searchVars)
<1>1. UNCHANGED <<target, known>>
  BY InputsStay DEF inputs
<1> DEFINE over == CASE at = "done" -> "found" [] at = "failed" -> "failed" [] OTHER -> "no"
<1>2. /\ at \notin {"done", "failed"} => over = "no"
      /\ at' \notin {"done", "failed"} => over' = "no"
      /\ at' = "done" => over' = "found"
      /\ at' = "failed" => over' = "failed"
  OBVIOUS
<1>3. at \notin {"done", "failed"}
  BY DEF RetrievalNext, SkipLane, BeginCollect, EndPass, SendBatch, EndCollect, Dispatch, FetchAndGoOn,
         FetchAndStop, FetchFails, ScoreDispatch, ScoreFails
<1> HIDE DEF over
<1>4. CASE ~EndCollect
  <2>1. collected' = collected
    BY <1>4 DEF RetrievalNext, SkipLane, BeginCollect, EndPass, SendBatch, Dispatch, FetchAndGoOn,
         FetchAndStop, FetchFails, ScoreDispatch, ScoreFails
  <2>2. over' \in {"no", "found", "failed"}
    <3>1. at' \in Stages
      BY DEF RetrievalInv, SearchTyped, LoopTypes
    <3> QED
      BY <1>2, <3>1
  <2> QED
    BY <1>1, <1>2, <1>3, <2>1, <2>2
    DEF over, Promise!Next, Promise!Return, Promise!Break, Promise!searchVars
<1>5. CASE EndCollect
  <2>1. at = "plan" /\ at' = "pick" /\ collected' = collected \o call.new
    BY <1>5 DEF EndCollect
  <2>2. call.new \in Seq(Candidate) /\ collected \in Seq(Candidate) /\ collected' \in Seq(Candidate)
    BY <2>1, CallIs DEF InCall, RetrievalInv, SearchTyped, LoopTypes
  <2>3. ToSet(collected') = ToSet(collected) \cup ToSet(call.new) /\ ToSet(collected') \subseteq Candidate
    BY <2>1, <2>2, ToSetJoins, ToSetIs
  <2>4. ToSet(collected') \cap known = {}
    BY <1>1 DEF RetrievalInv, NewInHand
  <2>5. Cardinality(ToSet(collected')) <= target
    <3>1. Len(collected') <= target /\ target \in Nat
      BY <1>1, RetrievalAssumption DEF RetrievalInv, NeverTooMany, SearchTyped, InputTypes
    <3>2. IsFiniteSet(ToSet(collected')) /\ Cardinality(ToSet(collected')) <= Len(collected')
      BY <2>2, DistinctElements
    <3>3. Cardinality(ToSet(collected')) \in Nat /\ Len(collected') \in Nat
      BY <2>2, <3>2, FS_CardinalityType
    <3> QED
      BY <3>1, <3>2, <3>3
  <2>6. over = "no" /\ over' = "no"
    BY <1>2, <2>1
  <2>7. CASE ToSet(collected') = ToSet(collected)
    BY <1>1, <2>6, <2>7 DEF over, Promise!searchVars
  <2>8. CASE ToSet(collected') # ToSet(collected)
    <3>1. ToSet(collected) \subseteq ToSet(collected') /\ ToSet(collected') \subseteq Candidate \ known
      BY <2>3, <2>4
    <3>2. Promise!Cardinality(ToSet(collected')) <= target
      BY <2>5 DEF Cardinality, Promise!Cardinality
    <3>3. Promise!Gather
      BY <1>1, <2>6, <2>8, <3>1, <3>2 DEF over, Promise!Gather
    <3> QED
      BY <3>3 DEF Promise!Next
  <2> QED
    BY <2>7, <2>8
<1> QED
  BY <1>4, <1>5

\* What a round's search finds is new, never more than wanted, and final once the search has
\* returned or failed: what the rounds of RuntimeRun rely on (execute_round_search).
THEOREM SearchKeepsPromise == RetrievalSpec => RoundSearchKept
<1>1. RetrievalInit => Promise!Init
  <2> SUFFICES ASSUME RetrievalInit PROVE Promise!Init
    OBVIOUS
  <2>1. target \in Targets /\ known \in SUBSET Candidate /\ collected = <<>> /\ at = "pick"
    BY RetrievalAssumption DEF RetrievalInit
  <2> QED
    BY <2>1, EmptySequence DEF Promise!Init
<1>2. RetrievalInv /\ RetrievalInv' /\ [RetrievalNext \/ RetrievalOver]_retrievalVars
          => [Promise!Next]_(Promise!searchVars)
  <2> SUFFICES ASSUME RetrievalInv, RetrievalInv', [RetrievalNext \/ RetrievalOver]_retrievalVars
               PROVE  [Promise!Next]_(Promise!searchVars)
    OBVIOUS
  <2>1. CASE UNCHANGED retrievalVars
    BY <2>1 DEF Promise!searchVars, retrievalVars, inputs
  <2> QED
    BY <2>1, PromiseIsKept DEF RetrievalOver
<1> QED
  BY <1>1, <1>2, RetrievalInvariant, PTL DEF RetrievalSpec, RoundSearchKept
=============================================================================
