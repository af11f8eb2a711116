-------------------------- MODULE RunRecordsProofs --------------------------
(***************************************************************************)
(* Proofs about RunRecords for any number of processes, rounds, queries    *)
(* and resumes. The scripts come first: each is laid out so that what a    *)
(* call refers to was written by a call before it. From that the places,   *)
(* the roots, both databases and the labels follow step by step.           *)
(***************************************************************************)
EXTENDS RunRecords, FiniteSetTheorems, SequenceTheorems, WellFoundedInduction, TLAPS

\* A set of numbers with a member has a least one.
LEMMA LeastNat ==
    ASSUME NEW X \in SUBSET Nat, X # {}
    PROVE  \E n \in X : \A m \in X : n <= m
<1>1. PICK n \in X : \A m \in X : <<m, n>> \notin OpToRel(<, Nat)
  BY NatLessThanWellFounded, WFMin
<1>2. \A m \in X : ~(m < n)
  BY <1>1 DEF OpToRel
<1> QED
  BY <1>2

\* The concatenation of the first m of the sequences, for each m up to some n.
Joins(g, ss, n) == /\ g[1] = ss[1]
                   /\ \A i \in 2..n : g[i] = g[i - 1] \o ss[i]

\* Sequences can be joined one after the other, however many there are.
LEMMA JoinsExist ==
    ASSUME NEW S, NEW n \in Nat \ {0}, NEW ss \in [1..n -> Seq(S)]
    PROVE  \E g \in [1..n -> Seq(S)] : Joins(g, ss, n)
<1> DEFINE Bad == {m \in 1..n : ~ \E g \in [1..m -> Seq(S)] : Joins(g, ss, m)}
<1>1. Bad = {}
  <2> SUFFICES ASSUME Bad # {} PROVE FALSE
    OBVIOUS
  <2>1. Bad \in SUBSET Nat
    <3>1. 1..n \subseteq Nat
      OBVIOUS
    <3> QED
      BY <3>1, Zenon
  <2>2. PICK m \in Bad : \A k \in Bad : m <= k
    <3> HIDE DEF Bad
    <3> QED
      BY <2>1, LeastNat
  <2>3. m \in 1..n /\ ~ \E g \in [1..m -> Seq(S)] : Joins(g, ss, m)
    BY <2>2, Zenon
  <2>4. CASE m = 1
    <3> DEFINE g == [i \in 1..1 |-> ss[1]]
    <3>1. g \in [1..1 -> Seq(S)]
      OBVIOUS
    <3>2. Joins(g, ss, 1)
      BY DEF Joins
    <3> QED
      BY <2>3, <2>4, <3>1, <3>2, Zenon
  <2>5. CASE m # 1
    <3> DEFINE k == m - 1
    <3>1. k \in 1..n /\ k < m /\ k + 1 = m /\ k \in Nat /\ m \in Nat
      BY <2>3, <2>5
    <3> HIDE DEF k
    <3>2. k \notin Bad
      <4>1. ~(m <= k)
        BY <3>1
      <4> HIDE DEF Bad
      <4> QED
        BY <4>1, <2>2
    <3>3. PICK g \in [1..k -> Seq(S)] : Joins(g, ss, k)
      BY <3>1, <3>2, Zenon
    <3> DEFINE h == [i \in 1..m |-> IF i = m THEN g[k] \o ss[m] ELSE g[i]]
    <3>4. \A i \in 1..m : i # m => i \in 1..k
      BY <3>1
    <3>5. h \in [1..m -> Seq(S)]
      <4>1. g[k] \in Seq(S) /\ ss[m] \in Seq(S)
        BY <3>1, <3>3, <2>3
      <4>2. g[k] \o ss[m] \in Seq(S)
        BY <4>1
      <4> QED
        BY <4>2, <3>4, <3>3
    <3>6. Joins(h, ss, m)
      <4>1. h[1] = ss[1]
        BY <3>1, <3>3, <2>5 DEF Joins
      <4>2. ASSUME NEW i \in 2..m PROVE h[i] = h[i - 1] \o ss[i]
        <5>1. CASE i = m
          <6>1. i - 1 = k /\ k \in 1..m /\ k # m /\ m \in 1..m
            BY <5>1, <3>1
          <6>2. h[k] = g[k] /\ h[m] = g[k] \o ss[m]
            BY <6>1
          <6> HIDE DEF h
          <6> QED
            BY <5>1, <6>1, <6>2
        <5>2. CASE i # m
          <6>1. i \in 2..k /\ i - 1 \in 1..m /\ i - 1 # m /\ i \in 1..m
            BY <5>2, <3>1
          <6>2. h[i] = g[i] /\ h[i - 1] = g[i - 1]
            BY <6>1, <5>2
          <6>3. g[i] = g[i - 1] \o ss[i]
            BY <6>1, <3>3 DEF Joins
          <6> HIDE DEF h
          <6> QED
            BY <6>2, <6>3
        <5> QED
          BY <5>1, <5>2
      <4> QED
        BY <4>1, <4>2 DEF Joins
    <3> QED
      BY <2>3, <3>5, <3>6, Zenon
  <2> QED
    BY <2>4, <2>5
<1>2. n \in 1..n
  OBVIOUS
<1> QED
  BY <1>1, <1>2, Zenon

\* FlattenSeq joins the sequences of a sequence in their order.
LEMMA FlattenIs ==
    ASSUME NEW S, NEW ss, NEW n \in Nat \ {0}, ss \in [1..n -> Seq(S)], Len(ss) = n
    PROVE  \E g \in [1..n -> Seq(S)] : Joins(g, ss, n) /\ FlattenSeq(ss) = g[n]
<1> DEFINE Joint(f) == [i \in 1..n |-> IF i = 1 THEN ss[i] ELSE f[i - 1] \o ss[i]]
           flatten == CHOOSE f : f = Joint(f)
<1>1. PICK g \in [1..n -> Seq(S)] : Joins(g, ss, n)
  BY JoinsExist, Zenon
<1>2. g = Joint(g)
  <2>1. \A i \in 1..n : i # 1 => i \in 2..n
    OBVIOUS
  <2>2. \A i \in 1..n : g[i] = IF i = 1 THEN ss[i] ELSE g[i - 1] \o ss[i]
    BY <1>1, <2>1, Zenon DEF Joins
  <2> QED
    BY <2>2, Zenon
<1>3. flatten = Joint(flatten)
  <2> HIDE DEF Joint
  <2> QED
    BY <1>2, Zenon
<1>4. FlattenSeq(ss) = flatten[n]
  BY Zenon DEF FlattenSeq
<1>5. DOMAIN flatten = 1..n
  <2>1. DOMAIN Joint(flatten) = 1..n
    OBVIOUS
  <2> QED
    BY <2>1, <1>3, Zenon
<1>6. \A i \in 1..n : flatten[i] = IF i = 1 THEN ss[i] ELSE flatten[i - 1] \o ss[i]
  BY <1>3, Zenon
<1> DEFINE Off == {i \in 1..n : flatten[i] # g[i]}
<1> HIDE DEF flatten
<1>7. Off = {}
  <2> SUFFICES ASSUME Off # {} PROVE FALSE
    OBVIOUS
  <2>1. Off \in SUBSET Nat
    <3>1. 1..n \subseteq Nat
      OBVIOUS
    <3> QED
      BY <3>1, Zenon
  <2>2. PICK m \in Off : \A k \in Off : m <= k
    <3> HIDE DEF Off
    <3> QED
      BY <2>1, LeastNat
  <2>3. m \in 1..n /\ flatten[m] # g[m]
    BY <2>2, Zenon
  <2>4. m # 1
    BY <2>3, <1>6, <1>1, Zenon DEF Joins
  <2> DEFINE k == m - 1
  <2>5. k \in 1..n /\ ~(m <= k) /\ m \in 2..n
    BY <2>3, <2>4
  <2>6. flatten[k] = g[k]
    <3> HIDE DEF k
    <3> QED
      BY <2>5, <2>2, Zenon
  <2>7. flatten[m] = flatten[k] \o ss[m] /\ g[m] = g[k] \o ss[m]
    BY <1>6, <1>1, <2>3, <2>4, <2>5, Zenon DEF Joins
  <2> QED
    BY <2>3, <2>6, <2>7, Zenon
<1>8. n \in 1..n
  OBVIOUS
<1> QED
  BY <1>1, <1>4, <1>7, <1>8, Zenon

----------------------------------------------------------------------------
(* What a script keeps to, call by call.                                   *)

\* The words the calls of a run have in its parts, and those an export's have.
OpenWords == {"create", "index"}
StartWords == {"corpus_ref", "job", "link", "task", "flywheel_ref", "start_run"}
RoundWords == {"count", "collection", "payload", "index", "corpus_ref", "subject", "document",
               "observe", "member", "score", "hits_artifact", "queries", "snapshot", "hits",
               "outcomes", "flywheel_ref", "jsonl", "attach", "events", "term_outcomes", "raise"}
EvalWords == {"evaluate", "task", "snapshot", "cached", "judge", "labels", "judged", "adopt",
              "jsonl", "index", "attach", "move", "register", "evaluated"}
CloseWords == {"ingest", "index", "finalize", "complete_run"}
ExportWords == {"create", "index", "sources", "export_jsonl", "samples_jsonl", "samples",
                "register", "finalize", "flywheel_ref", "dataset_export", "count", "collection",
                "corpus_jsonl", "corpus_ref", "corpus_manifest", "corpus_export"}
Words == OpenWords \cup StartWords \cup RoundWords \cup EvalWords \cup CloseWords \cup ExportWords

\* The words that write a manifest.
Writers == {"create", "payload", "hits_artifact", "register", "ingest", "finalize", "jsonl",
            "export_jsonl", "samples_jsonl", "corpus_jsonl", "corpus_manifest"}

\* What else the calls are made of.
Names == {"-", "run", "corpus", "export", "evaluation", "raw_resumes", "input", "manifest", "prf",
          "audit", "dataset_manifest", "corpus_manifest", "exports", "outcomes", "judged",
          "events", "termOutcomes", "jobs", "subjects", "documents", "observations", "links",
          "members"}
Terms == Names \cup Nat \cup DOMAIN Person \cup DOMAIN TermsOf
Calls == Words \X Terms \X Terms

\* The call c comes before position p of s, or among those that came before s.
Earlier(P, s, p, c) == c \in P \/ \E q \in 1..(p - 1) : s[q] = c
Followed(s, p, k, what) == p + k <= Len(s) /\ s[p + k][1] = what

\* A write of a manifest is followed by that of the index, and so on.
Adjacent(s, p) ==
    /\ s[p][1] \in Writers => Followed(s, p, 1, "index")
    /\ s[p][1] = "jsonl" => Followed(s, p, 2, "attach")
    /\ s[p][1] = "cached" => Followed(s, p, 1, "judge")
    /\ s[p][1] = "judge" => Followed(s, p, 1, "labels")

\* The sessions and names a call may have.
Named(a, s, p) ==
    /\ s[p][1] \in Writers => s[p][3] \in Kinds \cup {"evaluation"}
    /\ s[p][1] \in {"create", "finalize"} => s[p][3] \in Kinds
    /\ s[p][1] \in {"ingest", "payload", "document"} => s[p][3] = "corpus"
    /\ s[p][1] = "adopt" => s[p][3] = "evaluation"
    /\ s[p][1] \in {"jsonl", "register"} /\ s[p][3] = "run"
         => s[p][2] \notin {"evaluation", "raw_resumes"}
    /\ s[p][1] = "hits" => s[p][2] \in DOMAIN Sent[a]

\* What the rows a call writes refer to was written by earlier calls.
Prepared(a, P, s, p) ==
    /\ s[p][1] \in {"queries", "outcomes", "judged", "events", "term_outcomes"}
         => Earlier(P, s, p, Call("start_run"))
    /\ s[p][1] \in {"start_run", "labels", "judged"} => Earlier(P, s, p, Call("task"))
    /\ s[p][1] = "link" => Earlier(P, s, p, Call("job"))
    /\ s[p][1] = "hits" => Earlier(P, s, p, <<"queries", s[p][2], "-">>)
    /\ s[p][1] = "labels" =>
         \A r \in Shortlist(a) : Earlier(P, s, p, <<"snapshot", r, Len(Sent[a])>>)
    /\ s[p][1] = "document" => /\ Earlier(P, s, p, <<"payload", s[p][2], "corpus">>)
                               /\ Earlier(P, s, p, <<"corpus_ref", s[p][2], "corpus">>)
                               /\ Earlier(P, s, p, <<"subject", s[p][2], "-">>)
    /\ s[p][1] = "observe" =>
         \A x \in Range(Arrivals[a]) : x.query = s[p][2] =>
            /\ Earlier(P, s, p, <<"document", x.resume, "corpus">>)
            /\ Earlier(P, s, p, <<"corpus_ref", x.resume, "corpus">>)
    /\ s[p][1] = "member" => /\ Earlier(P, s, p, <<"observe", s[p][3], "corpus">>)
                             /\ Earlier(P, s, p, <<"document", s[p][2], "corpus">>)
                             /\ Earlier(P, s, p, Call("collection"))
                             /\ \E x \in Range(Arrivals[a]) : x.query = s[p][3] /\ x.resume = s[p][2]
    /\ s[p][1] = "corpus_export" => \E x \in Terms : Earlier(P, s, p, <<"corpus_ref", x, "corpus">>)

\* Calls with the words W that are in order when the calls P came before them.
Fit(a, W, P, s) ==
    /\ s \in Seq(Calls)
    /\ \A p \in 1..Len(s) : /\ s[p][1] \in W
                            /\ Adjacent(s, p) /\ Named(a, s, p) /\ Prepared(a, P, s, p)

\* More words and more earlier calls do no harm.
LEMMA FitMore ==
    ASSUME NEW a, NEW W, NEW P, NEW s, Fit(a, W, P, s), NEW X, NEW Q, W \subseteq X, P \subseteq Q
    PROVE  Fit(a, X, Q, s)
<1>1. ASSUME NEW p, NEW c, Earlier(P, s, p, c) PROVE Earlier(Q, s, p, c)
  BY <1>1 DEF Earlier
<1>2. ASSUME NEW p \in 1..Len(s) PROVE Prepared(a, Q, s, p)
  <2>1. Prepared(a, P, s, p)
    BY DEF Fit
  <2> QED
    BY <1>1, <2>1, Zenon DEF Prepared
<1> QED
  BY <1>2, Zenon DEF Fit

\* The elements of two sequences one behind the other.
LEMMA JoinIs ==
    ASSUME NEW S, NEW t \in Seq(S), NEW u \in Seq(S)
    PROVE  /\ t \o u \in Seq(S) /\ Len(t) \in Nat /\ Len(u) \in Nat
           /\ Len(t \o u) = Len(t) + Len(u)
           /\ \A p \in 1..Len(t) : (t \o u)[p] = t[p]
           /\ \A p \in 1..Len(u) : (t \o u)[Len(t) + p] = u[p]
OBVIOUS

\* A concatenation holds what its parts hold.
LEMMA JoinHas ==
    ASSUME NEW S, NEW t \in Seq(S), NEW u \in Seq(S)
    PROVE  Range(t \o u) = Range(t) \cup Range(u)
<1> DEFINE s == t \o u
           m == Len(t)
           n == Len(u)
<1>1. /\ m \in Nat /\ n \in Nat /\ DOMAIN s = 1..(m + n)
      /\ DOMAIN t = 1..m /\ DOMAIN u = 1..n
      /\ \A p \in 1..m : s[p] = t[p]
      /\ \A p \in 1..n : s[m + p] = u[p]
  BY JoinIs
<1> HIDE DEF s, m, n
<1>2. \A p \in 1..(m + n) : p \notin 1..m => (p - m) \in 1..n /\ p = m + (p - m)
  BY <1>1
<1>3. (\A p \in 1..m : p \in 1..(m + n)) /\ (\A p \in 1..n : m + p \in 1..(m + n))
  BY <1>1
<1>4. Range(s) \subseteq Range(t) \cup Range(u)
  <2>1. ASSUME NEW p \in 1..(m + n) PROVE s[p] \in Range(t) \cup Range(u)
    <3>1. CASE p \in 1..m
      BY <3>1, <1>1, Zenon DEF Range
    <3>2. CASE p \notin 1..m
      <4>1. PICK o \in 1..n : p = m + o
        BY <1>2, <3>2, Zenon
      <4> QED
        BY <4>1, <1>1, Zenon DEF Range
    <3> QED
      BY <3>1, <3>2
  <2> QED
    BY <2>1, <1>1, Zenon DEF Range
<1>5. Range(t) \cup Range(u) \subseteq Range(s)
  BY <1>1, <1>3 DEF Range
<1> QED
  BY <1>4, <1>5 DEF s

\* Calls in order followed by calls that are in order behind them.
LEMMA FitJoin ==
    ASSUME NEW a, NEW W, NEW P, NEW t, NEW u, Fit(a, W, P, t), Fit(a, W, P \cup Range(t), u)
    PROVE  Fit(a, W, P, t \o u)
<1> DEFINE s == t \o u
           m == Len(t)
           n == Len(u)
<1>1. /\ s \in Seq(Calls) /\ m \in Nat /\ n \in Nat /\ Len(s) = m + n
      /\ \A p \in 1..m : s[p] = t[p]
      /\ \A p \in 1..n : s[m + p] = u[p]
  <2>1. t \in Seq(Calls) /\ u \in Seq(Calls)
    BY DEF Fit
  <2> QED
    BY <2>1, JoinIs
<1>2. Range(t) = {t[q] : q \in 1..m}
  BY DEF Fit, Range
<1> HIDE DEF s, m, n
<1>3. ASSUME NEW p \in 1..m
      PROVE  s[p][1] \in W /\ Adjacent(s, p) /\ Named(a, s, p) /\ Prepared(a, P, s, p)
  <2>1. t[p][1] \in W /\ Adjacent(t, p) /\ Named(a, t, p) /\ Prepared(a, P, t, p) /\ s[p] = t[p]
    BY <1>1 DEF Fit, m
  <2>2. ASSUME NEW k \in 1..2, NEW what, Followed(t, p, k, what) PROVE Followed(s, p, k, what)
    <3>1. p + k \in 1..m /\ t[p + k][1] = what
      BY <2>2, <1>1 DEF Followed, m
    <3> QED
      BY <3>1, <1>1 DEF Followed
  <2>3. ASSUME NEW c, Earlier(P, t, p, c) PROVE Earlier(P, s, p, c)
    <3>1. \A q \in 1..(p - 1) : s[q] = t[q]
      BY <1>1
    <3> QED
      BY <2>3, <3>1 DEF Earlier
  <2>4. Adjacent(s, p)
    BY <2>1, <2>2 DEF Adjacent
  <2>5. Named(a, s, p)
    BY <2>1, Zenon DEF Named
  <2>6. Prepared(a, P, s, p)
    BY <2>1, <2>3, Zenon DEF Prepared
  <2> QED
    BY <2>1, <2>4, <2>5, <2>6
<1>4. ASSUME NEW o \in 1..n
      PROVE  /\ s[m + o][1] \in W /\ Adjacent(s, m + o) /\ Named(a, s, m + o)
             /\ Prepared(a, P, s, m + o)
  <2> DEFINE p == m + o
  <2>1. /\ u[o][1] \in W /\ Adjacent(u, o) /\ Named(a, u, o)
        /\ Prepared(a, P \cup Range(t), u, o) /\ s[p] = u[o]
    BY <1>1 DEF Fit, n
  <2>2. ASSUME NEW k \in 1..2, NEW what, Followed(u, o, k, what) PROVE Followed(s, p, k, what)
    <3>1. o + k \in 1..n /\ u[o + k][1] = what
      BY <2>2, <1>1 DEF Followed, n
    <3>2. p + k = m + (o + k) /\ p + k <= m + n
      <4>1. m \in Nat /\ n \in Nat /\ o \in Nat /\ k \in Nat /\ o + k <= n
        BY <3>1, <1>1
      <4> QED
        BY <4>1
    <3> HIDE DEF p
    <3> QED
      BY <3>1, <3>2, <1>1 DEF Followed
  <2>3. ASSUME NEW c, Earlier(P \cup Range(t), u, o, c) PROVE Earlier(P, s, p, c)
    <3>1. \A q \in 1..m : q \in 1..(p - 1) /\ s[q] = t[q]
      BY <1>1
    <3>2. \A q \in 1..(o - 1) : m + q \in 1..(p - 1) /\ s[m + q] = u[q]
      BY <1>1
    <3> HIDE DEF p
    <3> QED
      BY <2>3, <3>1, <3>2, <1>2 DEF Earlier
  <2> HIDE DEF p
  <2>4. Adjacent(s, p)
    BY <2>1, <2>2 DEF Adjacent
  <2>5. Named(a, s, p)
    BY <2>1, Zenon DEF Named
  <2>6. Prepared(a, P, s, p)
    BY <2>1, <2>3, Zenon DEF Prepared
  <2> QED
    BY <2>1, <2>4, <2>5, <2>6 DEF p
<1>5. \A p \in 1..Len(s) : p \in 1..m \/ \E o \in 1..n : p = m + o
  <2>1. \A p \in 1..Len(s) : p \notin 1..m => (p - m) \in 1..n /\ p = m + (p - m)
    BY <1>1
  <2> QED
    BY <2>1
<1>6. Fit(a, W, P, s)
  BY <1>1, <1>3, <1>4, <1>5, Zenon DEF Fit
<1> QED
  BY <1>6 DEF s

\* A function on the numbers up to n is a sequence.
LEMMA ListIs ==
    ASSUME NEW S, NEW n \in Nat, NEW f \in [1..n -> S]
    PROVE  f \in Seq(S) /\ Len(f) = n /\ DOMAIN f = 1..n
OBVIOUS

\* Sequences of calls that are each in order are in order one behind the other.
LEMMA FitListed ==
    ASSUME NEW a, NEW W, NEW P, NEW n \in Nat, NEW ss \in [1..n -> Seq(Calls)], Len(ss) = n,
           \A i \in 1..n : Fit(a, W, P, ss[i])
    PROVE  /\ Fit(a, W, P, FlattenSeq(ss))
           /\ \A i \in 1..n : Range(ss[i]) \subseteq Range(FlattenSeq(ss))
<1>1. CASE n = 0
  <2>1. FlattenSeq(ss) = ss
    BY <1>1 DEF FlattenSeq
  <2>2. ss = << >>
    BY <1>1
  <2>3. \A i \in 1..n : FALSE
    BY <1>1
  <2>4. <<>> \in Seq(Calls) /\ \A p \in 1..Len(<<>>) : FALSE
    OBVIOUS
  <2> QED
    BY <2>1, <2>2, <2>3, <2>4 DEF Fit
<1>2. CASE n # 0
  <2>0. n \in Nat \ {0}
    BY <1>2
  <2>1. PICK g \in [1..n -> Seq(Calls)] : Joins(g, ss, n) /\ FlattenSeq(ss) = g[n]
    BY <2>0, FlattenIs
  <2> DEFINE Good(m) == /\ Fit(a, W, P, g[m])
                        /\ \A i \in 1..m : Range(ss[i]) \subseteq Range(g[m])
             Bad == {m \in 1..n : ~Good(m)}
  <2>2. Bad = {}
    <3> SUFFICES ASSUME Bad # {} PROVE FALSE
      OBVIOUS
    <3>1. Bad \in SUBSET Nat
      <4>1. 1..n \subseteq Nat
        OBVIOUS
      <4> QED
        BY <4>1, Zenon
    <3>2. PICK m \in Bad : \A k \in Bad : m <= k
      <4> HIDE DEF Bad
      <4> QED
        BY <3>1, LeastNat
    <3>3. m \in 1..n /\ ~Good(m)
      BY <3>2, Zenon
    <3>4. CASE m = 1
      <4>1. g[1] = ss[1] /\ Fit(a, W, P, ss[1])
        BY <2>1, <3>3, <3>4 DEF Joins
      <4>2. \A i \in 1..1 : i = 1
        OBVIOUS
      <4> QED
        BY <3>3, <3>4, <4>1, <4>2, Zenon
    <3>5. CASE m # 1
      <4> DEFINE k == m - 1
      <4>1. k \in 1..n /\ ~(m <= k) /\ m \in 2..n /\ \A i \in 1..m : i = m \/ i \in 1..k
        BY <3>3, <3>5
      <4>2. Good(k)
        <5> HIDE DEF k
        <5> QED
          BY <4>1, <3>2, Zenon
      <4>3. g[m] = g[k] \o ss[m] /\ Fit(a, W, P, ss[m]) /\ Fit(a, W, P, g[k])
        BY <2>1, <3>3, <4>1, <4>2, Zenon DEF Joins
      <4> HIDE DEF k
      <4>4. Fit(a, W, P \cup Range(g[k]), ss[m])
        BY <4>3, FitMore
      <4>5. Fit(a, W, P, g[m])
        BY <4>3, <4>4, FitJoin
      <4>6. Range(g[m]) = Range(g[k]) \cup Range(ss[m])
        <5>1. g[k] \in Seq(Calls) /\ ss[m] \in Seq(Calls)
          BY <4>3 DEF Fit
        <5> QED
          BY <5>1, <4>3, JoinHas
      <4>7. \A i \in 1..m : Range(ss[i]) \subseteq Range(g[m])
        BY <4>1, <4>2, <4>6, Zenon
      <4> QED
        BY <3>3, <4>5, <4>7
    <3> QED
      BY <3>4, <3>5
  <2>3. n \in 1..n
    BY <1>2
  <2>4. Good(n)
    BY <2>2, <2>3, Zenon
  <2> QED
    BY <2>1, <2>4, Zenon
<1> QED
  BY <1>1, <1>2

\* Sequences of fitting calls are joined to fitting calls, and none is lost.
LEMMA FitFlatten ==
    ASSUME NEW a, NEW W, NEW P, NEW n \in Nat, NEW ss, DOMAIN ss = 1..n,
           ss = [i \in 1..n |-> ss[i]],
           \A i \in 1..n : Fit(a, W, P, ss[i])
    PROVE  /\ Fit(a, W, P, FlattenSeq(ss))
           /\ \A i \in 1..n : Range(ss[i]) \subseteq Range(FlattenSeq(ss))
<1>1. \A i \in 1..n : ss[i] \in Seq(Calls)
  BY DEF Fit
<1>2. ss \in [1..n -> Seq(Calls)]
  BY <1>1
<1>3. Len(ss) = n
  BY <1>2, ListIs
<1> QED
  BY <1>2, <1>3, FitListed

----------------------------------------------------------------------------
(* The pieces of the scripts.                                              *)

\* A call on its own, which nothing need follow.
LEMMA CallFits ==
    ASSUME NEW a, NEW W, NEW P, NEW c \in Calls, c[1] \in W,
           c[1] \notin Writers \cup {"cached", "judge"},
           Named(a, <<c>>, 1), Prepared(a, P, <<c>>, 1)
    PROVE  Fit(a, W, P, <<c>>) /\ Range(<<c>>) = {c}
<1>1. <<c>> \in Seq(Calls) /\ Len(<<c>>) = 1 /\ <<c>>[1] = c
  OBVIOUS
<1>2. Adjacent(<<c>>, 1)
  BY <1>1 DEF Adjacent, Writers
<1>3. \A p \in 1..1 : p = 1
  OBVIOUS
<1> QED
  BY <1>1, <1>2, <1>3 DEF Fit, Range

\* The words of calls that are in order wherever they stand.
Plain == {"index", "corpus_ref", "job", "task", "flywheel_ref", "attach", "snapshot",
          "score", "raise", "complete_run", "evaluate", "evaluated", "move", "subject",
          "sources", "samples", "dataset_export", "count", "collection"}

\* Calls that refer to nothing fit anywhere.
LEMMA PlainFits ==
    ASSUME NEW a, NEW W, NEW P, NEW s \in Seq(Calls), \A p \in 1..Len(s) : s[p][1] \in W \cap Plain
    PROVE  Fit(a, W, P, s)
<1> SUFFICES ASSUME NEW p \in 1..Len(s) PROVE Adjacent(s, p) /\ Named(a, s, p) /\ Prepared(a, P, s, p)
  BY DEF Fit
<1> DEFINE w == s[p][1]
<1>1. w \in Plain
  OBVIOUS
<1> HIDE DEF w
<1>2. w \notin Writers \cup {"jsonl", "cached", "judge"}
  BY <1>1 DEF Plain, Writers
<1>3. w \notin {"create", "finalize", "ingest", "payload", "document", "adopt",
                "jsonl", "register", "hits"}
  BY <1>1 DEF Plain
<1>4. w \notin {"queries", "outcomes", "judged", "events", "term_outcomes", "start_run", "labels",
                "link", "hits", "document", "observe", "member", "corpus_export"}
  BY <1>1 DEF Plain
<1> QED
  BY <1>2, <1>3, <1>4, Zenon DEF w, Adjacent, Named, Prepared

\* A manifest write and the index behind it.
LEMMA SaveFits ==
    ASSUME NEW a, NEW W, NEW P, NEW w \in Writers \cap W, NEW x \in Terms,
           NEW k \in Kinds \cup {"evaluation"},
           "index" \in W, w # "jsonl",
           k = "evaluation" => w = "register",
           w \in {"ingest", "payload"} => k = "corpus",
           w = "register" /\ k = "run" => x \notin {"evaluation", "raw_resumes"}
    PROVE  Fit(a, W, P, Save(w, x, k)) /\ Range(Save(w, x, k)) = {<<w, x, k>>, Call("index")}
<1> DEFINE s == Save(w, x, k)
<1>1. /\ s \in Seq(Calls) /\ Len(s) = 2 /\ s[1] = <<w, x, k>> /\ s[2] = Call("index")
      /\ DOMAIN s = 1..2
  <2>1. /\ w \in Words /\ "index" \in Words /\ k \in Terms /\ "-" \in Terms
    BY DEF Writers, Kinds, Words, OpenWords, RoundWords, EvalWords, CloseWords, ExportWords,
           Terms, Names
  <2>2. <<w, x, k>> \in Calls /\ Call("index") \in Calls
    BY <2>1 DEF Calls, Call
  <2> QED
    BY <2>2 DEF Save
<1>2. s[1][1] = w /\ s[1][2] = x /\ s[1][3] = k /\ s[2][1] = "index" /\ s[2][3] = "-"
  BY <1>1 DEF Call
<1> HIDE DEF s
<1>3. \A p \in 1..2 : p = 1 \/ p = 2
  OBVIOUS
<1>4. Adjacent(s, 1) /\ Adjacent(s, 2)
  BY <1>1, <1>2 DEF Adjacent, Writers, Followed
<1>5. Named(a, s, 1) /\ Named(a, s, 2)
  BY <1>1, <1>2 DEF Named, Writers, Kinds
<1>6. Prepared(a, P, s, 1) /\ Prepared(a, P, s, 2)
  <2>1. \A v \in {"queries", "outcomes", "judged", "events", "term_outcomes", "start_run", "labels",
                  "link", "hits", "document", "observe", "member", "corpus_export"} :
           v # w /\ v # "index"
    BY DEF Writers
  <2> QED
    BY <1>2, <2>1, Zenon DEF Prepared
<1>7. Fit(a, W, P, s)
  BY <1>1, <1>2, <1>3, <1>4, <1>5, <1>6 DEF Fit
<1>8. Range(s) = {s[1], s[2]}
  <2>1. 1 \in 1..2 /\ 2 \in 1..2
    OBVIOUS
  <2> QED
    BY <1>1, <1>3, <2>1, Zenon DEF Range
<1> QED
  BY <1>1, <1>7, <1>8 DEF s

\* Opening a run's two roots refers to nothing.
LEMMA OpenFits == \A a, P : Fit(a, OpenWords, P, OpenCalls)
<1> SUFFICES ASSUME NEW a, NEW P PROVE Fit(a, OpenWords, P, OpenCalls)
  OBVIOUS
<1>1. "-" \in Terms
  BY DEF Terms, Names
<1>2. \A Q : /\ Fit(a, OpenWords, Q, Save("create", "-", "run"))
             /\ Fit(a, OpenWords, Q, Save("create", "-", "corpus"))
  BY <1>1, SaveFits DEF OpenWords, Writers, Kinds
<1> QED
  BY <1>2, FitJoin DEF OpenCalls

\* _start_corpus_run and _start_flywheel_run write the job before its link, and the task
\* before the run.
LEMMA StartFits ==
    ASSUME NEW a, NEW P
    PROVE  /\ Fit(a, StartWords, P, StartCalls) /\ Len(StartCalls) = 6
           /\ Call("start_run") \in Range(StartCalls) /\ Call("task") \in Range(StartCalls)
<1> DEFINE s == StartCalls
<1>1. /\ s \in Seq(Calls) /\ Len(s) = 6 /\ DOMAIN s = 1..6
      /\ s[1] = <<"corpus_ref", "input", "run">> /\ s[2] = Call("job") /\ s[3] = Call("link")
      /\ s[4] = Call("task") /\ s[5] = <<"flywheel_ref", "manifest", "run">>
      /\ s[6] = Call("start_run")
  <2>1. /\ <<"corpus_ref", "input", "run">> \in Calls /\ Call("job") \in Calls
        /\ Call("link") \in Calls /\ Call("task") \in Calls
        /\ <<"flywheel_ref", "manifest", "run">> \in Calls /\ Call("start_run") \in Calls
    <3>1. /\ "corpus_ref" \in Words /\ "job" \in Words /\ "link" \in Words /\ "task" \in Words
          /\ "flywheel_ref" \in Words /\ "start_run" \in Words
          /\ "-" \in Terms /\ "run" \in Terms /\ "input" \in Terms /\ "manifest" \in Terms
      BY DEF Words, StartWords, Terms, Names
    <3> QED
      BY <3>1 DEF Calls, Call
  <2> QED
    BY <2>1 DEF StartCalls
<1> HIDE DEF s
<1>2. /\ s[1][1] = "corpus_ref" /\ s[2][1] = "job" /\ s[3][1] = "link"
      /\ s[4][1] = "task" /\ s[5][1] = "flywheel_ref" /\ s[6][1] = "start_run"
  BY <1>1 DEF Call
<1>3. Earlier(P, s, 3, Call("job")) /\ Earlier(P, s, 6, Call("task"))
  <2>1. 2 \in 1..(3 - 1) /\ 4 \in 1..(6 - 1)
    OBVIOUS
  <2> QED
    BY <1>1, <2>1, Zenon DEF Earlier
<1>4. ASSUME NEW p \in 1..6 PROVE Adjacent(s, p) /\ Named(a, s, p) /\ s[p][1] \in StartWords
  <2>1. p \in {1, 2, 3, 4, 5, 6}
    OBVIOUS
  <2> QED
    BY <1>2, <2>1 DEF Adjacent, Named, StartWords, Writers
<1>5. ASSUME NEW p \in 1..6 PROVE Prepared(a, P, s, p)
  <2>1. p \in {1, 2, 3, 4, 5, 6}
    OBVIOUS
  <2>2. s[p][1] \notin {"queries", "outcomes", "judged", "events", "term_outcomes", "labels",
                        "hits", "document", "observe", "member", "corpus_export"}
    BY <1>2, <2>1
  <2>3. s[p][1] = "link" => p = 3
    BY <1>2, <2>1
  <2>4. s[p][1] = "start_run" => p = 6
    BY <1>2, <2>1
  <2> QED
    BY <1>3, <2>2, <2>3, <2>4, Zenon DEF Prepared
<1>6. Fit(a, StartWords, P, s)
  BY <1>1, <1>4, <1>5 DEF Fit
<1>7. s[6] \in Range(s) /\ s[4] \in Range(s)
  BY <1>1 DEF Range
<1> QED
  BY <1>1, <1>6, <1>7 DEF s

\* What a resume's document needs is written before it.
LEMMA ResumeFits ==
    ASSUME NEW a, NEW P, NEW r \in DOMAIN Person
    PROVE  /\ Fit(a, RoundWords, P, ResumeCalls(r))
           /\ <<"document", r, "corpus">> \in Range(ResumeCalls(r))
           /\ <<"corpus_ref", r, "corpus">> \in Range(ResumeCalls(r))
<1> DEFINE t == Save("payload", r, "corpus")
           u == << <<"corpus_ref", r, "corpus">>, <<"subject", r, "-">>, <<"document", r, "corpus">> >>
           Q == P \cup Range(t)
<1>1. /\ r \in Terms /\ "-" \in Terms /\ "corpus" \in Terms
      /\ "corpus_ref" \in Words /\ "subject" \in Words /\ "document" \in Words
  BY DEF Terms, Names, Words, RoundWords
<1>2. Fit(a, RoundWords, P, t) /\ <<"payload", r, "corpus">> \in Range(t)
  <2>1. /\ "payload" \in Writers \cap RoundWords /\ "corpus" \in Kinds \cup {"evaluation"}
        /\ "index" \in RoundWords
    BY DEF Writers, RoundWords, Kinds
  <2>2. /\ Fit(a, RoundWords, P, Save("payload", r, "corpus"))
        /\ Range(Save("payload", r, "corpus")) = {<<"payload", r, "corpus">>, Call("index")}
    BY <1>1, <2>1, SaveFits
  <2> QED
    BY <2>2
<1>3. /\ u \in Seq(Calls) /\ Len(u) = 3 /\ DOMAIN u = 1..3
      /\ u[1] = <<"corpus_ref", r, "corpus">> /\ u[2] = <<"subject", r, "-">>
      /\ u[3] = <<"document", r, "corpus">>
  <2>1. /\ <<"corpus_ref", r, "corpus">> \in Calls /\ <<"subject", r, "-">> \in Calls
        /\ <<"document", r, "corpus">> \in Calls
    BY <1>1 DEF Calls
  <2> QED
    BY <2>1
<1>4. /\ u[1][1] = "corpus_ref" /\ u[2][1] = "subject" /\ u[3][1] = "document"
      /\ u[3][2] = r /\ u[3][3] = "corpus"
  BY <1>3
<1> HIDE DEF t, u
<1>5. ASSUME NEW p \in 1..3 PROVE Adjacent(u, p) /\ Named(a, u, p) /\ u[p][1] \in RoundWords
  <2>1. p \in {1, 2, 3}
    OBVIOUS
  <2> QED
    BY <1>4, <2>1 DEF Adjacent, Named, RoundWords, Writers
<1>6. /\ Earlier(Q, u, 3, <<"payload", r, "corpus">>)
      /\ Earlier(Q, u, 3, <<"corpus_ref", r, "corpus">>)
      /\ Earlier(Q, u, 3, <<"subject", r, "-">>)
  <2>1. 1 \in 1..(3 - 1) /\ 2 \in 1..(3 - 1)
    OBVIOUS
  <2> QED
    BY <1>2, <1>3, <2>1, Zenon DEF Earlier
<1>7. ASSUME NEW p \in 1..3 PROVE Prepared(a, Q, u, p)
  <2>1. p \in {1, 2, 3}
    OBVIOUS
  <2>2. u[p][1] \notin {"queries", "outcomes", "judged", "events", "term_outcomes", "labels",
                        "start_run", "link", "hits", "observe", "member", "corpus_export"}
    BY <1>4, <2>1
  <2>3. u[p][1] = "document" => p = 3
    BY <1>4, <2>1
  <2> QED
    BY <1>4, <1>6, <2>2, <2>3, Zenon DEF Prepared
<1>8. Fit(a, RoundWords, Q, u)
  BY <1>3, <1>5, <1>7, Zenon DEF Fit
<1>9. Fit(a, RoundWords, P, t \o u)
  BY <1>2, <1>8, FitJoin
<1>10. Range(t \o u) = Range(t) \cup Range(u)
  BY <1>2, <1>3, JoinHas DEF Fit
<1>11. u[1] \in Range(u) /\ u[3] \in Range(u)
  <2>1. 1 \in 1..3 /\ 3 \in 1..3
    OBVIOUS
  <2> QED
    BY <1>3, <2>1, Zenon DEF Range
<1> QED
  BY <1>3, <1>9, <1>10, <1>11 DEF t, u, ResumeCalls

\* ensure_default_collection needs nothing and leaves a collection.
LEMMA CountFits ==
    ASSUME NEW a, NEW P, NEW W, "count" \in W, "collection" \in W
    PROVE  Fit(a, W, P, CountCalls) /\ Call("collection") \in Range(CountCalls)
<1> DEFINE s == CountCalls
<1>1. /\ s \in Seq(Calls) /\ Len(s) = 2 /\ DOMAIN s = 1..2
      /\ s[1] = Call("count") /\ s[2] = Call("collection")
  <2>1. Call("count") \in Calls /\ Call("collection") \in Calls
    <3>1. "count" \in Words /\ "collection" \in Words /\ "-" \in Terms
      BY DEF Terms, Names, Words, RoundWords
    <3> QED
      BY <3>1 DEF Calls, Call
  <2> QED
    BY <2>1 DEF CountCalls
<1>2. s[1][1] = "count" /\ s[2][1] = "collection"
  BY <1>1 DEF Call
<1> HIDE DEF s
<1>3. \A p \in 1..Len(s) : s[p][1] \in W \cap Plain
  <2>1. \A p \in 1..2 : p = 1 \/ p = 2
    OBVIOUS
  <2> QED
    BY <1>1, <1>2, <2>1 DEF Plain
<1>4. Fit(a, W, P, s)
  BY <1>1, <1>3, PlainFits
<1>5. 2 \in DOMAIN s
  BY <1>1
<1> QED
  BY <1>1, <1>4, <1>5 DEF s, Range

\* What a sequence is made of.
LEMMA SeqIs ==
    ASSUME NEW S, NEW s \in Seq(S)
    PROVE  Len(s) \in Nat /\ DOMAIN s = 1..Len(s) /\ \A i \in 1..Len(s) : s[i] \in S
OBVIOUS

\* The arrivals of a run as a sequence, and sequences made of them one by one.
LEMMA ArrivalsAre ==
    ASSUME NEW a \in Actor
    PROVE  /\ Len(Arrivals[a]) \in Nat /\ DOMAIN Arrivals[a] = 1..Len(Arrivals[a])
           /\ \A i \in DOMAIN Arrivals[a] : /\ Arrivals[a][i].query \in RunQueries(a)
                                            /\ Arrivals[a][i].resume \in DOMAIN Person
           /\ Range(Arrivals[a]) = {Arrivals[a][i] : i \in DOMAIN Arrivals[a]}
<1>1. Arrivals[a] \in Seq([query : RunQueries(a), resume : DOMAIN Person])
  BY RecordsAssumption
<1>2. /\ Len(Arrivals[a]) \in Nat /\ DOMAIN Arrivals[a] = 1..Len(Arrivals[a])
      /\ \A i \in 1..Len(Arrivals[a]) : Arrivals[a][i] \in [query : RunQueries(a), resume : DOMAIN Person]
  BY <1>1, SeqIs
<1> QED
  BY <1>2 DEF Range

\* A query's resumes are documents before they are observed, and observed before
\* they become members of the collection.
LEMMA CorpusFits ==
    ASSUME NEW a \in Actor, NEW P, NEW q \in DOMAIN TermsOf
    PROVE  Fit(a, RoundWords, P, CorpusCalls(a, q))
<1> DEFINE n == Len(Arrivals[a])
           x(i) == Arrivals[a][i]
           got == {i \in DOMAIN Arrivals[a] : Arrivals[a][i].query = q}
           resumes == [i \in DOMAIN Arrivals[a] |->
                          IF i \in got THEN ResumeCalls(Arrivals[a][i].resume) ELSE <<>>]
           members == [i \in DOMAIN Arrivals[a] |->
                          IF i \in got THEN << <<"member", Arrivals[a][i].resume, q>> >> ELSE <<>>]
           observe == <<"observe", q, "corpus">>
           rest == IF got = {} THEN <<>>
                   ELSE << observe >> \o FlattenSeq(members) \o CountCalls
           P1 == P \cup Range(CountCalls)
           P2 == P1 \cup Range(FlattenSeq(resumes))
           P3 == P2 \cup Range(<< observe >>)
<1>1. /\ n \in Nat /\ DOMAIN Arrivals[a] = 1..n
      /\ \A i \in 1..n : x(i).query \in RunQueries(a) /\ x(i).resume \in DOMAIN Person
      /\ Range(Arrivals[a]) = {x(i) : i \in 1..n}
      /\ got = {i \in 1..n : x(i).query = q}
  BY ArrivalsAre
<1>2. CorpusCalls(a, q) = (CountCalls \o FlattenSeq(resumes)) \o rest
  BY Zenon DEF CorpusCalls
<1> HIDE DEF n
<1>3. "count" \in RoundWords /\ "collection" \in RoundWords
  BY DEF RoundWords
<1>4. \A Q : Fit(a, RoundWords, Q, CountCalls) /\ Call("collection") \in Range(CountCalls)
  BY <1>3, CountFits
<1>5. \A Q : Fit(a, RoundWords, Q, <<>>)
  BY DEF Fit
<1>6. /\ Fit(a, RoundWords, P1, FlattenSeq(resumes))
      /\ \A i \in got : /\ <<"document", x(i).resume, "corpus">> \in P2
                        /\ <<"corpus_ref", x(i).resume, "corpus">> \in P2
  <2>1. \A i \in 1..n : resumes[i] = IF i \in got THEN ResumeCalls(x(i).resume) ELSE <<>>
    BY <1>1
  <2>2. \A i \in 1..n : Fit(a, RoundWords, P1, resumes[i])
    BY <1>1, <1>5, <2>1, ResumeFits
  <2>3. DOMAIN resumes = 1..n /\ resumes = [i \in 1..n |-> resumes[i]]
    BY <1>1
  <2> HIDE DEF resumes
  <2>4. /\ Fit(a, RoundWords, P1, FlattenSeq(resumes))
        /\ \A i \in 1..n : Range(resumes[i]) \subseteq Range(FlattenSeq(resumes))
    BY <1>1, <2>2, <2>3, FitFlatten
  <2>5. \A i \in got : /\ <<"document", x(i).resume, "corpus">> \in Range(resumes[i])
                       /\ <<"corpus_ref", x(i).resume, "corpus">> \in Range(resumes[i])
    BY <1>1, <2>1, ResumeFits
  <2> HIDE DEF got
  <2> QED
    BY <1>1, <2>4, <2>5 DEF got
<1>7. Fit(a, RoundWords, P2, rest)
  <2>1. CASE got = {}
    BY <1>5, <2>1
  <2>2. CASE got # {}
    <3>1. q \in Terms /\ "corpus" \in Terms /\ observe \in Calls
      <4>1. q \in Terms /\ "corpus" \in Terms /\ "observe" \in Words
        BY DEF Terms, Names, Words, RoundWords
      <4> QED
        BY <4>1 DEF Calls
    <3>2. <<observe>>[1][1] = "observe" /\ <<observe>>[1][2] = q /\ <<observe>>[1][3] = "corpus"
      OBVIOUS
    <3>3. Prepared(a, P2, <<observe>>, 1)
      <4>1. \A y \in Range(Arrivals[a]) : y.query = q =>
               /\ <<"document", y.resume, "corpus">> \in P2
               /\ <<"corpus_ref", y.resume, "corpus">> \in P2
        BY <1>1, <1>6, Zenon
      <4> HIDE DEF observe, P2
      <4> QED
        BY <3>2, <4>1 DEF Prepared, Earlier
    <3>4. Named(a, <<observe>>, 1)
      <4> HIDE DEF observe
      <4> QED
        BY <3>2 DEF Named, Writers
    <3>5. observe[1] \in RoundWords /\ observe[1] \notin Writers \cup {"cached", "judge"}
      BY DEF RoundWords, Writers
    <3>6. Fit(a, RoundWords, P2, <<observe>>) /\ Range(<<observe>>) = {observe}
      <4> HIDE DEF observe, P2
      <4> QED
        BY <3>1, <3>3, <3>4, <3>5, CallFits
    <3>7. Fit(a, RoundWords, P3, FlattenSeq(members))
      <4>1. \A i \in 1..n : members[i] = IF i \in got THEN << <<"member", x(i).resume, q>> >> ELSE <<>>
        BY <1>1
      <4>2. ASSUME NEW i \in 1..n PROVE Fit(a, RoundWords, P3, members[i])
        <5> DEFINE c == <<"member", x(i).resume, q>>
        <5>1. CASE i \in got
          <6>1. c \in Calls
            <7>1. "member" \in Words /\ x(i).resume \in Terms /\ q \in Terms
              BY <1>1 DEF Words, RoundWords, Terms
            <7> QED
              BY <7>1 DEF Calls
          <6>2. /\ <<c>>[1][1] = "member" /\ <<c>>[1][2] = x(i).resume /\ <<c>>[1][3] = q
                /\ c[1] = "member"
            OBVIOUS
          <6> HIDE DEF c
          <6>3. Named(a, <<c>>, 1)
            BY <6>2 DEF Named, Writers
          <6>4. Prepared(a, P3, <<c>>, 1)
            <7>1. /\ <<"observe", q, "corpus">> \in P3
                  /\ <<"document", x(i).resume, "corpus">> \in P3
                  /\ Call("collection") \in P3
              BY <1>4, <1>6, <3>6, <5>1
            <7>2. \E y \in Range(Arrivals[a]) : y.query = q /\ y.resume = x(i).resume
              BY <1>1, <5>1
            <7> HIDE DEF P3
            <7> QED
              BY <6>2, <7>1, <7>2 DEF Prepared, Earlier
          <6>5. "member" \in RoundWords /\ "member" \notin Writers \cup {"cached", "judge"}
            BY DEF RoundWords, Writers
          <6>6. Fit(a, RoundWords, P3, <<c>>)
            <7> HIDE DEF P3
            <7> QED
              BY <6>1, <6>2, <6>3, <6>4, <6>5, CallFits
          <6> QED
            BY <4>1, <5>1, <6>6 DEF c
        <5>2. CASE i \notin got
          BY <4>1, <5>2, <1>5
        <5> QED
          BY <5>1, <5>2
      <4>3. DOMAIN members = 1..n /\ members = [i \in 1..n |-> members[i]]
        BY <1>1
      <4> HIDE DEF members, P3
      <4> QED
        BY <1>1, <4>2, <4>3, FitFlatten
    <3> HIDE DEF members, P3, observe
    <3>8. Fit(a, RoundWords, P2, <<observe>> \o FlattenSeq(members))
      BY <3>6, <3>7, FitJoin DEF P3
    <3>9. Fit(a, RoundWords, P2, (<<observe>> \o FlattenSeq(members)) \o CountCalls)
      BY <1>4, <3>8, FitJoin
    <3> QED
      BY <2>2, <3>9
  <2> QED
    BY <2>1, <2>2
<1> HIDE DEF rest, resumes
<1>8. Fit(a, RoundWords, P, CountCalls \o FlattenSeq(resumes))
  BY <1>4, <1>6, FitJoin
<1>9. Range(CountCalls \o FlattenSeq(resumes)) = Range(CountCalls) \cup Range(FlattenSeq(resumes))
  BY <1>4, <1>6, JoinHas DEF Fit
<1>10. P2 = P \cup Range(CountCalls \o FlattenSeq(resumes))
  BY <1>9
<1> QED
  BY <1>2, <1>7, <1>8, <1>10, FitJoin

\* The rows of the tables are written and their references set in them.
LEMMA MaterializeFits ==
    ASSUME NEW a, NEW P, NEW W, NEW k \in {"run", "evaluation"}, {"jsonl", "index", "attach"} \subseteq W
    PROVE  Fit(a, W, P, MaterializeCalls(k))
<1> DEFINE one(t) == Save("jsonl", t, k) \o << <<"attach", t, k>> >>
           ss == [i \in DOMAIN RunTables |-> one(RunTables[i])]
<1>1. ASSUME NEW t \in {"outcomes", "judged", "events", "termOutcomes"}
      PROVE  Fit(a, W, P, one(t))
  <2> DEFINE s == one(t)
  <2>1. /\ s \in Seq(Calls) /\ Len(s) = 3
        /\ s[1] = <<"jsonl", t, k>> /\ s[2] = Call("index") /\ s[3] = <<"attach", t, k>>
    <3>1. <<"jsonl", t, k>> \in Calls /\ Call("index") \in Calls /\ <<"attach", t, k>> \in Calls
      <4>1. /\ t \in Terms /\ k \in Terms /\ "-" \in Terms
            /\ "jsonl" \in Words /\ "index" \in Words /\ "attach" \in Words
        BY DEF Terms, Names, Words, RoundWords
      <4> QED
        BY <4>1 DEF Calls, Call
    <3> QED
      BY <3>1 DEF Save
  <2>2. /\ s[1][1] = "jsonl" /\ s[1][2] = t /\ s[2][1] = "index" /\ s[3][1] = "attach"
        /\ s[1][3] = k
    BY <2>1 DEF Call
  <2> HIDE DEF s
  <2>3. ASSUME NEW p \in 1..3
        PROVE  /\ s[p][1] \in W /\ Adjacent(s, p) /\ Named(a, s, p) /\ Prepared(a, P, s, p)
    <3>1. p \in {1, 2, 3}
      OBVIOUS
    <3>2. s[p][1] \in W /\ Adjacent(s, p)
      BY <2>1, <2>2, <3>1 DEF Adjacent, Writers, Followed
    <3>3. Named(a, s, p)
      BY <2>2, <3>1 DEF Named, Writers, Kinds
    <3>4. s[p][1] \notin {"queries", "outcomes", "judged", "events", "term_outcomes", "labels",
                          "start_run", "link", "hits", "observe", "member", "corpus_export", "document"}
      BY <2>2, <3>1
    <3>5. Prepared(a, P, s, p)
      BY <3>4, Zenon DEF Prepared
    <3> QED
      BY <3>2, <3>3, <3>5
  <2>4. Fit(a, W, P, s)
    BY <2>1, <2>3 DEF Fit
  <2> QED
    BY <2>4 DEF s
<1>2. /\ DOMAIN RunTables = 1..4
      /\ \A i \in 1..4 : RunTables[i] \in {"outcomes", "judged", "events", "termOutcomes"}
  BY DEF RunTables
<1> HIDE DEF one
<1>3. DOMAIN ss = 1..4 /\ \A i \in 1..4 : Fit(a, W, P, ss[i])
  BY <1>1, <1>2
<1>4. ss = [i \in 1..4 |-> ss[i]]
  BY <1>2
<1>5. MaterializeCalls(k) = FlattenSeq(ss)
  BY DEF MaterializeCalls, one
<1> HIDE DEF ss
<1>6. Fit(a, W, P, FlattenSeq(ss))
  BY <1>3, <1>4, FitFlatten
<1> QED
  BY <1>5, <1>6

\* Joining three and more pieces.
LEMMA FitJoins ==
    ASSUME NEW a, NEW W, NEW P, NEW t, NEW u, NEW Q, Fit(a, W, P, t), Fit(a, W, Q, u),
           Q \subseteq P \cup Range(t)
    PROVE  /\ Fit(a, W, P, t \o u)
           /\ Range(t \o u) = Range(t) \cup Range(u)
<1>1. W \subseteq W
  OBVIOUS
<1>2. Fit(a, W, P \cup Range(t), u)
  BY <1>1, FitMore
<1>3. Fit(a, W, P, t \o u)
  BY <1>2, FitJoin
<1>4. Range(t \o u) = Range(t) \cup Range(u)
  BY JoinHas DEF Fit
<1> QED
  BY <1>3, <1>4

\* A set listed as a sequence.
LEMMA SetToSeqIs ==
    ASSUME NEW S, IsFiniteSet(S)
    PROVE  /\ Cardinality(S) \in Nat
           /\ SetToSeq(S) \in [1..Cardinality(S) -> S]
           /\ \A x \in S : \E i \in 1..Cardinality(S) : SetToSeq(S)[i] = x
<1> DEFINE n == Cardinality(S)
<1>1. n \in Nat
  BY FS_CardinalityType
<1> HIDE DEF n
<1>2. IsFiniteSet(1..n) /\ Cardinality(1..n) = n
  BY <1>1, FS_Interval
<1>3. ExistsBijection(1..n, S)
  BY <1>2, FS_SameCardinalityBij DEF n
<1>4. PICK g \in [1..n -> S] : IsInjective(g)
  BY <1>3 DEF ExistsBijection, Bijection, Injection, IsInjective
<1> DEFINE f == SetToSeq(S)
<1>5. f \in [1..n -> S] /\ IsInjective(f)
  BY <1>4, Zenon DEF SetToSeq, n
<1> HIDE DEF f
<1>6. f \in Injection(1..n, S)
  BY <1>5, Zenon DEF Injection, IsInjective
<1>7. f \in Surjection(1..n, S)
  BY <1>2, <1>6, FS_Injection DEF n
<1> QED
  BY <1>1, <1>5, <1>7, Zenon DEF Surjection, f, n

\* Sequences of one call and of two.
LEMMA SingleIs ==
    ASSUME NEW S, NEW c \in S
    PROVE  <<c>> \in Seq(S) /\ Len(<<c>>) = 1 /\ <<c>>[1] = c /\ Range(<<c>>) = {c}
<1>1. <<c>> \in Seq(S) /\ Len(<<c>>) = 1 /\ <<c>>[1] = c
  OBVIOUS
<1>2. \A p \in 1..1 : p = 1
  OBVIOUS
<1> QED
  BY <1>1, <1>2 DEF Range

\* Two calls are one call after the other.
LEMMA PairIs ==
    ASSUME NEW S, NEW c \in S, NEW d \in S
    PROVE  <<c, d>> = <<c>> \o <<d>>
<1> DEFINE t == <<c>>
           u == <<d>>
           s == t \o u
           v == <<c, d>>
<1>1. t \in Seq(S) /\ u \in Seq(S) /\ Len(t) = 1 /\ Len(u) = 1 /\ t[1] = c /\ u[1] = d
  BY SingleIs
<1>2. v \in Seq(S) /\ Len(v) = 2 /\ v[1] = c /\ v[2] = d
  OBVIOUS
<1> HIDE DEF t, u, v
<1>3. s \in Seq(S) /\ Len(s) = 2 /\ s[1] = c /\ s[1 + 1] = d
  BY <1>1, JoinIs
<1> HIDE DEF s
<1>4. \A p \in 1..2 : p = 1 \/ p = 2
  OBVIOUS
<1>5. s[2] = d
  BY <1>3
<1>6. \A p \in 1..2 : s[p] = v[p]
  BY <1>2, <1>3, <1>4, <1>5
<1>7. s = v
  BY <1>2, <1>3, <1>6, SeqEqual
<1> QED
  BY <1>7 DEF s, t, u, v

\* Two calls that nothing need follow.
LEMMA FitPair ==
    ASSUME NEW a, NEW W, NEW P, NEW c \in Calls, NEW d \in Calls,
           Fit(a, W, P, <<c>>), Fit(a, W, P \cup {c}, <<d>>)
    PROVE  Fit(a, W, P, <<c, d>>) /\ Range(<<c, d>>) = {c, d}
<1>1. <<c, d>> = <<c>> \o <<d>>
  BY PairIs
<1>2. Range(<<c>>) = {c} /\ Range(<<d>>) = {d}
  BY SingleIs
<1>3. Fit(a, W, P, <<c>> \o <<d>>)
  BY <1>2, FitJoin
<1>4. Range(<<c>> \o <<d>>) = Range(<<c>>) \cup Range(<<d>>)
  BY JoinHas DEF Fit
<1>5. Range(<<c, d>>) = {c, d}
  BY <1>1, <1>2, <1>4
<1> QED
  BY <1>1, <1>3, <1>5

\* A call of which only what was written before matters.
LEMMA WordFits ==
    ASSUME NEW a, NEW W, NEW P, NEW w \in Words \cap W, NEW x \in Terms, NEW k \in Terms,
           w \notin Writers \cup {"cached", "judge", "labels", "document", "observe", "member",
                                  "corpus_export"},
           w \in {"queries", "outcomes", "judged", "events", "term_outcomes"} => Call("start_run") \in P,
           w \in {"start_run", "judged"} => Call("task") \in P,
           w = "link" => Call("job") \in P, w = "adopt" => k = "evaluation",
           w = "hits" => x \in DOMAIN Sent[a] /\ <<"queries", x, "-">> \in P
    PROVE  /\ <<w, x, k>> \in Calls
           /\ Fit(a, W, P, << <<w, x, k>> >>)
           /\ Range(<< <<w, x, k>> >>) = {<<w, x, k>>}
<1> DEFINE c == <<w, x, k>>
<1>1. c \in Calls
  BY DEF Calls
<1>2. /\ <<c>>[1][1] = w /\ <<c>>[1][2] = x /\ <<c>>[1][3] = k /\ c[1] = w
  OBVIOUS
<1>3. w \notin {"create", "finalize", "ingest", "payload", "jsonl", "register"}
  BY DEF Writers
<1> HIDE DEF c
<1>4. Named(a, <<c>>, 1)
  BY <1>2, <1>3, Zenon DEF Named
<1>5. Prepared(a, P, <<c>>, 1)
  BY <1>2, Zenon DEF Prepared, Earlier
<1>6. w \notin Writers \cup {"cached", "judge"}
  OBVIOUS
<1> QED
  BY <1>1, <1>2, <1>4, <1>5, <1>6, CallFits DEF c

\* The resumes of some of a run's arrivals.
LEMMA ResumesOf ==
    ASSUME NEW a \in Actor, NEW I, I \subseteq DOMAIN Arrivals[a]
    PROVE  /\ IsFiniteSet({Arrivals[a][i].resume : i \in I})
           /\ {Arrivals[a][i].resume : i \in I} \subseteq DOMAIN Person
           /\ IsFiniteSet(I)
<1> DEFINE R == {Arrivals[a][i].resume : i \in I}
           f == [i \in I |-> Arrivals[a][i].resume]
<1>1. IsFiniteSet(I)
  <2>1. IsFiniteSet(DOMAIN Arrivals[a])
    BY ArrivalsAre, FS_Interval
  <2> QED
    BY <2>1, FS_Subset
<1>2. f \in Surjection(I, R)
  BY Zenon DEF Surjection
<1>3. IsFiniteSet(R)
  <2> HIDE DEF f, R
  <2> QED
    BY <1>1, <1>2, FS_Surjection
<1> QED
  BY <1>1, <1>3, ArrivalsAre

\* The snapshots of a finite set of resumes, one call each.
LEMMA SnapshotsFit ==
    ASSUME NEW a, NEW W, NEW P, NEW R \in SUBSET DOMAIN Person, IsFiniteSet(R), NEW k \in Nat,
           "snapshot" \in W
    PROVE  LET listed == SetToSeq(R)
               s == [i \in DOMAIN listed |-> <<"snapshot", listed[i], k>>]
           IN  /\ Fit(a, W, P, s)
               /\ \A r \in R : <<"snapshot", r, k>> \in Range(s)
<1> DEFINE listed == SetToSeq(R)
           n == Cardinality(R)
           s == [i \in DOMAIN listed |-> <<"snapshot", listed[i], k>>]
<1>1. /\ n \in Nat /\ listed \in [1..n -> R]
      /\ \A r \in R : \E i \in 1..n : listed[i] = r
  BY SetToSeqIs
<1> HIDE DEF listed, n
<1>2. DOMAIN listed = 1..n
  BY <1>1
<1>3. \A i \in 1..n : s[i] = <<"snapshot", listed[i], k>> /\ s[i] \in Calls
  <2>1. /\ "snapshot" \in Words /\ k \in Terms
        /\ \A i \in 1..n : listed[i] \in Terms
    BY <1>1 DEF Words, RoundWords, Terms
  <2> QED
    BY <1>2, <2>1 DEF Calls
<1>4. DOMAIN s = 1..n
  BY <1>2
<1>5. s \in [1..n -> Calls]
  BY <1>2, <1>3
<1> HIDE DEF s
<1>6. s \in Seq(Calls) /\ Len(s) = n
  BY <1>1, <1>5, ListIs
<1>7. \A p \in 1..Len(s) : s[p][1] \in W \cap Plain
  BY <1>3, <1>6 DEF Plain
<1>8. Fit(a, W, P, s)
  BY <1>6, <1>7, PlainFits
<1>9. \A r \in R : <<"snapshot", r, k>> \in Range(s)
  BY <1>1, <1>3, <1>4, Zenon DEF Range
<1> QED
  BY <1>8, <1>9 DEF s, listed

\* The rounds a run has, and the queries of a round.
LEMMA SentAre ==
    ASSUME NEW a \in Actor
    PROVE  /\ Len(Sent[a]) \in Nat /\ DOMAIN Sent[a] = 1..Len(Sent[a])
           /\ \A n \in DOMAIN Sent[a] :
                /\ n \in Nat
                /\ Len(Sent[a][n]) \in Nat /\ DOMAIN Sent[a][n] = 1..Len(Sent[a][n])
                /\ \A k \in DOMAIN Sent[a][n] : Sent[a][n][k] \in DOMAIN TermsOf
<1> DEFINE S == Seq(DOMAIN TermsOf)
<1>1. Sent[a] \in Seq(S)
  BY RecordsAssumption
<1> HIDE DEF S
<1>2. /\ Len(Sent[a]) \in Nat /\ DOMAIN Sent[a] = 1..Len(Sent[a])
      /\ \A n \in 1..Len(Sent[a]) : Sent[a][n] \in S
  BY <1>1, SeqIs
<1>3. \A s \in S : /\ Len(s) \in Nat /\ DOMAIN s = 1..Len(s)
                   /\ \A i \in 1..Len(s) : s[i] \in DOMAIN TermsOf
  BY SeqIs DEF S
<1>4. 1..Len(Sent[a]) \subseteq Nat
  BY <1>2
<1> QED
  BY <1>2, <1>3, <1>4

\* The queries of a round are rows before their hits, and nothing is derived from
\* the hits of a run that has no row.
LEMMA RetrievalFits ==
    ASSUME NEW a \in Actor, NEW P, Call("start_run") \in P, NEW n \in DOMAIN Sent[a]
    PROVE  Fit(a, RoundWords, P, RetrievalCalls(a, n))
<1> DEFINE places == {Arrivals[a][i].resume : i \in Places(a, n)}
           arrived == SetToSeq(places)
           A == Save("hits_artifact", n, "run")
           B == << <<"queries", n, "-">> >>
           C == [i \in DOMAIN arrived |-> <<"snapshot", arrived[i], n>>]
           D == << <<"hits", n, "-">>, <<"outcomes", n, "-">> >>
           E == IF Refused[a] = {} THEN <<>> ELSE << <<"flywheel_ref", "prf", "run">> >>
           F == RecordThenWrite(n)
           G == <<Call("raise")>>
<1>1. RetrievalCalls(a, n) = (((((A \o B) \o C) \o D) \o E) \o F) \o G
  BY Zenon DEF RetrievalCalls
<1>2. n \in Nat /\ n \in Terms /\ "-" \in Terms /\ "run" \in Terms /\ "prf" \in Terms
  BY SentAre DEF Terms, Names
<1>3. {"queries", "hits", "outcomes", "flywheel_ref", "raise", "events", "term_outcomes"}
        \subseteq Words \cap RoundWords
  BY DEF Words, RoundWords
<1>4. \A w \in {"queries", "hits", "outcomes", "flywheel_ref", "raise", "events", "term_outcomes"} :
         w \notin Writers \cup {"cached", "judge", "labels", "document", "observe", "member",
                                "corpus_export"}
  BY DEF Writers
<1>5. Fit(a, RoundWords, P, A)
  <2>1. /\ "hits_artifact" \in Writers \cap RoundWords /\ "run" \in Kinds \cup {"evaluation"}
        /\ "index" \in RoundWords
    BY DEF Writers, RoundWords, Kinds
  <2> QED
    BY <1>2, <2>1, SaveFits
<1>6. ASSUME NEW Q, P \subseteq Q
      PROVE  /\ Fit(a, RoundWords, Q, B)
             /\ Range(B) = {<<"queries", n, "-">>}
  <2>1. Call("start_run") \in Q
    BY <1>6
  <2>2. /\ "queries" \in Words \cap RoundWords /\ n \in Terms /\ "-" \in Terms
        /\ "queries" \notin Writers \cup {"cached", "judge", "labels", "document", "observe",
                                         "member", "corpus_export"}
    BY <1>2, <1>3, <1>4
  <2>3. /\ Fit(a, RoundWords, Q, << <<"queries", n, "-">> >>)
        /\ Range(<< <<"queries", n, "-">> >>) = {<<"queries", n, "-">>}
    <3>1. <<"queries", n, "-">> \in Calls
      BY <2>2 DEF Calls
    <3>2. Fit(a, RoundWords, Q, << <<"queries", n, "-">> >>)
      BY <2>1, <2>2, WordFits
    <3> QED
      BY <3>1, <3>2, SingleIs
  <2> QED
    BY <2>3
<1>7. \A Q : Fit(a, RoundWords, Q, C)
  <2>1. /\ places \in SUBSET DOMAIN Person /\ IsFiniteSet(places)
    BY ResumesOf DEF Places
  <2> HIDE DEF places
  <2>2. "snapshot" \in RoundWords
    BY DEF RoundWords
  <2> QED
    BY <1>2, <2>1, <2>2, SnapshotsFit
<1>8. ASSUME NEW Q, P \cup {<<"queries", n, "-">>} \subseteq Q PROVE Fit(a, RoundWords, Q, D)
  <2>1. <<"hits", n, "-">> \in Calls /\ Fit(a, RoundWords, Q, << <<"hits", n, "-">> >>)
    BY <1>2, <1>3, <1>4, <1>8, WordFits
  <2>2. /\ <<"outcomes", n, "-">> \in Calls
        /\ Fit(a, RoundWords, Q \cup {<<"hits", n, "-">>}, << <<"outcomes", n, "-">> >>)
    BY <1>2, <1>3, <1>4, <1>8, WordFits
  <2> QED
    BY <2>1, <2>2, FitPair
<1>9. \A Q : Fit(a, RoundWords, Q, E)
  <2>1. \A Q : Fit(a, RoundWords, Q, <<>>)
    BY DEF Fit
  <2>2. \A Q : Fit(a, RoundWords, Q, << <<"flywheel_ref", "prf", "run">> >>)
    BY <1>2, <1>3, <1>4, WordFits
  <2> QED
    BY <2>1, <2>2
<1>10. ASSUME NEW Q, P \subseteq Q PROVE Fit(a, RoundWords, Q, F)
  <2>1. <<"events", n, "-">> \in Calls /\ Fit(a, RoundWords, Q, << <<"events", n, "-">> >>)
    BY <1>2, <1>3, <1>4, <1>10, WordFits
  <2>2. /\ <<"term_outcomes", n, "-">> \in Calls
        /\ Fit(a, RoundWords, Q \cup {<<"events", n, "-">>}, << <<"term_outcomes", n, "-">> >>)
    BY <1>2, <1>3, <1>4, <1>10, WordFits
  <2>3. Fit(a, RoundWords, Q, TermCalls(n))
    BY <2>1, <2>2, FitPair DEF TermCalls
  <2>4. {"jsonl", "index", "attach"} \subseteq RoundWords /\ "run" \in {"run", "evaluation"}
    BY DEF RoundWords
  <2>5. Fit(a, RoundWords, Q \cup Range(TermCalls(n)), MaterializeCalls("run"))
    BY <2>4, MaterializeFits
  <2> QED
    BY <2>3, <2>5, FitJoin DEF RecordThenWrite
<1>11. \A Q : Fit(a, RoundWords, Q, G)
  BY <1>2, <1>3, <1>4, WordFits DEF Call
<1> HIDE DEF A, B, C, D, E, F, G
<1> DEFINE p == P \cup {<<"queries", n, "-">>}
<1>12. Fit(a, RoundWords, P, A \o B) /\ p \subseteq P \cup Range(A \o B)
  BY <1>5, <1>6, FitJoins
<1>13. Fit(a, RoundWords, P, (A \o B) \o C) /\ p \subseteq P \cup Range((A \o B) \o C)
  BY <1>12, <1>7, FitJoins
<1>14. /\ Fit(a, RoundWords, P, ((A \o B) \o C) \o D)
       /\ p \subseteq P \cup Range(((A \o B) \o C) \o D)
  <2>1. Fit(a, RoundWords, p, D)
    BY <1>8
  <2> QED
    BY <1>13, <2>1, FitJoins
<1>15. Fit(a, RoundWords, P, (((A \o B) \o C) \o D) \o E)
  BY <1>14, <1>9, FitJoins
<1>16. Fit(a, RoundWords, P, ((((A \o B) \o C) \o D) \o E) \o F)
  <2>1. Fit(a, RoundWords, P, F)
    BY <1>10
  <2> QED
    BY <1>15, <2>1, FitJoins
<1>17. Fit(a, RoundWords, P, (((((A \o B) \o C) \o D) \o E) \o F) \o G)
  BY <1>16, <1>11, FitJoins
<1> QED
  BY <1>1, <1>17

\* A round fits behind start_run: whatever it refers to it wrote itself, or start_run did.
LEMMA RoundFits ==
    ASSUME NEW a \in Actor, NEW P, Call("start_run") \in P, NEW n \in DOMAIN Sent[a]
    PROVE  Fit(a, RoundWords, P, RoundCalls(a, n))
<1> DEFINE m == Len(Sent[a][n])
           ss == [k \in DOMAIN Sent[a][n] |-> CorpusCalls(a, Sent[a][n][k])]
           B == << <<"score", n, "-">> >>
           C == RetrievalCalls(a, n)
<1>1. /\ m \in Nat /\ DOMAIN Sent[a][n] = 1..m /\ n \in Nat
      /\ \A k \in 1..m : Sent[a][n][k] \in DOMAIN TermsOf
  BY SentAre
<1> HIDE DEF m
<1>2. Fit(a, RoundWords, P, FlattenSeq(ss))
  <2>1. DOMAIN ss = 1..m /\ \A k \in 1..m : Fit(a, RoundWords, P, ss[k])
    BY <1>1, CorpusFits
  <2>2. ss = [i \in 1..m |-> ss[i]]
    BY <1>1
  <2> HIDE DEF ss
  <2> QED
    BY <1>1, <2>1, <2>2, FitFlatten
<1>3. Fit(a, RoundWords, P, B)
  <2>1. n \in Terms /\ "-" \in Terms /\ "score" \in Words \cap RoundWords
    BY <1>1 DEF Terms, Names, Words, RoundWords
  <2>2. "score" \notin Writers \cup {"cached", "judge", "labels", "document", "observe", "member",
                                     "corpus_export"}
    BY DEF Writers
  <2> QED
    BY <2>1, <2>2, WordFits
<1>4. Fit(a, RoundWords, P, C)
  BY RetrievalFits
<1>5. RoundCalls(a, n) = (FlattenSeq(ss) \o B) \o C
  BY Zenon DEF RoundCalls
<1> HIDE DEF ss, B, C
<1>6. Fit(a, RoundWords, P, FlattenSeq(ss) \o B)
  BY <1>2, <1>3, FitJoins
<1> QED
  BY <1>4, <1>5, <1>6, FitJoins

\* The words of a run up to the end of its rounds.
RoundsWords == OpenWords \cup StartWords \cup RoundWords

\* A run opens its artifacts, gets its rows and goes from round to round.
LEMMA RoundsFit ==
    ASSUME NEW a \in Actor
    PROVE  /\ Fit(a, RoundsWords, {}, RoundsOf(a))
           /\ Call("start_run") \in Range(RoundsOf(a)) /\ Call("task") \in Range(RoundsOf(a))
<1> DEFINE m == Len(Sent[a])
           ss == [n \in DOMAIN Sent[a] |-> RoundCalls(a, n)]
           A == OpenCalls
           B == StartCalls
           C == FlattenSeq(ss)
           W == RoundsWords
<1>1. /\ m \in Nat /\ DOMAIN Sent[a] = 1..m
  BY SentAre
<1> HIDE DEF m
<1>2. /\ OpenWords \subseteq RoundsWords /\ StartWords \subseteq RoundsWords
      /\ RoundWords \subseteq RoundsWords
  BY DEF RoundsWords
<1>3. Fit(a, W, {}, A)
  <2>1. Fit(a, OpenWords, {}, A)
    BY OpenFits
  <2> QED
    BY <1>2, <2>1, FitMore
<1>4. Fit(a, W, {}, B) /\ Call("start_run") \in Range(B) /\ Call("task") \in Range(B)
  <2>1. /\ Fit(a, StartWords, {}, B)
        /\ Call("start_run") \in Range(B) /\ Call("task") \in Range(B)
    BY StartFits
  <2> QED
    BY <1>2, <2>1, FitMore
<1>5. ASSUME NEW Q, Call("start_run") \in Q PROVE Fit(a, W, Q, C)
  <2>1. DOMAIN ss = 1..m /\ \A n \in 1..m : Fit(a, RoundWords, Q, ss[n])
    BY <1>1, <1>5, RoundFits
  <2>2. ss = [i \in 1..m |-> ss[i]]
    BY <1>1
  <2> HIDE DEF ss
  <2>3. Fit(a, RoundWords, Q, C)
    BY <1>1, <2>1, <2>2, FitFlatten
  <2> QED
    BY <1>2, <2>3, FitMore
<1>6. RoundsOf(a) = (A \o B) \o C
  BY Zenon DEF RoundsOf
<1> HIDE DEF ss, A, B, C, W
<1>7. Fit(a, W, {}, A \o B) /\ Range(A \o B) = Range(A) \cup Range(B)
  <2>1. Fit(a, W, {}, A \o B)
    BY <1>3, <1>4, FitJoins
  <2>2. Range(A \o B) = Range(A) \cup Range(B)
    BY <1>3, <1>4, JoinHas DEF Fit
  <2> QED
    BY <2>1, <2>2
<1>8. Fit(a, W, {Call("start_run")}, C)
  BY <1>5
<1>9. Fit(a, W, {}, (A \o B) \o C) /\ Range((A \o B) \o C) = Range(A \o B) \cup Range(C)
  <2> DEFINE t == A \o B
             q == {Call("start_run")}
             none == {}
  <2>1. q \subseteq none \cup Range(t) /\ Fit(a, W, none, t) /\ Fit(a, W, q, C)
    BY <1>4, <1>7, <1>8
  <2> HIDE DEF t, q, none
  <2>2. Fit(a, W, none, t \o C)
    BY <2>1, FitJoins
  <2>3. Range(t \o C) = Range(t) \cup Range(C)
    BY <2>1, JoinHas DEF Fit
  <2> QED
    BY <2>2, <2>3 DEF t, none
<1> QED
  BY <1>4, <1>6, <1>7, <1>9 DEF W

\* The judged resumes have their snapshots, the verdicts are asked for, labelled and
\* counted in this order.
LEMMA JudgeFits ==
    ASSUME NEW a \in Actor, NEW P, Call("start_run") \in P
    PROVE  Fit(a, EvalWords, P, JudgeCalls(a))
<1> DEFINE R == Shortlist(a)
           k == Len(Sent[a])
           listed == SetToSeq(R)
           A == <<Call("evaluate"), Call("task")>>
           C == [i \in DOMAIN listed |-> <<"snapshot", listed[i], k>>]
           D == <<Call("cached"), Call("judge")>>
           E == LabelsThenOutcomes
           F == <<Call("cached"), Call("judge"), Call("labels"), Call("judged")>>
           W == EvalWords
           P1 == P \cup Range(A)
           P2 == P \cup Range(A \o C)
<1>1. JudgeCalls(a) = ((A \o C) \o D) \o E
  BY Zenon DEF JudgeCalls
<1>2. /\ "-" \in Terms
      /\ {"evaluate", "task", "cached", "judge", "labels", "judged"} \subseteq Words \cap W
  BY DEF Terms, Names, Words, EvalWords
<1>3. /\ Call("evaluate") \in Calls /\ Call("task") \in Calls
      /\ Call("cached") \in Calls /\ Call("judge") \in Calls
      /\ Call("labels") \in Calls /\ Call("judged") \in Calls
  BY <1>2 DEF Calls, Call
<1>4. Fit(a, W, P, A) /\ Range(A) = {Call("evaluate"), Call("task")}
  <2>1. \A w \in {"evaluate", "task"} :
           w \notin Writers \cup {"cached", "judge", "labels", "document", "observe", "member",
                                  "corpus_export"}
    BY DEF Writers
  <2>2. \A Q : Fit(a, W, Q, <<Call("evaluate")>>) /\ Fit(a, W, Q, <<Call("task")>>)
    BY <1>2, <2>1, WordFits DEF Call
  <2> DEFINE c == Call("evaluate")
             d == Call("task")
  <2>3. c \in Calls /\ d \in Calls /\ A = <<c, d>>
        /\ \A Q : Fit(a, W, Q, <<c>>) /\ Fit(a, W, Q, <<d>>)
    BY <1>3, <2>2
  <2> HIDE DEF W, A, c, d
  <2>4. Fit(a, W, P, <<c, d>>) /\ Range(<<c, d>>) = {c, d}
    <3>1. Fit(a, W, P, <<c>>) /\ Fit(a, W, P \cup {c}, <<d>>) /\ c \in Calls /\ d \in Calls
      BY <2>3
    <3> QED
      BY <3>1, FitPair
  <2> QED
    BY <2>3, <2>4 DEF c, d
<1>5. Fit(a, W, P1, C) /\ \A r \in R : <<"snapshot", r, k>> \in Range(C)
  <2>1. R \in SUBSET DOMAIN Person /\ IsFiniteSet(R)
    <3> DEFINE I == {j \in DOMAIN Arrivals[a] : IsNew(a, j) /\ RoundOf(a, Arrivals[a][j].query) <= k}
               S == {Arrivals[a][i].resume : i \in I}
    <3>1. S \subseteq DOMAIN Person /\ IsFiniteSet(S)
      <4>1. I \subseteq DOMAIN Arrivals[a]
        OBVIOUS
      <4> HIDE DEF I
      <4> QED
        BY <4>1, ResumesOf
    <3>2. R = S \cap Fits
      BY DEF Shortlist, Stored
    <3> HIDE DEF S, R
    <3>3. R \subseteq S
      BY <3>2
    <3> QED
      BY <3>1, <3>3, FS_Subset
  <2>2. k \in Nat /\ "snapshot" \in W
    BY SentAre DEF EvalWords
  <2> HIDE DEF R, k, P1, W
  <2> QED
    BY <2>1, <2>2, SnapshotsFit
<1>6. D \o E = F /\ F \in Seq(Calls) /\ Len(F) = 4
  <2> DEFINE l == Call("labels")
             j == Call("judged")
             c == Call("cached")
             g == Call("judge")
             t == <<c, g>>
             u == <<l, j>>
             v == <<c, g, l, j>>
  <2>1. /\ t \in Seq(Calls) /\ u \in Seq(Calls) /\ v \in Seq(Calls)
        /\ Len(t) = 2 /\ Len(u) = 2 /\ Len(v) = 4
        /\ t[1] = c /\ t[2] = g /\ u[1] = l /\ u[2] = j
        /\ v[1] = c /\ v[2] = g /\ v[3] = l /\ v[4] = j
    <3> HIDE DEF c, g, l, j
    <3>1. c \in Calls /\ g \in Calls /\ l \in Calls /\ j \in Calls
      BY <1>3 DEF c, g, l, j
    <3> QED
      BY <3>1
  <2>2. D = t /\ E = u /\ F = v
    BY DEF LabelsThenOutcomes
  <2> HIDE DEF t, u, v, c, g, l, j
  <2>3. /\ t \o u \in Seq(Calls) /\ Len(t \o u) = 4
        /\ (t \o u)[1] = c /\ (t \o u)[2] = g /\ (t \o u)[2 + 1] = l /\ (t \o u)[2 + 2] = j
    <3>1. 1 \in 1..2 /\ 2 \in 1..2
      OBVIOUS
    <3>2. /\ t \o u \in Seq(Calls) /\ Len(t \o u) = Len(t) + Len(u)
          /\ \A p \in 1..Len(t) : (t \o u)[p] = t[p]
          /\ \A p \in 1..Len(u) : (t \o u)[Len(t) + p] = u[p]
      <4>1. t \in Seq(Calls) /\ u \in Seq(Calls)
        BY <2>1
      <4> QED
        BY <4>1, JoinIs
    <3>3. Len(t) + Len(u) = 4
      BY <2>1
    <3> QED
      BY <2>1, <3>1, <3>2, <3>3
  <2> DEFINE s == t \o u
  <2>4. s[3] = l /\ s[4] = j
    BY <2>3
  <2>5. \A p \in 1..4 : p = 1 \/ p = 2 \/ p = 3 \/ p = 4
    OBVIOUS
  <2> HIDE DEF s
  <2>6. \A p \in 1..4 : s[p] = v[p]
    BY <2>1, <2>3, <2>4, <2>5 DEF s
  <2>7. s = v
    BY <2>1, <2>3, <2>6, SeqEqual DEF s
  <2> QED
    BY <2>1, <2>2, <2>7 DEF s
<1>7. Fit(a, W, P, A \o C) /\ Range(A \o C) = Range(A) \cup Range(C)
  <2>1. P1 \subseteq P \cup Range(A)
    OBVIOUS
  <2> HIDE DEF A, C, P1, W, R, k, listed
  <2>2. Fit(a, W, P, A) /\ Fit(a, W, P1, C)
    BY <1>4, <1>5
  <2>3. Fit(a, W, P, A \o C)
    BY <2>1, <2>2, FitJoins
  <2>4. Range(A \o C) = Range(A) \cup Range(C)
    BY <2>2, JoinHas DEF Fit
  <2> QED
    BY <2>3, <2>4
<1>8. /\ Call("task") \in P2 /\ Call("start_run") \in P2
      /\ \A r \in R : <<"snapshot", r, k>> \in P2
  <2> HIDE DEF A, C, R, k
  <2> QED
    BY <1>4, <1>5, <1>7
<1>9. Fit(a, W, P2, F)
  <2>1. /\ F[1][1] = "cached" /\ F[2][1] = "judge" /\ F[3][1] = "labels" /\ F[4][1] = "judged"
    BY DEF Call
  <2> HIDE DEF F, P2
  <2>2. ASSUME NEW p \in 1..4
        PROVE  F[p][1] \in W /\ Adjacent(F, p) /\ Named(a, F, p) /\ Prepared(a, P2, F, p)
    <3>1. p \in {1, 2, 3, 4}
      OBVIOUS
    <3>2. F[p][1] \in W /\ Adjacent(F, p)
      BY <1>2, <1>6, <2>1, <3>1 DEF Adjacent, Writers, Followed
    <3>3. Named(a, F, p)
      BY <2>1, <3>1 DEF Named, Writers
    <3>4. F[p][1] \notin {"queries", "outcomes", "events", "term_outcomes",
                          "start_run", "link", "hits", "observe", "member", "corpus_export", "document"}
      BY <2>1, <3>1
    <3>5. Prepared(a, P2, F, p)
      <4>1. /\ Earlier(P2, F, p, Call("task")) /\ Earlier(P2, F, p, Call("start_run"))
            /\ \A r \in Shortlist(a) : Earlier(P2, F, p, <<"snapshot", r, Len(Sent[a])>>)
        BY <1>8, Zenon DEF Earlier
      <4> QED
        BY <3>4, <4>1, Zenon DEF Prepared
    <3> QED
      BY <3>2, <3>3, <3>5
  <2> QED
    BY <1>6, <2>2 DEF Fit
<1>10. Fit(a, W, P, (A \o C) \o F)
  <2> HIDE DEF A, C, F, W
  <2> QED
    BY <1>7, <1>9, FitJoin
<1>11. ((A \o C) \o D) \o E = (A \o C) \o F
  <2>1. A \o C \in Seq(Calls) /\ D \in Seq(Calls) /\ E \in Seq(Calls)
    <3>1. D \in Seq(Calls)
      BY <1>3
    <3>2. E \in Seq(Calls)
      BY <1>3 DEF LabelsThenOutcomes
    <3> QED
      BY <1>7, <3>1, <3>2 DEF Fit
  <2> DEFINE s == A \o C
  <2>2. s \in Seq(Calls)
    BY <2>1
  <2> HIDE DEF A, C, D, E, F, s, R, k, listed
  <2>3. (s \o D) \o E = s \o (D \o E)
    BY <2>1, <2>2, ConcatAssociative
  <2> QED
    BY <1>6, <2>3 DEF s
<1> QED
  BY <1>1, <1>10, <1>11

\* The outputs of an evaluation refer to no rows.
LEMMA OutputFits == \A a, P : Fit(a, EvalWords, P, OutputCalls)
<1> SUFFICES ASSUME NEW a, NEW P PROVE Fit(a, EvalWords, P, OutputCalls)
  OBVIOUS
<1> DEFINE A == << <<"adopt", "-", "evaluation">> >>
           B == MaterializeCalls("evaluation")
           C == << <<"move", "-", "evaluation">>, <<"adopt", "-", "evaluation">> >>
           D == Save("register", "evaluation", "evaluation")
           E == Save("register", "raw_resumes", "evaluation")
           F == <<Call("evaluated")>>
           W == EvalWords
<1>1. OutputCalls = ((((A \o B) \o C) \o D) \o E) \o F
  BY Zenon DEF OutputCalls
<1>2. /\ "-" \in Terms /\ "evaluation" \in Terms /\ "raw_resumes" \in Terms
      /\ {"adopt", "move", "evaluated"} \subseteq Words \cap W
  BY DEF Terms, Names, Words, EvalWords
<1>3. \A w \in {"adopt", "move", "evaluated"} :
         w \notin Writers \cup {"cached", "judge", "labels", "document", "observe", "member",
                                "corpus_export"}
  BY DEF Writers
<1>4. \A Q : Fit(a, W, Q, A)
  BY <1>2, <1>3, WordFits
<1>5. \A Q : Fit(a, W, Q, B)
  <2>1. {"jsonl", "index", "attach"} \subseteq W
    BY DEF EvalWords
  <2> QED
    BY <2>1, MaterializeFits
<1>6. \A Q : Fit(a, W, Q, C)
  <2>1. \A Q : /\ <<"move", "-", "evaluation">> \in Calls
               /\ Fit(a, W, Q, << <<"move", "-", "evaluation">> >>)
    BY <1>2, <1>3, WordFits
  <2>2. \A Q : /\ <<"adopt", "-", "evaluation">> \in Calls
               /\ Fit(a, W, Q, << <<"adopt", "-", "evaluation">> >>)
    BY <1>2, <1>3, WordFits
  <2> HIDE DEF W
  <2> QED
    BY <2>1, <2>2, FitPair
<1>7. \A Q : Fit(a, W, Q, D) /\ Fit(a, W, Q, E)
  <2>1. /\ "register" \in Writers \cap W /\ "evaluation" \in Kinds \cup {"evaluation"}
        /\ "index" \in W
    BY DEF Writers, EvalWords
  <2> HIDE DEF W
  <2> QED
    BY <1>2, <2>1, SaveFits
<1>8. \A Q : Fit(a, W, Q, F)
  BY <1>2, <1>3, WordFits DEF Call
<1> HIDE DEF A, B, C, D, E, F, W
<1>9. Fit(a, W, P, A \o B)
  BY <1>4, <1>5, FitJoin
<1>10. Fit(a, W, P, (A \o B) \o C)
  BY <1>9, <1>6, FitJoin
<1>11. Fit(a, W, P, ((A \o B) \o C) \o D)
  BY <1>10, <1>7, FitJoin
<1>12. Fit(a, W, P, (((A \o B) \o C) \o D) \o E)
  BY <1>11, <1>7, FitJoin
<1>13. Fit(a, W, P, ((((A \o B) \o C) \o D) \o E) \o F)
  BY <1>12, <1>8, FitJoin
<1> QED
  BY <1>1, <1>13 DEF W

\* The term surface audit is one file.
LEMMA AuditFits == \A a, P : Fit(a, EvalWords, P, Audit)
<1>1. /\ "run" \in Terms /\ "audit" \in Terms
      /\ "register" \in Writers \cap EvalWords /\ "run" \in Kinds \cup {"evaluation"}
      /\ "index" \in EvalWords
  BY DEF Terms, Names, Writers, EvalWords, Kinds
<1> QED
  BY <1>1, SaveFits DEF Audit

\* The length of two pieces together.
LEMMA FitLens ==
    ASSUME NEW a, NEW W, NEW P, NEW t, NEW u, NEW Q, Fit(a, W, P, t), Fit(a, W, Q, u)
    PROVE  Len(t) \in Nat /\ Len(u) \in Nat /\ Len(t \o u) = Len(t) + Len(u)
BY JoinIs DEF Fit

\* The closing of a run refers to nothing but its own row.
LEMMA CloseFits ==
    ASSUME NEW a, NEW P
    PROVE  Fit(a, CloseWords, P, CloseCalls) /\ Len(CloseCalls) = 7
<1> DEFINE A == Save("ingest", "-", "corpus")
           B == Save("finalize", "-", "corpus")
           C == <<Call("complete_run")>>
           D == Save("finalize", "-", "run")
           W == CloseWords
<1>1. CloseCalls = ((A \o B) \o C) \o D
  BY Zenon DEF CloseCalls
<1>2. /\ "-" \in Terms /\ "complete_run" \in Words \cap W
      /\ "ingest" \in Writers \cap W /\ "finalize" \in Writers \cap W /\ "index" \in W
      /\ "corpus" \in Kinds \cup {"evaluation"} /\ "run" \in Kinds \cup {"evaluation"}
      /\ "complete_run" \notin Writers \cup {"cached", "judge", "labels", "document", "observe",
                                            "member", "corpus_export"}
  BY DEF Terms, Names, Words, CloseWords, Writers, Kinds
<1> HIDE DEF W
<1>3. \A Q : Fit(a, W, Q, A) /\ Fit(a, W, Q, B) /\ Fit(a, W, Q, D)
  BY <1>2, SaveFits
<1>4. \A Q : Fit(a, W, Q, C)
  BY <1>2, WordFits DEF Call
<1>5. Len(A) = 2 /\ Len(B) = 2 /\ Len(C) = 1 /\ Len(D) = 2
  BY DEF Save
<1> HIDE DEF A, B, C, D
<1> DEFINE AB == A \o B
           ABC == AB \o C
           ABCD == ABC \o D
<1>6. Fit(a, W, P, AB) /\ Len(AB) = 4
  <2>1. Fit(a, W, P, A) /\ Fit(a, W, P \cup Range(A), B)
    BY <1>3
  <2>2. Fit(a, W, P, AB)
    BY <2>1, FitJoin
  <2>3. Len(AB) = Len(A) + Len(B)
    BY <2>1, FitLens
  <2> QED
    BY <1>5, <2>2, <2>3
<1> HIDE DEF AB
<1>7. Fit(a, W, P, ABC) /\ Len(ABC) = 5
  <2>1. Fit(a, W, P, AB) /\ Fit(a, W, P \cup Range(AB), C)
    BY <1>4, <1>6
  <2>2. Fit(a, W, P, ABC)
    BY <2>1, FitJoin
  <2>3. Len(ABC) = Len(AB) + Len(C)
    BY <2>1, FitLens
  <2> QED
    BY <1>5, <1>6, <2>2, <2>3
<1> HIDE DEF ABC
<1>8. Fit(a, W, P, ABCD) /\ Len(ABCD) = 7
  <2>1. Fit(a, W, P, ABC) /\ Fit(a, W, P \cup Range(ABC), D)
    BY <1>3, <1>7
  <2>2. Fit(a, W, P, ABCD)
    BY <2>1, FitJoin
  <2>3. Len(ABCD) = Len(ABC) + Len(D)
    BY <2>1, FitLens
  <2> QED
    BY <1>5, <1>7, <2>2, <2>3
<1> QED
  BY <1>1, <1>8 DEF W, AB, ABC

\* The dataset export writes its tables and closes its root.
LEMMA DatasetFits == \A a, P : Fit(a, ExportWords, P, DatasetScript) /\ Len(DatasetScript) > 0
<1> SUFFICES ASSUME NEW a, NEW P
             PROVE  Fit(a, ExportWords, P, DatasetScript) /\ Len(DatasetScript) > 0
  OBVIOUS
<1> DEFINE ss == [i \in DOMAIN RunTables |-> Save("export_jsonl", RunTables[i], "export")]
           A == <<Call("sources")>>
           B == Save("create", "-", "export")
           C == FlattenSeq(ss)
           D == Save("samples_jsonl", "-", "export")
           E == <<Call("samples")>>
           F == Save("register", "dataset_manifest", "export")
           G == Save("finalize", "-", "export")
           H == << <<"flywheel_ref", "dataset_manifest", "export">>, Call("dataset_export")>>
           W == ExportWords
<1>1. DatasetScript = ((((( A \o (B \o C)) \o D) \o E) \o F) \o G) \o H
  BY Zenon DEF DatasetScript, SourcesThenTables, ExportTables
<1>2. /\ "-" \in Terms /\ "dataset_manifest" \in Terms /\ "export" \in Terms
      /\ \A t \in {"outcomes", "judged", "events", "termOutcomes"} : t \in Terms
      /\ {"sources", "samples", "flywheel_ref", "dataset_export"} \subseteq Words \cap W
      /\ {"create", "export_jsonl", "samples_jsonl", "register", "finalize"} \subseteq Writers \cap W
      /\ "index" \in W /\ "export" \in Kinds \cup {"evaluation"}
  BY DEF Terms, Names, Words, ExportWords, Writers, Kinds
<1>3. \A w \in {"sources", "samples", "flywheel_ref", "dataset_export"} :
         w \notin Writers \cup {"cached", "judge", "labels", "document", "observe", "member",
                                "corpus_export"}
  BY DEF Writers
<1> HIDE DEF W
<1>4. \A Q : /\ Fit(a, W, Q, A) /\ Fit(a, W, Q, E)
             /\ Fit(a, W, Q, << <<"flywheel_ref", "dataset_manifest", "export">> >>)
             /\ Fit(a, W, Q, <<Call("dataset_export")>>)
  BY <1>2, <1>3, WordFits DEF Call
<1>5. \A Q : Fit(a, W, Q, B) /\ Fit(a, W, Q, D) /\ Fit(a, W, Q, F) /\ Fit(a, W, Q, G)
  BY <1>2, SaveFits
<1>6. \A Q, t : t \in {"outcomes", "judged", "events", "termOutcomes"}
                  => Fit(a, W, Q, Save("export_jsonl", t, "export"))
  BY <1>2, SaveFits
<1>7. \A Q : Fit(a, W, Q, C)
  <2> SUFFICES ASSUME NEW Q PROVE Fit(a, W, Q, C)
    OBVIOUS
  <2>1. /\ DOMAIN RunTables = 1..4
        /\ \A i \in 1..4 : RunTables[i] \in {"outcomes", "judged", "events", "termOutcomes"}
    BY DEF RunTables
  <2>2. DOMAIN ss = 1..4 /\ ss = [i \in 1..4 |-> ss[i]] /\ \A i \in 1..4 : Fit(a, W, Q, ss[i])
    BY <1>6, <2>1
  <2> HIDE DEF ss
  <2> QED
    BY <2>2, FitFlatten
<1>8. \A Q : Fit(a, W, Q, H)
  <2>1. <<"flywheel_ref", "dataset_manifest", "export">> \in Calls /\ Call("dataset_export") \in Calls
    BY <1>2 DEF Calls, Call
  <2> QED
    BY <1>4, <2>1, FitPair
<1>16. Len(H) = 2
  OBVIOUS
<1> HIDE DEF A, B, C, D, E, F, G, H
<1>9. \A Q : Fit(a, W, Q, B \o C)
  BY <1>5, <1>7, FitJoin
<1>10. Fit(a, W, P, A \o (B \o C))
  BY <1>4, <1>9, FitJoin
<1>11. Fit(a, W, P, (A \o (B \o C)) \o D)
  BY <1>5, <1>10, FitJoin
<1>12. Fit(a, W, P, ((A \o (B \o C)) \o D) \o E)
  BY <1>4, <1>11, FitJoin
<1>13. Fit(a, W, P, (((A \o (B \o C)) \o D) \o E) \o F)
  BY <1>5, <1>12, FitJoin
<1>14. Fit(a, W, P, ((((A \o (B \o C)) \o D) \o E) \o F) \o G)
  BY <1>5, <1>13, FitJoin
<1>15. Fit(a, W, P, (((((A \o (B \o C)) \o D) \o E) \o F) \o G) \o H)
  BY <1>8, <1>14, FitJoin
<1>17. Len(DatasetScript) > 0
  <2> DEFINE T == ((((A \o (B \o C)) \o D) \o E) \o F) \o G
  <2>1. Fit(a, W, P, T) /\ Fit(a, W, P, H)
    BY <1>8, <1>14
  <2> HIDE DEF T
  <2>2. Len(T \o H) = Len(T) + Len(H) /\ Len(T) \in Nat
    BY <2>1, FitLens
  <2> QED
    BY <1>1, <1>16, <2>2 DEF T
<1> QED
  BY <1>1, <1>15, <1>17 DEF W

\* The corpus export names its manifest before its row.
LEMMA CorpusScriptFits == \A a, P : Fit(a, ExportWords, P, CorpusScript) /\ Len(CorpusScript) > 0
<1> SUFFICES ASSUME NEW a, NEW P
             PROVE  Fit(a, ExportWords, P, CorpusScript) /\ Len(CorpusScript) > 0
  OBVIOUS
<1> DEFINE one(t) == Save("corpus_jsonl", t, "corpus") \o << <<"corpus_ref", t, "corpus">> >>
           ss == [i \in DOMAIN CorpusTableNames |-> one(CorpusTableNames[i])]
           ref == <<"corpus_ref", "corpus_manifest", "corpus">>
           export == Call("corpus_export")
           A == Save("create", "-", "corpus")
           B == CountCalls
           C == FlattenSeq(ss)
           D == Save("corpus_manifest", "-", "corpus")
           E == <<ref, export>>
           F == Save("corpus_jsonl", "exports", "corpus")
           G == << <<"corpus_ref", "exports", "corpus">> >>
           H == Save("finalize", "-", "corpus")
           W == ExportWords
           T == {"jobs", "subjects", "documents", "observations", "links", "members"}
<1>1. CorpusScript = ((((((A \o B) \o C) \o D) \o E) \o F) \o G) \o H
  BY Zenon DEF CorpusScript
<1>2. /\ "-" \in Terms /\ "corpus_manifest" \in Terms /\ "corpus" \in Terms /\ "exports" \in Terms
      /\ T \subseteq Terms
      /\ "corpus_ref" \in Words \cap W /\ "corpus_export" \in Words \cap W
      /\ {"create", "corpus_jsonl", "corpus_manifest", "finalize"} \subseteq Writers \cap W
      /\ "index" \in W /\ "corpus" \in Kinds \cup {"evaluation"}
      /\ "count" \in W /\ "collection" \in W
  BY DEF Terms, Names, Words, ExportWords, Writers, Kinds
<1>3. "corpus_ref" \notin Writers \cup {"cached", "judge", "labels", "document", "observe", "member",
                                        "corpus_export"}
  BY DEF Writers
<1>4. "corpus_export" \notin Writers \cup {"cached", "judge"}
  BY DEF Writers
<1> HIDE DEF W
<1>5. \A Q : Fit(a, W, Q, A) /\ Fit(a, W, Q, D) /\ Fit(a, W, Q, F) /\ Fit(a, W, Q, H)
  BY <1>2, SaveFits
<1>6. \A Q : Fit(a, W, Q, B)
  BY <1>2, CountFits
<1>7. \A Q : Fit(a, W, Q, G) /\ Fit(a, W, Q, <<ref>>) /\ ref \in Calls
  BY <1>2, <1>3, WordFits
<1>8. \A Q : Fit(a, W, Q, C)
  <2> SUFFICES ASSUME NEW Q PROVE Fit(a, W, Q, C)
    OBVIOUS
  <2>1. ASSUME NEW t \in T PROVE Fit(a, W, Q, one(t))
    <3>1. t \in Terms
      BY <1>2
    <3>2. Fit(a, W, Q, Save("corpus_jsonl", t, "corpus"))
      BY <1>2, <3>1, SaveFits
    <3>3. \A R : Fit(a, W, R, << <<"corpus_ref", t, "corpus">> >>)
      BY <1>2, <1>3, <3>1, WordFits
    <3> QED
      BY <3>2, <3>3, FitJoin
  <2>2. DOMAIN CorpusTableNames = 1..6 /\ \A i \in 1..6 : CorpusTableNames[i] \in T
    BY DEF CorpusTableNames
  <2> HIDE DEF T, one
  <2>3. DOMAIN ss = 1..6 /\ ss = [i \in 1..6 |-> ss[i]] /\ \A i \in 1..6 : Fit(a, W, Q, ss[i])
    BY <2>1, <2>2
  <2> HIDE DEF ss
  <2> QED
    BY <2>3, FitFlatten
<1>9. \A Q : Fit(a, W, Q, E)
  <2> SUFFICES ASSUME NEW Q PROVE Fit(a, W, Q, E)
    OBVIOUS
  <2>1. export \in Calls
    BY <1>2 DEF Calls, Call
  <2>2. /\ <<export>>[1][1] = "corpus_export" /\ <<export>>[1][3] = "-"
        /\ export[1] = "corpus_export"
    BY DEF Call
  <2>3. Fit(a, W, Q \cup {ref}, <<export>>)
    <3>1. Named(a, <<export>>, 1)
      <4> HIDE DEF export
      <4> QED
        BY <2>2 DEF Named, Writers
    <3>2. Prepared(a, Q \cup {ref}, <<export>>, 1)
      <4>1. \E x \in Terms : Earlier(Q \cup {ref}, <<export>>, 1, <<"corpus_ref", x, "corpus">>)
        BY <1>2 DEF Earlier
      <4> HIDE DEF export, ref
      <4> QED
        BY <2>2, <4>1 DEF Prepared
    <3> HIDE DEF export, ref
    <3> QED
      BY <1>2, <1>4, <2>1, <2>2, <3>1, <3>2, CallFits
  <2> HIDE DEF ref, export
  <2> QED
    BY <1>7, <2>1, <2>3, FitPair
<1>17. Len(H) = 2
  BY DEF Save
<1> HIDE DEF A, B, C, D, E, F, G, H
<1>10. Fit(a, W, P, A \o B)
  BY <1>5, <1>6, FitJoin
<1>11. Fit(a, W, P, (A \o B) \o C)
  BY <1>8, <1>10, FitJoin
<1>12. Fit(a, W, P, ((A \o B) \o C) \o D)
  BY <1>5, <1>11, FitJoin
<1>13. Fit(a, W, P, (((A \o B) \o C) \o D) \o E)
  BY <1>9, <1>12, FitJoin
<1>14. Fit(a, W, P, ((((A \o B) \o C) \o D) \o E) \o F)
  BY <1>5, <1>13, FitJoin
<1>15. Fit(a, W, P, (((((A \o B) \o C) \o D) \o E) \o F) \o G)
  BY <1>7, <1>14, FitJoin
<1>16. Fit(a, W, P, ((((((A \o B) \o C) \o D) \o E) \o F) \o G) \o H)
  BY <1>5, <1>15, FitJoin
<1>18. Len(CorpusScript) > 0
  <2> DEFINE Most == (((((A \o B) \o C) \o D) \o E) \o F) \o G
  <2>1. Fit(a, W, P, Most) /\ Fit(a, W, P, H)
    BY <1>5, <1>15
  <2> HIDE DEF Most
  <2>2. Len(Most \o H) = Len(Most) + Len(H) /\ Len(Most) \in Nat
    BY <2>1, FitLens
  <2> QED
    BY <1>1, <1>17, <2>2 DEF Most
<1> QED
  BY <1>1, <1>16, <1>18 DEF W

\* The three parts of a run's script: the rounds, what follows them, and the closing.
RoundsEnd(a) == Len(RoundsOf(a))

\* A script in which every call finds what it needs, and whose parts use their own words.
Laid(a) ==
    /\ Script(a) \in Seq(Calls) /\ Len(Script(a)) \in Nat /\ Len(Script(a)) > 0
    /\ \A p \in 1..Len(Script(a)) :
         Adjacent(Script(a), p) /\ Named(a, Script(a), p) /\ Prepared(a, {}, Script(a), p)
    /\ IsRun(a) =>
         /\ RoundsEnd(a) \in Nat /\ ClosePlace(a) \in Nat
         /\ RoundsEnd(a) < ClosePlace(a) /\ ClosePlace(a) <= Len(Script(a))
         /\ \A p \in 1..Len(Script(a)) :
              /\ p <= RoundsEnd(a) => Script(a)[p][1] \in RoundsWords
              /\ p > RoundsEnd(a) /\ p < ClosePlace(a) => Script(a)[p][1] \in EvalWords
              /\ p >= ClosePlace(a) => Script(a)[p][1] \in CloseWords
    /\ ~IsRun(a) => \A p \in 1..Len(Script(a)) : Script(a)[p][1] \in ExportWords

\* A middle and the closing behind the rounds.
LEMMA RunIsLaid ==
    ASSUME NEW a \in Actor, NEW M, Script(a) = (RoundsOf(a) \o M) \o CloseCalls,
           IsRun(a), Fit(a, EvalWords, Range(RoundsOf(a)), M)
    PROVE  Laid(a)
<1> DEFINE R == RoundsOf(a)
           C == CloseCalls
           s == (R \o M) \o C
           l == Len(R)
           m == Len(M)
           W == RoundsWords \cup EvalWords \cup CloseWords
<1>1. /\ Fit(a, RoundsWords, {}, R)
      /\ Fit(a, EvalWords, Range(R), M)
  BY RoundsFit
<1>2. \A Q : Fit(a, CloseWords, Q, C) /\ Len(C) = 7
  BY CloseFits
<1>3. RoundsWords \subseteq W /\ EvalWords \subseteq W /\ CloseWords \subseteq W
  OBVIOUS
<1> HIDE DEF R, C, W
<1>4. Fit(a, W, {}, R) /\ Fit(a, W, {} \cup Range(R), M) /\ \A Q : Fit(a, W, Q, C)
  <2>1. Fit(a, W, {}, R)
    BY <1>1, <1>3, FitMore
  <2>2. Fit(a, W, {} \cup Range(R), M)
    BY <1>1, <1>3, FitMore
  <2>3. \A Q : Fit(a, W, Q, C)
    BY <1>2, <1>3, FitMore
  <2> QED
    BY <2>1, <2>2, <2>3
<1>5. Fit(a, W, {}, R \o M)
  BY <1>4, FitJoin
<1>6. Fit(a, W, {}, s)
  BY <1>4, <1>5, FitJoin
<1>7. /\ l \in Nat /\ m \in Nat /\ Len(R \o M) = l + m
      /\ \A p \in 1..l : (R \o M)[p] = R[p]
      /\ \A p \in 1..m : (R \o M)[l + p] = M[p]
  BY <1>4, JoinIs DEF Fit
<1>8. /\ Len(s) = (l + m) + 7
      /\ \A p \in 1..(l + m) : s[p] = (R \o M)[p]
      /\ \A p \in 1..7 : s[(l + m) + p] = C[p]
  <2>1. /\ Len(s) = Len(R \o M) + Len(C)
        /\ \A p \in 1..Len(R \o M) : s[p] = (R \o M)[p]
        /\ \A p \in 1..Len(C) : s[Len(R \o M) + p] = C[p]
    BY <1>4, <1>5, JoinIs DEF Fit
  <2> QED
    BY <1>2, <1>7, <2>1
<1>9. Script(a) = s
  BY DEF R, C
<1> HIDE DEF s, l, m
<1>10. /\ RoundsEnd(a) = l /\ ClosePlace(a) = l + m + 1 /\ Len(Script(a)) = l + m + 7
       /\ l \in Nat /\ m \in Nat
  <2>1. Len(CloseCalls) = 7
    BY <1>2 DEF C
  <2>2. Len(Script(a)) = (l + m) + 7
    BY <1>8, <1>9
  <2> QED
    BY <1>7, <2>1, <2>2 DEF RoundsEnd, ClosePlace, l, R
<1>11. ASSUME NEW p \in 1..l PROVE s[p][1] \in RoundsWords
  <2>1. p \in 1..(l + m)
    BY <1>7
  <2>2. s[p] = R[p]
    BY <1>7, <1>8, <2>1
  <2> QED
    BY <1>1, <2>2 DEF Fit, l
<1>12. ASSUME NEW o \in 1..m PROVE s[l + o][1] \in EvalWords
  <2>1. l + o \in 1..(l + m)
    BY <1>7
  <2>2. s[l + o] = M[o]
    BY <1>7, <1>8, <2>1
  <2> QED
    BY <1>1, <2>2 DEF Fit, m
<1>13. ASSUME NEW o \in 1..7 PROVE s[(l + m) + o][1] \in CloseWords
  BY <1>2, <1>8 DEF Fit
<1>14. ASSUME NEW p \in 1..(l + m + 7)
       PROVE  /\ p <= l => s[p][1] \in RoundsWords
              /\ p > l /\ p < l + m + 1 => s[p][1] \in EvalWords
              /\ p >= l + m + 1 => s[p][1] \in CloseWords
  <2>1. CASE p <= l
    <3>1. p \in 1..l /\ ~(p > l) /\ ~(p >= l + m + 1)
      BY <1>10, <2>1
    <3> QED
      BY <1>11, <3>1
  <2>2. CASE p > l /\ p < l + m + 1
    <3>1. p - l \in 1..m /\ p = l + (p - l) /\ ~(p <= l) /\ ~(p >= l + m + 1)
      BY <1>10, <2>2
    <3>2. s[l + (p - l)][1] \in EvalWords
      BY <1>12, <3>1
    <3>3. s[p][1] \in EvalWords
      BY <3>1, <3>2
    <3> QED
      BY <3>1, <3>3
  <2>3. CASE p >= l + m + 1
    <3>1. p - (l + m) \in 1..7 /\ p = (l + m) + (p - (l + m)) /\ ~(p <= l) /\ ~(p < l + m + 1)
      BY <1>10, <2>3
    <3>2. s[(l + m) + (p - (l + m))][1] \in CloseWords
      BY <1>13, <3>1
    <3>3. s[p][1] \in CloseWords
      BY <3>1, <3>2
    <3> QED
      BY <3>1, <3>3
  <2> QED
    BY <1>10, <2>1, <2>2, <2>3
<1>15. /\ s \in Seq(Calls)
       /\ \A p \in 1..Len(s) : Adjacent(s, p) /\ Named(a, s, p) /\ Prepared(a, {}, s, p)
  BY <1>6 DEF Fit
<1>16. l < l + m + 1 /\ l + m + 1 <= l + m + 7 /\ l + m + 7 \in Nat /\ l + m + 7 > 0 /\ l + m + 1 \in Nat
  BY <1>10
<1> QED
  BY <1>9, <1>10, <1>14, <1>15, <1>16 DEF Laid

\* Whatever part a process plays, its script is laid out so.
LEMMA ScriptsAreLaid ==
    ASSUME NEW a \in Actor, role[a] \in {"run", "plain", "dataset", "corpus"}
    PROVE  Laid(a)
<1> DEFINE R == RoundsOf(a)
<1>0. Fit(a, RoundsWords, {}, R) /\ Call("start_run") \in Range(R)
  BY RoundsFit
<1>1. CASE role[a] = "run"
  <2> DEFINE J == JudgeCalls(a)
             O == OutputCalls
             M == (J \o O) \o Audit
  <2>1. Fit(a, EvalWords, Range(R), J)
    BY <1>0, JudgeFits
  <2>2. \A Q : Fit(a, EvalWords, Q, O) /\ Fit(a, EvalWords, Q, Audit)
    BY OutputFits, AuditFits
  <2>3. Script(a) = (((R \o J) \o O) \o Audit) \o CloseCalls
    BY <1>1 DEF Script, Scripts, RunScript
  <2> HIDE DEF R, J, O
  <2>4. Fit(a, EvalWords, Range(R), J \o O)
    BY <2>1, <2>2, FitJoin
  <2>5. Fit(a, EvalWords, Range(R), M)
    BY <2>2, <2>4, FitJoin
  <2>6. R \in Seq(Calls) /\ J \in Seq(Calls) /\ O \in Seq(Calls) /\ Audit \in Seq(Calls)
    BY <1>0, <2>1, <2>2 DEF Fit
  <2>7. (R \o J) \o O = R \o (J \o O) /\ J \o O \in Seq(Calls)
    BY <2>6, ConcatAssociative, JoinIs
  <2>8. (R \o (J \o O)) \o Audit = R \o M
    BY <2>6, <2>7, ConcatAssociative
  <2>9. Script(a) = (R \o M) \o CloseCalls
    BY <2>3, <2>7, <2>8
  <2> HIDE DEF M
  <2> QED
    BY <1>1, <2>5, <2>9, RunIsLaid DEF IsRun, R
<1>2. CASE role[a] = "plain"
  <2>1. Fit(a, EvalWords, Range(R), Audit)
    BY AuditFits
  <2>2. Script(a) = (R \o Audit) \o CloseCalls
    BY <1>2 DEF Script, Scripts, PlainScript
  <2> HIDE DEF R
  <2> QED
    BY <1>2, <2>1, <2>2, RunIsLaid DEF IsRun, R
<1>3. ASSUME NEW s, Fit(a, ExportWords, {}, s), Len(s) > 0, Script(a) = s, ~IsRun(a) PROVE Laid(a)
  BY <1>3 DEF Laid, Fit
<1>4. CASE role[a] = "dataset"
  <2>1. Script(a) = DatasetScript
    BY <1>4 DEF Script, Scripts
  <2>2. Fit(a, ExportWords, {}, DatasetScript)
    BY DatasetFits
  <2>3. Len(DatasetScript) > 0
    BY DatasetFits
  <2> QED
    BY <1>3, <1>4, <2>1, <2>2, <2>3 DEF IsRun
<1>5. CASE role[a] = "corpus"
  <2>1. Script(a) = CorpusScript
    BY <1>5 DEF Script, Scripts
  <2>2. Fit(a, ExportWords, {}, CorpusScript)
    BY CorpusScriptFits
  <2>3. Len(CorpusScript) > 0
    BY CorpusScriptFits
  <2> QED
    BY <1>3, <1>5, <2>1, <2>2, <2>3 DEF IsRun
<1> QED
  BY <1>1, <1>2, <1>4, <1>5

----------------------------------------------------------------------------
(* The inductive invariant.                                                *)

\* The statuses of a root, what an evaluation adds to one, and the parts of the stores.
Statuses == {"none", "running", "completed", "failed"}
Outputs == {"evaluation", "raw_resumes"}
HeapFields == {"count", "available", "doomed", "fresh", "verdict", "rows", "evaluating"}
FlyTables == {"tasks", "snapshots", "refs", "runs", "queries", "hits", "labels", "outcomes", "judged",
              "events", "termOutcomes", "attached", "samples", "exports"}
CorTables == {"refs", "jobs", "links", "subjects", "documents", "observations", "collection",
              "members", "exports"}

\* Which fields there are, and the values the small ones have.
FileShapes ==
    /\ DOMAIN session = Sessions /\ DOMAIN manifest = Roots /\ DOMAIN disk = Roots
    /\ \A s \in Sessions : DOMAIN session[s] = {"status", "entries"} /\ session[s].status \in Statuses
    /\ \A r \in Roots : DOMAIN manifest[r] = {"status", "entries"} /\ manifest[r].status \in Statuses
    /\ index \in [Kinds -> [Actor -> Statuses]]
    /\ DOMAIN held = Actor
    /\ \A b \in Actor : DOMAIN held[b] = {"kind", "rows"} /\ held[b].kind \in Kinds \cup {"none"}
HeapShapes == DOMAIN heap = Actor /\ \A b \in Actor : DOMAIN heap[b] = HeapFields
TableShapes ==
    /\ DOMAIN fly = FlyTables /\ DOMAIN cor = CorTables
    /\ \A r \in fly.runs : DOMAIN r = {"run", "task", "status"}

\* A process that goes on has a call to make.
PlaceHolds ==
    /\ role \in RoleChoices /\ faults \in 0..MaxFaults
    /\ pc \in [Actor -> Nat] /\ fate \in [Actor -> {"going", "completed", "failed", "crashed"}]
    /\ \A b \in Actor : /\ pc[b] >= 1 /\ pc[b] <= Len(Script(b)) + 1
                        /\ ~Ended(b) => pc[b] <= Len(Script(b))

\* The lock of an index is held by one process, which is about to write that index, and
\* what it read under the lock is what the index holds.
LockHolds ==
    /\ \A b \in Actor : held[b].kind # "none" =>
         ~Ended(b) /\ Here(b)[1] = "index" /\ held[b].rows = index[held[b].kind]
    /\ \A b, c \in Actor : held[b].kind = held[c].kind /\ held[b].kind # "none" => b = c

\* A run's own session names files that no evaluation took away; nothing of the root
\* of a run is closed before the run closes, and then its manifest names its files.
OwnRoot(b) ==
    LET r == <<b, "run">> e == <<b, "evaluation">> IN
    /\ session[r].entries \subseteq (DOMAIN disk[r] \ Outputs) \cup {"runtime.logs"}
    /\ \/ pc[b] >= ClosePlace(b)
       \/ /\ session[r].status \in {"none", "running"} /\ session[e].status \in {"none", "running"}
          /\ manifest[r].status \in {"none", "running"}
    /\ manifest[r].status \in {"completed", "failed"} =>
         manifest[r].entries \subseteq DOMAIN disk[r] \cup {"runtime.logs"}
RootHolds == \A b \in Actor : IsRun(b) => OwnRoot(b)

\* The resumes whose label for the job is stored.
Labelled == {l.resume : l \in CachedLabels(fly, Job)}

\* A verdict that is no label yet is about to become one.
VerdictHolds ==
    \A b \in Actor :
        /\ DOMAIN heap[b].verdict \subseteq Labelled \cup heap[b].fresh
        /\ heap[b].fresh # {} => Here(b)[1] \in {"judge", "labels"} /\ pc[b] <= Len(Script(b))

\* Judge outcomes come when the hits of their run are complete.
JudgedHolds ==
    /\ IsFiniteSet(fly.hits)
    /\ \A o \in fly.judged : o.run \in Actor /\ IsRun(o.run) /\ pc[o.run] > RoundsEnd(o.run)
                             /\ o.judged \in Nat
    /\ JudgedAreLabelled

\* What a call of a process leaves behind for the calls that follow.
Done(b, c) ==
    /\ c[1] = "task" => Job \in fly.tasks
    /\ c[1] = "job" => Job \in cor.jobs
    /\ c[1] = "start_run" => \E r \in fly.runs : r.run = b
    /\ c[1] = "queries" => \A q \in Range(Sent[b][c[2]]) : \E r \in fly.queries : QueryOf(r) = <<b, q>>
    /\ c[1] = "snapshot" /\ c[2] \in Stored(b, c[3]) => c[2] \in fly.snapshots
    /\ c[1] = "corpus_ref" => << <<b, c[3]>>, c[2]>> \in cor.refs
    /\ c[1] = "payload" => c[2] \in DOMAIN disk[<<b, "corpus">>]
    /\ c[1] = "subject" => Person[c[2]] \in cor.subjects
    /\ c[1] = "document" => \E d \in cor.documents : d.doc = c[2]
    /\ c[1] = "observe" => \A x \in Range(Arrivals[b]) :
         x.query = c[2] => Seen(b, x.query, x.resume) \in cor.observations
    /\ c[1] = "collection" => cor.collection # {}

\* Until a run closes, what its calls up to now left behind is there.
Trail ==
    \A b \in Actor : (IsRun(b) => pc[b] < ClosePlace(b)) =>
        \A p \in 1..(pc[b] - 1) : Done(b, Script(b)[p])

\* What a process remembers of the stores is stored.
MemoryHolds ==
    \A b \in Actor :
        /\ heap[b].available \subseteq fly.snapshots
        /\ heap[b].fresh \subseteq Shortlist(b)
        /\ \A s \in heap[b].rows : s.task \in fly.tasks /\ \E r \in fly.runs : r.run = s.run

\* The files a document row names are in the corpus root of the run that wrote them.
DocumentsHaveFiles ==
    \A d \in cor.documents : /\ d.ref[1] \in Actor \X {"corpus"}
                             /\ d.doc \in DOMAIN disk[d.ref[1]]

----------------------------------------------------------------------------
(* How a process gets on.                                                  *)

\* Every process that follows a script follows one that is laid out.
LEMMA AllLaid ==
    ASSUME PlaceHolds, NEW a \in Actor
    PROVE  Laid(a)
<1>1. role[a] \in {"run", "plain", "dataset", "corpus"}
  BY RecordsAssumption DEF PlaceHolds
<1> QED
  BY <1>1, ScriptsAreLaid

\* A process plays its part to the end.
LEMMA SameScript ==
    ASSUME role' = role, NEW a
    PROVE  /\ Script(a)' = Script(a) /\ (IsRun(a)' <=> IsRun(a))
           /\ ClosePlace(a)' = ClosePlace(a) /\ RoundsEnd(a)' = RoundsEnd(a)
BY DEF Script, Scripts, IsRun, ClosePlace, RoundsEnd

\* Where the words of a call may stand.
LEMMA HereIs ==
    ASSUME PlaceHolds, NEW a \in Actor, pc[a] <= Len(Script(a))
    PROVE  /\ Len(Script(a)) \in Nat /\ pc[a] \in 1..Len(Script(a)) /\ Here(a) = Script(a)[pc[a]]
           /\ Here(a) \in Calls
           /\ Adjacent(Script(a), pc[a]) /\ Named(a, Script(a), pc[a])
           /\ Prepared(a, {}, Script(a), pc[a])
           /\ IsRun(a) =>
                /\ RoundsEnd(a) \in Nat /\ ClosePlace(a) \in Nat
                /\ RoundsEnd(a) < ClosePlace(a) /\ ClosePlace(a) <= Len(Script(a))
                /\ pc[a] <= RoundsEnd(a) => Here(a)[1] \in RoundsWords
                /\ pc[a] > RoundsEnd(a) /\ pc[a] < ClosePlace(a) => Here(a)[1] \in EvalWords
                /\ pc[a] >= ClosePlace(a) => Here(a)[1] \in CloseWords
           /\ ~IsRun(a) => Here(a)[1] \in ExportWords
<1>1. Laid(a)
  BY AllLaid
<1>2. pc[a] \in Nat /\ pc[a] >= 1 /\ Len(Script(a)) \in Nat
  BY <1>1 DEF PlaceHolds, Laid
<1>3. pc[a] \in 1..Len(Script(a))
  BY <1>2
<1>4. Here(a) = Script(a)[pc[a]]
  BY DEF Here
<1>5. Script(a)[pc[a]] \in Calls
  <2>1. Script(a) \in Seq(Calls)
    BY <1>1 DEF Laid
  <2> QED
    BY <1>3, <2>1
<1> QED
  BY <1>1, <1>2, <1>3, <1>4, <1>5, Zenon DEF Laid

\* The steps by what they write.
FlySteps(a) ==
    \/ Task(a) \/ StartRun(a) \/ Attach(a) \/ Queries(a) \/ Outcomes(a) \/ Events(a)
    \/ TermOutcomes(a) \/ CompleteRun(a) \/ Judged(a) \/ FlywheelRef(a) \/ Samples(a)
    \/ DatasetExport(a)
CorSteps(a) ==
    \/ CorpusRef(a) \/ AddJob(a) \/ Link(a) \/ Subject(a) \/ Document(a) \/ Observe(a)
    \/ Member(a) \/ CorpusExport(a)
FileSteps(a) ==
    \/ Create(a) \/ Index(a) \/ Adopt(a) \/ Payload(a) \/ HitsArtifact(a) \/ Register(a)
    \/ Ingest(a) \/ Finalize(a) \/ MoveOutputs(a) \/ ExportTable(a) \/ SamplesFile(a)
    \/ CorpusTable(a) \/ CorpusManifest(a)
HeapSteps(a) == Count(a) \/ Evaluate(a) \/ Evaluated(a) \/ Cached(a) \/ Judge(a) \/ Sources(a)

\* A step is one of the calls, by what it may change.
LEMMA StepIs ==
    ASSUME NEW a \in Actor, Step(a)
    PROVE  /\ ~Ended(a)
           /\ \/ FlySteps(a) \/ CorSteps(a) \/ FileSteps(a) \/ HeapSteps(a)
              \/ Materialize(a) \/ Collection(a) \/ Snapshot(a) \/ Hits(a)
              \/ Score(a) \/ Reraise(a) \/ Label(a)
<1>1. CommonStep(a) => FlySteps(a) \/ CorSteps(a) \/ FileSteps(a) \/ HeapSteps(a) \/ Collection(a)
  BY Zenon DEF CommonStep, FlySteps, CorSteps, FileSteps, HeapSteps
<1>2. RunStep(a) => \/ FlySteps(a) \/ CorSteps(a) \/ FileSteps(a) \/ HeapSteps(a)
                    \/ Materialize(a) \/ Snapshot(a) \/ Hits(a) \/ Score(a) \/ Reraise(a)
  BY Zenon DEF RunStep, FlySteps, CorSteps, FileSteps, HeapSteps
<1>3. EvaluationStep(a) => FlySteps(a) \/ FileSteps(a) \/ HeapSteps(a) \/ Label(a)
  BY Zenon DEF EvaluationStep, FlySteps, FileSteps, HeapSteps
<1>4. ExportStep(a) => FlySteps(a) \/ CorSteps(a) \/ FileSteps(a) \/ HeapSteps(a)
  BY Zenon DEF ExportStep, FlySteps, CorSteps, FileSteps, HeapSteps
<1> QED
  BY <1>1, <1>2, <1>3, <1>4, Zenon DEF Step

\* A call of FlywheelStore leaves the files, the corpus and the memory alone.
LEMMA FlyFrame ==
    ASSUME NEW a, FlySteps(a)
    PROVE  /\ Onward(a) /\ UNCHANGED <<files, cor, heap>>
           /\ Here(a)[1] \in {"task", "start_run", "attach", "queries", "outcomes", "events",
                              "term_outcomes", "complete_run", "judged", "flywheel_ref", "samples",
                              "dataset_export"}
BY Zenon DEF FlySteps, Task, StartRun, Attach, Queries, Outcomes, Events, TermOutcomes, CompleteRun,
             Judged, FlywheelRef, Samples, DatasetExport, FlyCall, Doing

\* A call of CorpusStore leaves the files, the flywheel and the memory alone.
LEMMA CorFrame ==
    ASSUME NEW a, CorSteps(a)
    PROVE  /\ Onward(a) /\ UNCHANGED <<files, fly, heap>>
           /\ Here(a)[1] \in {"corpus_ref", "job", "link", "subject", "document", "observe", "member",
                              "corpus_export"}
BY Zenon DEF CorSteps, CorpusRef, AddJob, Link, Subject, Document, Observe, Member, CorpusExport,
             CorCall, Doing

\* A call of an artifact session leaves both databases and the memory alone.
LEMMA FileFrame ==
    ASSUME NEW a, FileSteps(a)
    PROVE  /\ Onward(a) /\ UNCHANGED <<fly, cor, heap>>
           /\ Here(a)[1] \in {"create", "index", "adopt", "payload", "hits_artifact", "register",
                              "ingest", "finalize", "move", "export_jsonl", "samples_jsonl",
                              "corpus_jsonl", "corpus_manifest"}
BY Zenon DEF FileSteps, Create, Index, Adopt, Payload, HitsArtifact, Register, Ingest, Finalize,
             MoveOutputs, ExportTable, SamplesFile, CorpusTable, CorpusManifest, FileCall, Doing

\* A call that only remembers leaves the stores alone.
LEMMA HeapFrame ==
    ASSUME NEW a, HeapSteps(a)
    PROVE  /\ Onward(a) /\ UNCHANGED <<files, fly, cor>>
           /\ Here(a)[1] \in {"count", "evaluate", "evaluated", "cached", "judge", "sources"}
           /\ \E h : heap' = [heap EXCEPT ![a] = h]
BY Zenon DEF HeapSteps, Count, Evaluate, Evaluated, Cached, Judge, Sources, HeapCall, Doing

\* The ways a step of a process moves it.
Moves(a) ==
    /\ ~Ended(a) /\ role' = role /\ faults' \in 0..MaxFaults
    /\ pc' \in [Actor -> Nat] /\ fate' \in [Actor -> {"going", "completed", "failed", "crashed"}]
    /\ \A b \in Actor \ {a} : pc'[b] = pc[b] /\ fate'[b] = fate[b]
    /\ \/ pc'[a] = pc[a] /\ Here(a)[1] = "labels" /\ fate'[a] = "going"
       \/ pc'[a] = pc[a] + 1 /\ pc[a] < Len(Script(a)) /\ fate'[a] = "going"
       \/ pc'[a] = pc[a] + 1 /\ pc[a] = Len(Script(a)) /\ fate'[a] # "going"
       \/ /\ pc'[a] = pc[a] + 3 /\ pc[a] + 3 <= Len(Script(a)) /\ Here(a)[1] = "jsonl"
          /\ fate'[a] = "going" /\ IsRun(a) /\ pc[a] + 3 <= ClosePlace(a)
          /\ Script(a)[pc[a] + 1][1] = "index" /\ Script(a)[pc[a] + 2][1] = "attach"
       \/ /\ pc'[a] = ClosePlace(a) /\ IsRun(a) /\ pc[a] <= RoundsEnd(a) /\ Here(a)[1] = "raise"
          /\ fate'[a] = "going"

\* The next call of a script comes after this one, or its closing does.
LEMMA OnwardMoves ==
    ASSUME PlaceHolds, NEW a \in Actor, ~Ended(a), Onward(a)
    PROVE  Moves(a)
<1>1. /\ Len(Script(a)) \in Nat /\ pc[a] \in 1..Len(Script(a))
  BY HereIs DEF PlaceHolds
<1>2. role' = role /\ faults' = faults /\ pc' = [pc EXCEPT ![a] = pc[a] + 1]
  BY DEF Onward, To
<1>3. fate[a] = "going"
  BY DEF Ended
<1>4. CASE pc[a] < Len(Script(a))
  <2>1. fate' = fate
    BY <1>4 DEF Onward
  <2> QED
    BY <1>1, <1>2, <1>3, <1>4, <2>1 DEF Moves, PlaceHolds
<1>5. CASE pc[a] = Len(Script(a))
  <2>1. ~(pc[a] < Len(Script(a)))
    BY <1>1, <1>5
  <2>2. fate' = [fate EXCEPT ![a] = IF heap[a].doomed THEN "failed" ELSE "completed"]
    BY <1>3, <2>1, Zenon DEF Onward
  <2> QED
    BY <1>1, <1>2, <1>3, <1>5, <2>2 DEF Moves, PlaceHolds
<1> QED
  BY <1>1, <1>4, <1>5

\* Every step moves its own process and nobody else.
LEMMA StepMoves ==
    ASSUME PlaceHolds, NEW a \in Actor, Step(a)
    PROVE  Moves(a)
<1>1. ~Ended(a)
  BY StepIs
<1> DEFINE s == Script(a)
           w == Here(a)[1]
<1>2. /\ Len(s) \in Nat /\ pc[a] \in 1..Len(s) /\ Here(a) = s[pc[a]]
      /\ Adjacent(s, pc[a])
      /\ IsRun(a) =>
           /\ RoundsEnd(a) \in Nat /\ ClosePlace(a) \in Nat
           /\ RoundsEnd(a) < ClosePlace(a) /\ ClosePlace(a) <= Len(s)
           /\ pc[a] <= RoundsEnd(a) => w \in RoundsWords
           /\ pc[a] > RoundsEnd(a) /\ pc[a] < ClosePlace(a) => w \in EvalWords
           /\ pc[a] >= ClosePlace(a) => w \in CloseWords
      /\ ~IsRun(a) => w \in ExportWords
  BY <1>1, HereIs DEF PlaceHolds
<1>3. fate[a] = "going"
  BY <1>1 DEF Ended
<1> HIDE DEF s, w
<1>4. CASE Onward(a)
  BY <1>1, <1>4, OnwardMoves
<1>5. w \in {"score", "raise"} => IsRun(a) /\ pc[a] <= RoundsEnd(a)
  <2>1. w \in {"score", "raise"} => w \notin EvalWords \cup CloseWords \cup ExportWords
    BY DEF EvalWords, CloseWords, ExportWords
  <2> QED
    BY <1>2, <2>1
<1>6. CASE Materialize(a) /\ ~Onward(a)
  <2>1. w = "jsonl" /\ To(a, pc[a] + 3) /\ UNCHANGED fate
    BY <1>6 DEF Materialize, Doing, w
  <2>2. /\ pc[a] + 2 <= Len(s) /\ s[pc[a] + 2][1] = "attach" /\ s[pc[a] + 1][1] = "index"
    BY <1>2, <2>1 DEF Adjacent, Followed, Writers, w
  <2>3. IsRun(a)
    <3>1. "jsonl" \notin ExportWords
      BY DEF ExportWords
    <3> QED
      BY <1>2, <2>1, <3>1
  <2>4. pc[a] < ClosePlace(a)
    <3>1. "jsonl" \notin CloseWords
      BY DEF CloseWords
    <3> QED
      BY <1>2, <2>1, <2>3, <3>1
  <2>5. pc[a] + 2 < ClosePlace(a)
    <3>1. pc[a] + 2 \in 1..Len(s)
      BY <1>2, <2>2
    <3>2. pc[a] + 2 >= ClosePlace(a) => s[pc[a] + 2][1] \in CloseWords
      BY <2>3, <3>1, AllLaid DEF Laid, s
    <3>3. "attach" \notin CloseWords
      BY DEF CloseWords
    <3> QED
      BY <1>2, <2>2, <2>3, <3>2, <3>3
  <2>6. role' = role /\ faults' = faults /\ pc' = [pc EXCEPT ![a] = pc[a] + 3] /\ fate' = fate
    BY <2>1 DEF To
  <2>7. pc[a] + 3 <= ClosePlace(a) /\ pc[a] + 3 <= Len(s)
    BY <1>2, <2>3, <2>5
  <2> QED
    BY <1>1, <1>2, <1>3, <2>1, <2>2, <2>3, <2>4, <2>6, <2>7 DEF Moves, PlaceHolds, s, w
<1>7. CASE Score(a) /\ ~Onward(a)
  <2>1. /\ w = "score" /\ faults < MaxFaults /\ faults' = faults + 1
        /\ pc' = [pc EXCEPT ![a] = pc[a] + 1] /\ role' = role /\ fate' = fate
    BY <1>7 DEF Score, Doing, w
  <2>2. pc[a] < Len(s)
    BY <1>2, <1>5, <2>1
  <2>3. faults' \in 0..MaxFaults
    BY <2>1, RecordsAssumption DEF PlaceHolds
  <2> QED
    BY <1>1, <1>2, <1>3, <2>1, <2>2, <2>3 DEF Moves, PlaceHolds, s
<1>8. CASE Reraise(a)
  <2>1. w = "raise" /\ fate' = fate /\ role' = role /\ faults' = faults
    BY <1>8 DEF Reraise, Doing, To, w
  <2>2. IsRun(a) /\ pc[a] <= RoundsEnd(a) /\ pc[a] < Len(s)
    BY <1>2, <1>5, <2>1
  <2>3. \/ pc' = [pc EXCEPT ![a] = ClosePlace(a)]
        \/ pc' = [pc EXCEPT ![a] = pc[a] + 1]
    BY <1>8 DEF Reraise, To
  <2> QED
    BY <1>1, <1>2, <1>3, <2>1, <2>2, <2>3 DEF Moves, PlaceHolds, s, w
<1>9. CASE Label(a) /\ ~Onward(a)
  <2>1. w = "labels" /\ UNCHANGED <<pc, role, fate, faults>>
    BY <1>9, Zenon DEF Label, Doing, w
  <2> QED
    BY <1>1, <1>2, <1>3, <2>1 DEF Moves, PlaceHolds, w
<1>10. Collection(a) \/ Snapshot(a) \/ Hits(a) => Onward(a)
  BY Zenon DEF Collection, Snapshot, Hits
<1> QED
  BY <1>4, <1>6, <1>7, <1>8, <1>9, <1>10, StepIs, FlyFrame, CorFrame, FileFrame, HeapFrame, Zenon

\* Every process begins at the start of its script.
LEMMA PlaceInit == Init => PlaceHolds
<1> SUFFICES ASSUME Init PROVE PlaceHolds
  OBVIOUS
<1>1. /\ role \in RoleChoices /\ pc = [b \in Actor |-> 1] /\ faults = 0
      /\ fate = [b \in Actor |-> "going"]
  BY DEF Init
<1>2. ASSUME NEW b \in Actor PROVE Len(Script(b)) \in Nat /\ Len(Script(b)) > 0
  <2>1. role[b] \in {"run", "plain", "dataset", "corpus"}
    BY <1>1, RecordsAssumption
  <2> QED
    BY <2>1, ScriptsAreLaid DEF Laid
<1>3. faults \in 0..MaxFaults
  BY <1>1, RecordsAssumption
<1>4. ASSUME NEW b \in Actor
      PROVE  pc[b] >= 1 /\ pc[b] <= Len(Script(b)) + 1 /\ pc[b] <= Len(Script(b))
  BY <1>1, <1>2
<1> QED
  BY <1>1, <1>3, <1>4 DEF PlaceHolds

\* A process stays within its script, and follows the one of its role.
LEMMA PlaceStep == PlaceHolds /\ [Next]_vars => PlaceHolds'
<1> SUFFICES ASSUME PlaceHolds, [Next]_vars PROVE PlaceHolds'
  OBVIOUS
<1> USE DEF PlaceHolds
<1>1. ASSUME NEW a \in Actor, Step(a) PROVE PlaceHolds'
  <2>1. Moves(a)
    BY <1>1, StepMoves
  <2>2. role' = role
    BY <2>1 DEF Moves
  <2>3. ASSUME NEW b \in Actor
        PROVE  /\ pc'[b] >= 1 /\ pc'[b] <= Len(Script(b)) + 1
               /\ fate'[b] = "going" => pc'[b] <= Len(Script(b))
    <3>1. CASE b = a
      <4>1. /\ Len(Script(a)) \in Nat /\ pc[a] \in 1..Len(Script(a))
            /\ IsRun(a) => ClosePlace(a) \in Nat /\ ClosePlace(a) <= Len(Script(a)) /\ ClosePlace(a) > 0
        <5>1. pc[a] <= Len(Script(a))
          BY <2>1 DEF Moves
        <5> QED
          BY <5>1, HereIs
      <4> QED
        BY <2>1, <3>1, <4>1 DEF Moves
    <3>2. CASE b # a
      <4>1. pc'[b] = pc[b] /\ fate'[b] = fate[b]
        BY <2>1, <3>2 DEF Moves
      <4> QED
        BY <4>1 DEF Ended
    <3> QED
      BY <3>1, <3>2
  <2>4. \A b \in Actor : Script(b)' = Script(b)
    BY <2>2, SameScript
  <2> QED
    BY <2>1, <2>2, <2>3, <2>4 DEF Moves, Ended
<1>2. ASSUME NEW a \in Actor, Fail(a) PROVE PlaceHolds'
  <2>1. /\ role' = role /\ ~Ended(a) /\ faults' = faults + 1 /\ faults < MaxFaults
        /\ \/ IsRun(a) /\ pc' = [pc EXCEPT ![a] = ClosePlace(a)] /\ fate' = fate
           \/ fate' = [fate EXCEPT ![a] = "failed"] /\ pc' = pc
    BY <1>2 DEF Fail, Body
  <2>2. faults' \in 0..MaxFaults
    BY <2>1, RecordsAssumption
  <2>3. /\ Len(Script(a)) \in Nat
        /\ IsRun(a) => /\ ClosePlace(a) \in Nat /\ ClosePlace(a) <= Len(Script(a))
                       /\ ClosePlace(a) >= 1
    <3>1. pc[a] <= Len(Script(a))
      BY <2>1
    <3>2. RoundsEnd(a) \in Nat /\ RoundsEnd(a) < ClosePlace(a) /\ ClosePlace(a) \in Nat => ClosePlace(a) >= 1
      OBVIOUS
    <3> QED
      BY <3>1, <3>2, HereIs
  <2>4. \A b \in Actor : Script(b)' = Script(b)
    BY <2>1, SameScript
  <2> QED
    BY <2>1, <2>2, <2>3, <2>4 DEF Ended
<1>3. ASSUME NEW a \in Actor, Crash(a) PROVE PlaceHolds'
  <2>1. /\ role' = role /\ pc' = pc /\ faults' = faults + 1 /\ faults < MaxFaults
        /\ fate' = [fate EXCEPT ![a] = "crashed"]
    BY <1>3 DEF Crash
  <2>2. faults' \in 0..MaxFaults
    BY <2>1, RecordsAssumption
  <2>4. \A b \in Actor : Script(b)' = Script(b)
    BY <2>1, SameScript
  <2> QED
    BY <2>1, <2>2, <2>4 DEF Ended
<1>4. CASE UNCHANGED vars
  <2>1. role' = role /\ pc' = pc /\ fate' = fate /\ faults' = faults
    BY <1>4 DEF vars
  <2>2. \A b \in Actor : Script(b)' = Script(b)
    BY <2>1, SameScript
  <2> QED
    BY <2>1, <2>2 DEF Ended
<1> QED
  BY <1>1, <1>2, <1>3, <1>4 DEF Next

----------------------------------------------------------------------------
(* The artifact roots.                                                     *)

\* A step that writes the manifest m of a session of a process.
Writes(a, m) ==
    /\ Onward(a) /\ Here(a)[1] \in Writers /\ In(a) \in Sessions
    /\ WriteManifest(In(a), m)
    /\ DOMAIN m = {"status", "entries"} /\ m.status \in Statuses
    /\ \/ /\ Here(a)[1] = "create" /\ disk' = disk
          /\ m.status = "running" /\ m.entries = {"runtime.logs"}
       \/ /\ Here(a)[1] \notin {"create", "finalize"}
          /\ m.status = session[In(a)].status
          /\ \E name, d :
               /\ m.entries = session[In(a)].entries \cup {name}
               /\ disk' = [disk EXCEPT ![Root(In(a))] = d]
               /\ DOMAIN d = DOMAIN disk[Root(In(a))] \cup {name}
               /\ IsRun(a) /\ In(a) = <<a, "run">> => name \notin Outputs
       \/ /\ Here(a)[1] = "finalize" /\ disk' = disk /\ Root(In(a)) = In(a)
          /\ m.status \in {"completed", "failed"} /\ m.entries = session[In(a)].entries

\* A call that writes a file has a session of its own process.
LEMMA SessionIs ==
    ASSUME PlaceHolds, NEW a \in Actor, pc[a] <= Len(Script(a)), Here(a)[1] \in Writers
    PROVE  In(a) \in Sessions /\ Root(In(a)) \in Roots /\ Root(In(a))[1] = a /\ In(a)[1] = a
           /\ (Here(a)[1] = "finalize" => Root(In(a)) = In(a))
<1>1. Named(a, Script(a), pc[a]) /\ Here(a) = Script(a)[pc[a]]
  BY HereIs
<1>2. Here(a)[3] \in Kinds \cup {"evaluation"} /\ (Here(a)[1] = "finalize" => Here(a)[3] \in Kinds)
  BY <1>1 DEF Named
<1>3. "run" \in Kinds /\ "evaluation" \notin Kinds
  BY DEF Kinds
<1> DEFINE k == Here(a)[3]
<1> HIDE DEF k
<1>4. In(a) = <<a, k>> /\ k \in Kinds \cup {"evaluation"} /\ (Here(a)[1] = "finalize" => k \in Kinds)
  BY <1>2 DEF In, k
<1>5. Root(<<a, k>>) = <<a, IF k = "evaluation" THEN "run" ELSE k>> /\ Kind(<<a, k>>) \in Kinds
  BY <1>3, <1>4 DEF Root, Kind
<1> QED
  BY <1>3, <1>4, <1>5 DEF Sessions, Roots

\* A file more in a root.
LEMMA FileAdded ==
    ASSUME NEW f, NEW name, NEW content
    PROVE  DOMAIN With(f, [x \in {name} |-> content]) = DOMAIN f \cup {name}
BY DEF With

\* A registered file is a write of a session's manifest, and takes no output away.
LEMMA ArtifactWrites ==
    ASSUME FileShapes, PlaceHolds, NEW a \in Actor, ~Ended(a), NEW name, NEW content,
           Onward(a), Here(a)[1] \in Writers \ {"create", "finalize"},
           WriteArtifact(In(a), name, content),
           IsRun(a) /\ In(a) = <<a, "run">> => name \notin Outputs
    PROVE  \E m : Writes(a, m)
<1>1. In(a) \in Sessions
  BY SessionIs DEF PlaceHolds
<1> DEFINE m == [session[In(a)] EXCEPT !.entries = @ \cup {name}]
<1>2. /\ DOMAIN session[In(a)] = {"status", "entries"} /\ session[In(a)].status \in Statuses
  BY <1>1 DEF FileShapes
<1>3. /\ DOMAIN m = {"status", "entries"} /\ m.status = session[In(a)].status
      /\ m.entries = session[In(a)].entries \cup {name}
  BY <1>2
<1> DEFINE d == With(disk[Root(In(a))], [x \in {name} |-> content])
<1>4. /\ WriteManifest(In(a), m)
      /\ disk' = [disk EXCEPT ![Root(In(a))] = d]
  BY Zenon DEF WriteArtifact
<1>6. DOMAIN d = DOMAIN disk[Root(In(a))] \cup {name}
  BY FileAdded
<1> HIDE DEF m, d
<1>5. Writes(a, m)
  BY <1>1, <1>2, <1>3, <1>4, <1>6, Zenon DEF Writes
<1> QED
  BY <1>5

\* What a step can do to the files: write a manifest, rewrite the index, adopt a root,
\* move the outputs, or nothing.
LEMMA FileEffects ==
    ASSUME FileShapes, PlaceHolds, NEW a \in Actor, Step(a)
    PROVE  \/ UNCHANGED files /\ Here(a)[1] # "index"
           \/ \E m : Writes(a, m)
           \/ Here(a)[1] = "index" /\ WriteIndex(a) /\ Onward(a)
           \/ Here(a)[1] = "adopt" /\ AdoptRoot(<<a, "evaluation">>)
           \/ Here(a)[1] = "move" /\ MoveInto(<<a, "run">>, Outputs, "content")
<1>1. ~Ended(a) /\ pc[a] <= Len(Script(a))
  BY StepIs DEF PlaceHolds
<1>2. Named(a, Script(a), pc[a]) /\ Here(a) = Script(a)[pc[a]]
  BY <1>1, HereIs
<1>3. CASE Create(a)
  <2>1. /\ Onward(a) /\ Here(a)[1] = "create" /\ CreateRoot(In(a))
    BY <1>3, Zenon DEF Create, FileCall, Doing
  <2>2. "create" \in Writers
    BY DEF Writers
  <2> DEFINE m == [status |-> "running", entries |-> {"runtime.logs"}]
  <2>3. /\ DOMAIN m = {"status", "entries"} /\ m.status = "running" /\ m.entries = {"runtime.logs"}
        /\ m.status \in Statuses
    BY DEF Statuses
  <2>4. In(a) \in Sessions
    BY <1>1, <2>1, <2>2, SessionIs
  <2>5. WriteManifest(In(a), m) /\ disk' = disk
    BY <2>1, Zenon DEF CreateRoot
  <2> HIDE DEF m
  <2>6. Writes(a, m)
    BY <2>1, <2>2, <2>3, <2>4, <2>5, Zenon DEF Writes
  <2> QED
    BY <2>6
<1>4. CASE Finalize(a)
  <2> DEFINE status == IF heap[a].doomed THEN "failed" ELSE "completed"
             m == [session[In(a)] EXCEPT !.status = status]
  <2>1. /\ Onward(a) /\ Here(a)[1] = "finalize" /\ FinalizeSession(In(a), status)
    BY <1>4, Zenon DEF Finalize, FileCall, Doing
  <2>2. "finalize" \in Writers
    BY DEF Writers
  <2>3. status \in {"completed", "failed"} /\ {"completed", "failed"} \subseteq Statuses
    BY DEF Statuses
  <2>4. In(a) \in Sessions /\ Root(In(a)) = In(a)
    BY <1>1, <2>1, <2>2, SessionIs
  <2>5. WriteManifest(In(a), m) /\ disk' = disk
    BY <2>1, Zenon DEF FinalizeSession
  <2> HIDE DEF status
  <2>6. /\ DOMAIN m = {"status", "entries"} /\ m.status = status
        /\ m.entries = session[In(a)].entries
    BY <2>4 DEF FileShapes
  <2> HIDE DEF m
  <2>7. Writes(a, m)
    BY <2>1, <2>2, <2>3, <2>4, <2>5, <2>6, Zenon DEF Writes
  <2> QED
    BY <2>7
<1>5. CASE Index(a)
  BY <1>5, Zenon DEF Index, FileCall, Doing
<1>6. CASE Adopt(a)
  <2>1. Here(a)[1] = "adopt" /\ AdoptRoot(In(a))
    BY <1>6, Zenon DEF Adopt, FileCall, Doing
  <2>2. In(a) = <<a, "evaluation">>
    BY <1>2, <2>1 DEF Named, In
  <2> QED
    BY <2>1, <2>2
<1>7. CASE MoveOutputs(a)
  BY <1>7, Zenon DEF MoveOutputs, FileCall, Doing, Outputs
<1>8. ASSUME NEW w \in Writers \ {"create", "finalize", "jsonl", "register"}, NEW name, NEW content,
             FileCall(a, w, WriteArtifact(In(a), name, content)),
             IsRun(a) /\ In(a) = <<a, "run">> => name \notin Outputs
      PROVE  \E m : Writes(a, m)
  <2>1. Onward(a) /\ Here(a)[1] = w /\ WriteArtifact(In(a), name, content)
    BY <1>8, Zenon DEF FileCall, Doing
  <2> QED
    BY <1>1, <1>8, <2>1, ArtifactWrites
<1>9. \A w \in {"payload", "ingest"} : Here(a)[1] = w => In(a) # <<a, "run">>
  <2>1. "corpus" # "run"
    OBVIOUS
  <2> QED
    BY <1>2, <2>1 DEF Named, In
<1>10. \A w \in {"export_jsonl", "samples_jsonl", "corpus_jsonl", "corpus_manifest"} :
          Here(a)[1] = w => ~IsRun(a)
  <2>1. \A w \in {"export_jsonl", "samples_jsonl", "corpus_jsonl", "corpus_manifest"} :
           w \notin RoundsWords /\ w \notin EvalWords /\ w \notin CloseWords
    BY DEF RoundsWords, OpenWords, StartWords, RoundWords, EvalWords, CloseWords
  <2>2. /\ pc[a] \in 1..Len(Script(a)) /\ Len(Script(a)) \in Nat
        /\ IsRun(a) =>
                /\ RoundsEnd(a) \in Nat /\ ClosePlace(a) \in Nat
                /\ RoundsEnd(a) < ClosePlace(a) /\ ClosePlace(a) <= Len(Script(a))
                /\ pc[a] <= RoundsEnd(a) => Here(a)[1] \in RoundsWords
                /\ pc[a] > RoundsEnd(a) /\ pc[a] < ClosePlace(a) => Here(a)[1] \in EvalWords
                /\ pc[a] >= ClosePlace(a) => Here(a)[1] \in CloseWords
    BY <1>1, HereIs
  <2>3. IsRun(a) => \/ Here(a)[1] \in RoundsWords \/ Here(a)[1] \in EvalWords
                    \/ Here(a)[1] \in CloseWords
    BY <2>2
  <2> QED
    BY <2>1, <2>3, Zenon
<1>11. CASE Payload(a) \/ Ingest(a)
  <2>1. "payload" \in Writers \ {"create", "finalize", "jsonl", "register"}
        /\ "ingest" \in Writers \ {"create", "finalize", "jsonl", "register"}
    BY DEF Writers
  <2>2. CASE Payload(a)
    <3>1. Here(a)[1] = "payload" /\ FileCall(a, "payload", WriteArtifact(In(a), Arg(a), "payload"))
      BY <2>2, Zenon DEF Payload, FileCall, Doing
    <3> QED
      BY <1>8, <1>9, <2>1, <3>1
  <2>3. CASE Ingest(a)
    <3> DEFINE content == session[In(a)].entries \cap DOMAIN Person
    <3>1. Here(a)[1] = "ingest" /\ FileCall(a, "ingest", WriteArtifact(In(a), "ingest", content))
      BY <2>3, Zenon DEF Ingest, FileCall, Doing
    <3> HIDE DEF content
    <3> QED
      BY <1>8, <1>9, <2>1, <3>1
  <2> QED
    BY <1>11, <2>2, <2>3
<1>12. CASE HitsArtifact(a)
  <2>1. "hits_artifact" \in Writers \ {"create", "finalize", "jsonl", "register"} /\ "hits" \notin Outputs
    BY DEF Writers, Outputs
  <2>2. FileCall(a, "hits_artifact", WriteArtifact(In(a), "hits", "hits"))
    BY <1>12, Zenon DEF HitsArtifact
  <2> QED
    BY <1>8, <2>1, <2>2
<1>13. CASE Register(a)
  <2>1. Onward(a) /\ Here(a)[1] = "register" /\ WriteArtifact(In(a), Arg(a), "content")
    BY <1>13, Zenon DEF Register, FileCall, Doing
  <2>2. "register" \in Writers \ {"create", "finalize"}
    BY DEF Writers
  <2>3. In(a) = <<a, "run">> => Arg(a) \notin Outputs
    BY <1>2, <2>1 DEF Named, In, Arg, Outputs
  <2> QED
    BY <1>1, <2>1, <2>2, <2>3, ArtifactWrites
<1>14. CASE Materialize(a)
  <2> DEFINE rows == RowsForRun(fly, Arg(a), a)
  <2>1. CASE rows = {}
    <3>1. UNCHANGED files /\ Here(a)[1] = "jsonl"
      BY <1>14, <2>1, Zenon DEF Materialize, Doing
    <3>2. "jsonl" # "index"
      OBVIOUS
    <3> QED
      BY <3>1, <3>2
  <2>2. CASE rows # {}
    <3>1. Onward(a) /\ Here(a)[1] = "jsonl" /\ WriteArtifact(In(a), Arg(a), rows)
      BY <1>14, <2>2, Zenon DEF Materialize, Doing
    <3>2. "jsonl" \in Writers \ {"create", "finalize"}
      BY DEF Writers
    <3>3. In(a) = <<a, "run">> => Arg(a) \notin Outputs
      BY <1>2, <3>1 DEF Named, In, Arg, Outputs
    <3> HIDE DEF rows
    <3> QED
      BY <1>1, <3>1, <3>2, <3>3, ArtifactWrites
  <2> QED
    BY <2>1, <2>2
<1>15. CASE ExportTable(a) \/ SamplesFile(a) \/ CorpusTable(a) \/ CorpusManifest(a)
  <2>1. {"export_jsonl", "samples_jsonl", "corpus_jsonl", "corpus_manifest"}
           \subseteq Writers \ {"create", "finalize", "jsonl", "register"}
    BY DEF Writers
  <2>2. \E w \in {"export_jsonl", "samples_jsonl", "corpus_jsonl", "corpus_manifest"} :
           \E name, content : FileCall(a, w, WriteArtifact(In(a), name, content))
    BY <1>15, Zenon DEF ExportTable, SamplesFile, CorpusTable, CorpusManifest
  <2>3. PICK w \in {"export_jsonl", "samples_jsonl", "corpus_jsonl", "corpus_manifest"} :
           \E name, content : FileCall(a, w, WriteArtifact(In(a), name, content))
    BY <2>2
  <2>4. PICK name, content : FileCall(a, w, WriteArtifact(In(a), name, content))
    BY <2>3
  <2>5. ~IsRun(a)
    <3>1. Here(a)[1] = w
      BY <2>4, Zenon DEF FileCall, Doing
    <3> QED
      BY <1>10, <3>1
  <2> QED
    BY <1>8, <2>1, <2>4, <2>5
<1>16. CASE FileSteps(a)
  BY <1>3, <1>4, <1>5, <1>6, <1>7, <1>11, <1>12, <1>13, <1>15, <1>16, Zenon DEF FileSteps
<1>17. FlySteps(a) \/ CorSteps(a) \/ HeapSteps(a) => UNCHANGED files /\ Here(a)[1] # "index"
  <2>1. FlySteps(a) => UNCHANGED files /\ Here(a)[1] # "index"
    BY FlyFrame DEF files
  <2>2. CorSteps(a) => UNCHANGED files /\ Here(a)[1] # "index"
    BY CorFrame DEF files
  <2>3. HeapSteps(a) => UNCHANGED files /\ Here(a)[1] # "index"
    BY HeapFrame DEF files
  <2> QED
    BY <2>1, <2>2, <2>3
<1>18. Collection(a) \/ Snapshot(a) \/ Hits(a) \/ Score(a) \/ Reraise(a) \/ Label(a)
          => UNCHANGED files /\ Here(a)[1] \in {"collection", "snapshot", "hits", "score", "raise", "labels"}
  BY Zenon DEF Collection, Snapshot, Hits, Score, Reraise, Label, Doing
<1>19. \A w \in {"collection", "snapshot", "hits", "score", "raise", "labels"} : w # "index"
  OBVIOUS
<1> QED
  BY <1>14, <1>16, <1>17, <1>18, <1>19, StepIs, Zenon

----------------------------------------------------------------------------
(* What a process remembers.                                               *)

\* One process does not reach into another's memory, one that met an error stays doomed,
\* and a snapshot that is remembered is there.
Remembers(a) ==
    /\ DOMAIN heap' = Actor /\ \A b \in Actor : DOMAIN heap'[b] = HeapFields
    /\ \A b \in Actor : b # a => heap'[b] = heap[b]
    /\ heap'[a].doomed = heap[a].doomed \/ heap'[a].doomed = TRUE
    /\ heap'[a].available \subseteq heap[a].available \cup fly'.snapshots
    /\ heap'[a].fresh # heap[a].fresh => Here(a)[1] \in {"cached", "labels"}
    /\ heap'[a].verdict # heap[a].verdict => Here(a)[1] \in {"evaluated", "cached", "judge"}
    /\ heap'[a].rows # heap[a].rows => Here(a)[1] = "sources"

\* What a step may do to the memory of its process.
LEMMA StepRemembers ==
    ASSUME HeapShapes, NEW a \in Actor, Step(a)
    PROVE  Remembers(a)
<1>0. /\ DOMAIN heap = Actor /\ \A b \in Actor : DOMAIN heap[b] = HeapFields
      /\ {"count", "available", "doomed", "fresh", "verdict", "rows", "evaluating"} = HeapFields
  BY DEF HeapShapes, HeapFields
<1> HIDE DEF HeapFields
<1>1. CASE heap' = heap
  BY <1>0, <1>1 DEF Remembers
<1>2. CASE Count(a)
  <2> DEFINE v == CountMembers(cor)
  <2>1. heap' = [heap EXCEPT ![a] = [heap[a] EXCEPT !.count = v]]
    BY <1>2, Zenon DEF Count, HeapCall
  <2> HIDE DEF v
  <2> QED
    BY <1>0, <2>1 DEF Remembers
<1>3. CASE Evaluate(a)
  <2>1. heap' = [heap EXCEPT ![a] = [heap[a] EXCEPT !.evaluating = TRUE]]
    BY <1>3, Zenon DEF Evaluate, HeapCall
  <2> QED
    BY <1>0, <2>1 DEF Remembers
<1>4. CASE Evaluated(a)
  <2>1. heap' = [heap EXCEPT ![a] = [heap[a] EXCEPT !.evaluating = FALSE, !.verdict = <<>>]]
    BY <1>4, Zenon DEF Evaluated, HeapCall
  <2>2. Here(a)[1] = "evaluated"
    BY <1>4, Zenon DEF Evaluated, HeapCall, Doing
  <2> QED
    BY <1>0, <2>1, <2>2 DEF Remembers
<1>5. CASE Cached(a)
  <2>1. /\ \E v, f : heap' = [heap EXCEPT ![a] = [heap[a] EXCEPT !.verdict = v, !.fresh = f]]
        /\ Here(a)[1] = "cached"
    BY <1>5, Zenon DEF Cached, HeapCall, Doing
  <2> QED
    BY <1>0, <2>1 DEF Remembers
<1>6. CASE Judge(a)
  <2>1. /\ \E v : heap' = [heap EXCEPT ![a] = [heap[a] EXCEPT !.verdict = v]]
        /\ Here(a)[1] = "judge"
    BY <1>6, Zenon DEF Judge, HeapCall, Doing
  <2> QED
    BY <1>0, <2>1 DEF Remembers
<1>7. CASE Sources(a)
  <2>1. /\ \E v : heap' = [heap EXCEPT ![a] = [heap[a] EXCEPT !.rows = v]]
        /\ Here(a)[1] = "sources"
    BY <1>7, Zenon DEF Sources, HeapCall, Doing
  <2> QED
    BY <1>0, <2>1 DEF Remembers
<1>8. CASE Collection(a)
  <2>1. heap' = [heap EXCEPT ![a].count = 0]
    BY <1>8, Zenon DEF Collection
  <2> QED
    BY <1>0, <2>1 DEF Remembers
<1>9. CASE Snapshot(a)
  <2> DEFINE v == heap[a].available
             w == IF HasSnapshot(fly', Arg(a)) /\ ~heap[a].evaluating THEN v \cup {Arg(a)} ELSE v
  <2>1. heap' = [heap EXCEPT ![a] = [heap[a] EXCEPT !.available = w]]
    BY <1>9, Zenon DEF Snapshot
  <2>2. w \subseteq v \cup fly'.snapshots
    BY Zenon DEF HasSnapshot
  <2> HIDE DEF w
  <2> QED
    BY <1>0, <2>1, <2>2 DEF Remembers
<1>10. CASE Hits(a)
  <2>1. heap' = [heap EXCEPT ![a].available = {}]
    BY <1>10, Zenon DEF Hits
  <2> QED
    BY <1>0, <2>1 DEF Remembers
<1>11. CASE Score(a)
  <2>1. heap' = heap \/ heap' = [heap EXCEPT ![a].doomed = TRUE]
    BY <1>11, Zenon DEF Score
  <2> QED
    BY <1>0, <2>1 DEF Remembers
<1>12. CASE Label(a)
  <2>1. /\ heap' = heap \/ \E r : heap' = [heap EXCEPT ![a].fresh = @ \ {r}]
        /\ Here(a)[1] = "labels"
    BY <1>12, Zenon DEF Label, Doing
  <2> QED
    BY <1>0, <2>1 DEF Remembers
<1>13. Materialize(a) \/ Reraise(a) => heap' = heap
  BY Zenon DEF Materialize, Reraise
<1> QED
  BY <1>1, <1>2, <1>3, <1>4, <1>5, <1>6, <1>7, <1>8, <1>9, <1>10, <1>11, <1>12, <1>13,
     StepIs, FlyFrame, CorFrame, FileFrame, Zenon DEF HeapSteps

\* What holds of the roots at every moment.
FilesHold == FileShapes /\ LockHolds /\ RootHolds /\ IndexTellsManifests

\* After a write its process has the lock and the index before it.
LEMMA WriteIs ==
    ASSUME FileShapes, PlaceHolds, LockHolds, NEW a \in Actor, Step(a), NEW m, Writes(a, m)
    PROVE  \E s \in Sessions, k \in Kinds :
              /\ s = In(a) /\ s[1] = a /\ k = Kind(s) /\ Root(s) = <<a, k>> /\ Root(s) \in Roots
              /\ held[a].kind = "none" /\ \A b \in Actor : held[b].kind # k
              /\ session' = [session EXCEPT ![s] = m] /\ manifest' = [manifest EXCEPT ![<<a, k>>] = m]
              /\ held' = [held EXCEPT ![a] = [kind |-> k, rows |-> index[k]]] /\ index' = index
              /\ Here(a)'[1] = "index" /\ fate'[a] = "going" /\ fate[a] = "going"
              /\ pc'[a] = pc[a] + 1 /\ pc[a] + 1 <= Len(Script(a))
<1> DEFINE s == In(a)
           k == Kind(s)
<1>1. ~Ended(a) /\ pc[a] <= Len(Script(a))
  BY StepIs DEF PlaceHolds
<1>2. /\ Here(a)[1] \in Writers /\ WriteManifest(s, m) /\ s \in Sessions /\ Onward(a)
  BY Zenon DEF Writes
<1>3. Root(s) \in Roots /\ Root(s)[1] = a /\ s[1] = a
  BY <1>1, <1>2, SessionIs
<1>4. Root(s) = <<a, k>> /\ k \in Kinds
  BY <1>3 DEF Root, Roots
<1>5. held[a].kind = "none"
  <2>1. "index" \notin Writers
    BY DEF Writers
  <2> QED
    BY <1>2, <2>1, Zenon DEF LockHolds
<1>6. Followed(Script(a), pc[a], 1, "index") /\ pc[a] \in 1..Len(Script(a)) /\ Len(Script(a)) \in Nat
  BY <1>1, <1>2, HereIs DEF Adjacent
<1>7. pc'[a] = pc[a] + 1 /\ pc[a] + 1 <= Len(Script(a)) /\ fate' = fate /\ role' = role
  <2>1. pc[a] < Len(Script(a)) /\ pc[a] + 1 <= Len(Script(a))
    BY <1>6 DEF Followed
  <2> QED
    BY <1>2, <2>1 DEF Onward, To, PlaceHolds
<1>8. Here(a)' = Script(a)[pc'[a]]
  BY <1>7, SameScript DEF Here
<1>9. Here(a)'[1] = "index"
  BY <1>6, <1>7, <1>8 DEF Followed
<1>10. fate[a] = "going"
  BY <1>1 DEF Ended
<1> HIDE DEF s
<1>11. /\ \A b \in Actor : held[b].kind # k
       /\ session' = [session EXCEPT ![s] = m] /\ manifest' = [manifest EXCEPT ![<<a, k>>] = m]
       /\ held' = [held EXCEPT ![a] = [kind |-> k, rows |-> index[k]]] /\ index' = index
  BY <1>2, <1>3, <1>4 DEF WriteManifest, Locked
<1> HIDE DEF k
<1> QED
  BY <1>2, <1>3, <1>4, <1>5, <1>7, <1>9, <1>10, <1>11 DEF s, k

\* Which root a session is of.
LEMMA KindsAre ==
    /\ "run" \in Kinds /\ "corpus" \in Kinds /\ "evaluation" \notin Kinds /\ "none" \notin Kinds
    /\ \A b \in Actor : /\ <<b, "run">> \in Sessions /\ <<b, "evaluation">> \in Sessions
                        /\ <<b, "run">> \in Roots
    /\ \A s \in Sessions : Kind(s) = "run" => s = <<s[1], "run">> \/ s = <<s[1], "evaluation">>
    /\ \A s \in Sessions : Kind(s) # "run" => s # <<s[1], "run">> /\ s # <<s[1], "evaluation">>
BY DEF Kinds, Sessions, Roots, Kind

\* A run that closes goes on closing.
LEMMA StillClosing ==
    ASSUME PlaceHolds, NEW a \in Actor, Moves(a), NEW b \in Actor, IsRun(b)
    PROVE  /\ ClosePlace(b) \in Nat /\ RoundsEnd(b) \in Nat /\ RoundsEnd(b) < ClosePlace(b)
           /\ pc[b] >= ClosePlace(b) => pc'[b] >= ClosePlace(b)
           /\ pc[b] > RoundsEnd(b) => pc'[b] > RoundsEnd(b)
<1>1. ClosePlace(b) \in Nat /\ RoundsEnd(b) \in Nat /\ RoundsEnd(b) < ClosePlace(b)
  BY AllLaid DEF Laid
<1>2. CASE b = a
  BY <1>1, <1>2 DEF Moves, PlaceHolds
<1>3. CASE b # a
  BY <1>1, <1>3 DEF Moves
<1> QED
  BY <1>1, <1>2, <1>3

\* A run's root stays its own while its manifest, files and sessions do.
LEMMA RootSame ==
    ASSUME NEW b \in Actor, OwnRoot(b), role' = role,
           session'[<<b, "run">>] = session[<<b, "run">>],
           session'[<<b, "evaluation">>] = session[<<b, "evaluation">>],
           manifest'[<<b, "run">>] = manifest[<<b, "run">>],
           disk'[<<b, "run">>] = disk[<<b, "run">>],
           pc[b] >= ClosePlace(b) => pc'[b] >= ClosePlace(b)
    PROVE  OwnRoot(b)'
<1>1. ClosePlace(b)' = ClosePlace(b)
  BY SameScript
<1> QED
  BY <1>1 DEF OwnRoot

\* A write of a manifest takes the lock, and the index is told afterwards.
LEMMA WriteHolds ==
    ASSUME PlaceHolds, HeapShapes, FilesHold, NEW a \in Actor, Step(a), NEW m, Writes(a, m)
    PROVE  FilesHold'
<1> USE DEF FilesHold
<1>1. PICK s \in Sessions, k \in Kinds :
              /\ s = In(a) /\ s[1] = a /\ k = Kind(s) /\ Root(s) = <<a, k>> /\ Root(s) \in Roots
              /\ held[a].kind = "none" /\ \A b \in Actor : held[b].kind # k
              /\ session' = [session EXCEPT ![s] = m] /\ manifest' = [manifest EXCEPT ![<<a, k>>] = m]
              /\ held' = [held EXCEPT ![a] = [kind |-> k, rows |-> index[k]]] /\ index' = index
              /\ Here(a)'[1] = "index" /\ fate'[a] = "going" /\ fate[a] = "going"
              /\ pc'[a] = pc[a] + 1 /\ pc[a] + 1 <= Len(Script(a))
  BY WriteIs
<1>2. Moves(a) /\ role' = role
  BY StepMoves DEF Moves
<1>3. \A b \in Actor : b # a => fate'[b] = fate[b] /\ pc'[b] = pc[b] /\ Here(b)' = Here(b)
  <2>1. \A b \in Actor : Script(b)' = Script(b)
    BY <1>2, SameScript
  <2> QED
    BY <1>2, <2>1 DEF Moves, Here
<1>4. DOMAIN m = {"status", "entries"} /\ m.status \in Statuses
  BY Zenon DEF Writes
<1>5. \A b \in Actor : b # a => held'[b] = held[b]
  BY <1>1 DEF FileShapes
<1>6. held'[a].kind = k /\ held'[a].rows = index[k] /\ DOMAIN held'[a] = {"kind", "rows"}
  BY <1>1 DEF FileShapes
<1>7. disk' = disk \/ \E d : disk' = [disk EXCEPT ![<<a, k>>] = d]
  <2>1. disk' = disk \/ \E d : disk' = [disk EXCEPT ![Root(In(a))] = d]
    BY Zenon DEF Writes
  <2> QED
    BY <1>1, <2>1
<1>8. FileShapes'
  <2>1. DOMAIN disk' = DOMAIN disk
    BY <1>7
  <2>2. DOMAIN session' = Sessions /\ DOMAIN manifest' = Roots /\ DOMAIN held' = Actor
    BY <1>1 DEF FileShapes
  <2>3. ASSUME NEW t \in Sessions PROVE session'[t] = m \/ session'[t] = session[t]
    BY <1>1 DEF FileShapes
  <2>4. ASSUME NEW t \in Roots PROVE manifest'[t] = m \/ manifest'[t] = manifest[t]
    BY <1>1 DEF FileShapes
  <2>5. ASSUME NEW b \in Actor
        PROVE  DOMAIN held'[b] = {"kind", "rows"} /\ held'[b].kind \in Kinds \cup {"none"}
    BY <1>5, <1>6 DEF FileShapes
  <2> QED
    BY <1>1, <1>4, <2>1, <2>2, <2>3, <2>4, <2>5, Zenon DEF FileShapes
<1>9. LockHolds'
  <2>1. ASSUME NEW b \in Actor, held'[b].kind # "none"
        PROVE  fate'[b] = "going" /\ Here(b)'[1] = "index" /\ held'[b].rows = index'[held'[b].kind]
    <3>1. CASE b = a
      BY <1>1, <1>6, <3>1
    <3>2. CASE b # a
      BY <1>1, <1>3, <1>5, <2>1, <3>2 DEF LockHolds, Ended
    <3> QED
      BY <3>1, <3>2
  <2>2. ASSUME NEW b \in Actor, NEW c \in Actor, held'[b].kind = held'[c].kind, held'[b].kind # "none"
        PROVE  b = c
    <3>1. CASE b # a /\ c # a
      BY <1>5, <2>2, <3>1 DEF LockHolds
    <3>2. CASE b = a /\ c # a
      BY <1>1, <1>5, <1>6, <2>2, <3>2
    <3>3. CASE b # a /\ c = a
      BY <1>1, <1>5, <1>6, <2>2, <3>3
    <3> QED
      BY <3>1, <3>2, <3>3
  <2> QED
    BY <2>1, <2>2 DEF LockHolds, Ended
<1>10. IndexTellsManifests'
  <2>1. \A b \in Actor : heap[b].doomed => heap'[b].doomed
    BY StepRemembers, Zenon DEF Remembers
  <2>2. ASSUME NEW b \in Actor, NEW j \in Kinds
        PROVE  \/ manifest'[<<b, j>>].status = index'[j][b] \/ held'[b].kind = j
               \/ fate'[b] \in {"failed", "crashed"} \/ heap'[b].doomed
    <3>1. CASE b = a /\ j = k
      BY <1>6, <3>1
    <3>2. CASE <<b, j>> # <<a, k>>
      <4>1. <<b, j>> \in Roots
        BY DEF Roots
      <4>2. manifest'[<<b, j>>] = manifest[<<b, j>>]
        BY <1>1, <3>2, <4>1 DEF FileShapes
      <4>3. \/ manifest[<<b, j>>].status = index[j][b] \/ held[b].kind = j
            \/ fate[b] \in {"failed", "crashed"} \/ heap[b].doomed
        <5>1. <<b, j>>[1] = b /\ <<b, j>>[2] = j
          OBVIOUS
        <5> QED
          BY <4>1, <5>1, Zenon DEF IndexTellsManifests
      <4>4. held[b].kind = j => held'[b].kind = j
        <5>1. b = a => held[b].kind # j
          BY <1>1, KindsAre
        <5> QED
          BY <1>5, <5>1
      <4>5. fate[b] \in {"failed", "crashed"} => fate'[b] \in {"failed", "crashed"}
        BY <1>1, <1>3
      <4> QED
        BY <1>1, <2>1, <4>2, <4>3, <4>4, <4>5, Zenon
    <3> QED
      BY <3>1, <3>2
  <2>3. \A r \in Roots : r[1] \in Actor /\ r[2] \in Kinds /\ r = <<r[1], r[2]>>
    BY DEF Roots
  <2> QED
    BY <2>2, <2>3, Zenon DEF IndexTellsManifests
<1>11. RootHolds'
  <2>1. ASSUME NEW b \in Actor, IsRun(b) PROVE OwnRoot(b)'
    <3> DEFINE r == <<b, "run">>
               e == <<b, "evaluation">>
    <3>0. OwnRoot(b) /\ (pc[b] >= ClosePlace(b) => pc'[b] >= ClosePlace(b)) /\ ClosePlace(b) \in Nat
      BY <1>2, <2>1, StillClosing DEF RootHolds
    <3>1. CASE b # a \/ k # "run"
      <4>1. <<b, "run">> # <<a, k>> /\ r # s /\ e # s
        BY <1>1, <3>1, KindsAre
      <4>2. session'[r] = session[r] /\ session'[e] = session[e] /\ manifest'[r] = manifest[r]
        BY <1>1, <4>1, KindsAre DEF FileShapes
      <4>3. disk'[r] = disk[r]
        BY <1>7, <4>1, KindsAre DEF FileShapes
      <4> QED
        BY <1>2, <3>0, <4>2, <4>3, RootSame
    <3>2. CASE b = a /\ k = "run"
      <4>1. s = r \/ s = e
        BY <1>1, <3>2, KindsAre
      <4>2. /\ r \in Sessions /\ e \in Sessions /\ r \in Roots /\ r # e
            /\ manifest'[r] = m /\ session'[s] = m
            /\ s = r => session'[e] = session[e]
            /\ s = e => session'[r] = session[r]
        BY <1>1, <3>2, <4>1, KindsAre DEF FileShapes
      <4>3. ~Ended(a) /\ pc[a] <= Len(Script(a))
        BY <1>2 DEF Moves, PlaceHolds
      <4>4. /\ Named(a, Script(a), pc[a]) /\ Here(a) = Script(a)[pc[a]]
            /\ pc[a] <= RoundsEnd(a) => Here(a)[1] \in RoundsWords
            /\ pc[a] > RoundsEnd(a) /\ pc[a] < ClosePlace(a) => Here(a)[1] \in EvalWords
            /\ pc[a] >= ClosePlace(a) => Here(a)[1] \in CloseWords
        BY <2>1, <3>2, <4>3, HereIs
      <4>5. pc[a] \in Nat /\ RoundsEnd(a) \in Nat /\ ClosePlace(a)' = ClosePlace(a)
        BY <1>2, <2>1, <3>2, StillClosing, SameScript DEF PlaceHolds
      <4>6. CASE Here(a)[1] = "create" /\ disk' = disk /\ m.status = "running" /\ m.entries = {"runtime.logs"}
        BY <3>0, <3>2, <4>1, <4>2, <4>5, <4>6 DEF OwnRoot
      <4>7. CASE Here(a)[1] = "finalize"
        <5>1. disk' = disk /\ s = r /\ m.entries = session[s].entries
          <6>1. /\ Here(a)[1] = "finalize" /\ disk' = disk /\ Root(In(a)) = In(a)
                /\ m.entries = session[In(a)].entries
            BY <4>7, Zenon DEF Writes
          <6> QED
            BY <1>1, <3>2, <6>1
        <5>2. "finalize" \notin RoundsWords /\ "finalize" \notin EvalWords
          BY DEF RoundsWords, OpenWords, StartWords, RoundWords, EvalWords
        <5>3. pc[a] >= ClosePlace(a)
          BY <3>0, <3>2, <4>4, <4>5, <4>7, <5>2
        <5> QED
          BY <3>0, <3>2, <4>2, <4>5, <5>1, <5>3 DEF OwnRoot
      <4>8. CASE Here(a)[1] \notin {"create", "finalize"}
        <5>1. PICK name, d :
                 /\ m.status = session[s].status
                 /\ m.entries = session[s].entries \cup {name}
                 /\ disk' = [disk EXCEPT ![r] = d] /\ DOMAIN d = DOMAIN disk[r] \cup {name}
                 /\ s = r => name \notin Outputs
          <6>1. /\ m.status = session[In(a)].status
                /\ \E name, d :
                     /\ m.entries = session[In(a)].entries \cup {name}
                     /\ disk' = [disk EXCEPT ![Root(In(a))] = d]
                     /\ DOMAIN d = DOMAIN disk[Root(In(a))] \cup {name}
                     /\ IsRun(a) /\ In(a) = <<a, "run">> => name \notin Outputs
            BY <4>8, Zenon DEF Writes
          <6> QED
            BY <1>1, <2>1, <3>2, <6>1
        <5>3. DOMAIN disk'[r] = DOMAIN disk[r] \cup {name}
          BY <4>2, <5>1 DEF FileShapes
        <5>4. Here(a)[1] \in CloseWords => k = "corpus"
          <6>1. Here(a)[1] \in CloseWords => Here(a)[1] \in {"ingest"}
            <7>1. Here(a)[1] \in Writers
              BY Zenon DEF Writes
            <7> QED
              BY <4>8, <7>1 DEF CloseWords, Writers
          <6>2. Here(a)[1] = "ingest" => s = <<a, "corpus">>
            BY <1>1, <4>4 DEF Named, In
          <6>3. s = <<a, "corpus">> => k = "corpus"
            BY <1>1 DEF Kind
          <6> QED
            BY <6>1, <6>2, <6>3
        <5>5. pc[a] < ClosePlace(a)
          BY <3>0, <3>2, <4>4, <4>5, <5>4
        <5>6. /\ session[r].status \in {"none", "running"} /\ session[e].status \in {"none", "running"}
          BY <3>0, <3>2, <4>5, <5>5 DEF OwnRoot
        <5>7. session'[r].status \in {"none", "running"} /\ session'[e].status \in {"none", "running"}
              /\ manifest'[r].status \in {"none", "running"}
          BY <4>1, <4>2, <5>1, <5>6
        <5>8. session'[r].entries \subseteq (DOMAIN disk'[r] \ Outputs) \cup {"runtime.logs"}
          <6>1. session[r].entries \subseteq (DOMAIN disk[r] \ Outputs) \cup {"runtime.logs"}
            BY <3>0 DEF OwnRoot
          <6>2. session'[r].entries = session[r].entries \/ (s = r /\ session'[r].entries = session[r].entries \cup {name})
            BY <4>1, <4>2, <5>1
          <6> QED
            BY <5>1, <5>3, <6>1, <6>2
        <5>9. manifest'[r].status \notin {"completed", "failed"}
          BY <5>7
        <5> QED
          BY <5>7, <5>8, <5>9 DEF OwnRoot
      <4> QED
        BY <4>6, <4>7, <4>8, Zenon DEF Writes
    <3> QED
      BY <3>1, <3>2
  <2>2. \A b \in Actor : IsRun(b)' <=> IsRun(b)
    BY <1>2, SameScript
  <2> QED
    BY <2>1, <2>2 DEF RootHolds
<1> QED
  BY <1>8, <1>9, <1>10, <1>11

\* A step that leaves the locks and the index alone, and is not about to write one.
LEMMA LockStays ==
    ASSUME NEW a \in Actor, Moves(a), LockHolds, held' = held, index' = index, Here(a)[1] # "index"
    PROVE  LockHolds'
<1>1. \A b \in Actor : b # a => fate'[b] = fate[b] /\ Here(b)' = Here(b)
  <2>1. \A b \in Actor : Script(b)' = Script(b)
    BY SameScript DEF Moves
  <2> QED
    BY <2>1 DEF Moves, Here
<1>2. held[a].kind = "none"
  BY Zenon DEF LockHolds
<1>3. ASSUME NEW b \in Actor, held'[b].kind # "none"
      PROVE  ~Ended(b)' /\ Here(b)'[1] = "index" /\ held'[b].rows = index'[held'[b].kind]
  BY <1>1, <1>2, <1>3 DEF LockHolds, Ended
<1> QED
  BY <1>3 DEF LockHolds

\* The index tells what it told while no manifest changes.
LEMMA TellStays ==
    ASSUME NEW a \in Actor, Moves(a), Remembers(a), IndexTellsManifests,
           held' = held, index' = index, manifest' = manifest
    PROVE  IndexTellsManifests'
<1>1. \A b \in Actor : b # a => fate'[b] = fate[b]
  BY DEF Moves
<1>2. fate[a] = "going"
  BY DEF Moves, Ended
<1>3. \A b \in Actor : heap[b].doomed => heap'[b].doomed
  BY Zenon DEF Remembers
<1>4. \A b \in Actor : fate[b] \in {"failed", "crashed"} => fate'[b] \in {"failed", "crashed"}
  BY <1>1, <1>2
<1>5. \A r \in Roots : r[1] \in Actor
  BY DEF Roots
<1> QED
  BY <1>3, <1>4, <1>5, Zenon DEF IndexTellsManifests

\* The index is written under its lock, which is then free.
LEMMA IndexHolds ==
    ASSUME PlaceHolds, HeapShapes, FilesHold, NEW a \in Actor, Step(a), WriteIndex(a)
    PROVE  FilesHold'
<1> USE DEF FilesHold
<1> DEFINE k == held[a].kind
<1>1. /\ k # "none" /\ session' = session /\ manifest' = manifest /\ disk' = disk
      /\ index' = [index EXCEPT ![k] = [held[a].rows EXCEPT ![a] = manifest[<<a, k>>].status]]
      /\ held' = [held EXCEPT ![a] = NoLock]
  BY DEF WriteIndex
<1>2. Moves(a) /\ Remembers(a) /\ role' = role
  BY StepMoves, StepRemembers DEF Moves
<1>3. k \in Kinds /\ held[a].rows = index[k] /\ <<a, k>> \in Roots
  BY <1>1 DEF LockHolds, FileShapes, Roots
<1>4. \A b \in Actor : b # a => held'[b] = held[b] /\ fate'[b] = fate[b] /\ Here(b)' = Here(b)
  <2>1. \A b \in Actor : Script(b)' = Script(b)
    BY <1>2, SameScript
  <2> QED
    BY <1>1, <1>2, <2>1 DEF Moves, Here, FileShapes
<1>5. held'[a] = NoLock /\ held'[a].kind = "none" /\ DOMAIN held'[a] = {"kind", "rows"}
  BY <1>1 DEF FileShapes, NoLock
<1>6. index' = [index EXCEPT ![k] = [index[k] EXCEPT ![a] = manifest[<<a, k>>].status]]
  BY <1>1, <1>3
<1>7. manifest[<<a, k>>].status \in Statuses
  BY <1>3 DEF FileShapes
<1>8. FileShapes'
  <2>1. index' \in [Kinds -> [Actor -> Statuses]]
    BY <1>3, <1>6, <1>7 DEF FileShapes
  <2>2. DOMAIN held' = Actor
    BY <1>1 DEF FileShapes
  <2>3. \A b \in Actor : DOMAIN held'[b] = {"kind", "rows"} /\ held'[b].kind \in Kinds \cup {"none"}
    BY <1>4, <1>5 DEF FileShapes
  <2> QED
    BY <1>1, <2>1, <2>2, <2>3, Zenon DEF FileShapes
<1>9. \A b \in Actor, j \in Kinds : b # a \/ j # k => index'[j][b] = index[j][b]
  BY <1>3, <1>6 DEF FileShapes
<1>10. LockHolds'
  <2>1. ASSUME NEW b \in Actor, held'[b].kind # "none"
        PROVE  b # a /\ ~Ended(b)' /\ Here(b)'[1] = "index" /\ held'[b].rows = index'[held'[b].kind]
    <3>1. b # a
      BY <1>5, <2>1
    <3>2. ~Ended(b) /\ Here(b)[1] = "index" /\ held[b].rows = index[held[b].kind] /\ held'[b] = held[b]
      BY <1>4, <2>1, <3>1 DEF LockHolds
    <3>3. held[b].kind # k
      BY <1>1, <3>1, Zenon DEF LockHolds
    <3>4. index'[held[b].kind] = index[held[b].kind]
      BY <1>3, <1>6, <2>1, <3>2, <3>3 DEF FileShapes
    <3> QED
      BY <1>4, <3>1, <3>2, <3>4 DEF Ended
  <2>2. ASSUME NEW b \in Actor, NEW c \in Actor, held'[b].kind = held'[c].kind, held'[b].kind # "none"
        PROVE  b = c
    BY <1>4, <2>1, <2>2 DEF LockHolds
  <2> QED
    BY <2>1, <2>2 DEF LockHolds
<1>11. IndexTellsManifests'
  <2>1. \A b \in Actor : heap[b].doomed => heap'[b].doomed
    BY <1>2, Zenon DEF Remembers
  <2>2. fate[a] = "going"
    BY <1>2 DEF Moves, Ended
  <2>3. ASSUME NEW b \in Actor, NEW j \in Kinds
        PROVE  \/ manifest[<<b, j>>].status = index'[j][b] \/ held'[b].kind = j
               \/ fate'[b] \in {"failed", "crashed"} \/ heap'[b].doomed
    <3>1. CASE b = a /\ j = k
      BY <1>3, <1>6, <3>1 DEF FileShapes
    <3>2. CASE b # a \/ j # k
      <4>1. \/ manifest[<<b, j>>].status = index[j][b] \/ held[b].kind = j
            \/ fate[b] \in {"failed", "crashed"} \/ heap[b].doomed
        <5>1. <<b, j>>[1] = b /\ <<b, j>>[2] = j /\ <<b, j>> \in Roots
          BY DEF Roots
        <5> QED
          BY <5>1, Zenon DEF IndexTellsManifests
      <4>2. held[b].kind = j => held'[b].kind = j
        BY <1>4, <3>2
      <4>3. fate[b] \in {"failed", "crashed"} => fate'[b] \in {"failed", "crashed"}
        BY <1>4, <2>2
      <4> QED
        BY <1>9, <2>1, <3>2, <4>1, <4>2, <4>3, Zenon
    <3> QED
      BY <3>1, <3>2
  <2>4. \A r \in Roots : r[1] \in Actor /\ r[2] \in Kinds /\ r = <<r[1], r[2]>>
    BY DEF Roots
  <2> QED
    BY <1>1, <2>3, <2>4, Zenon DEF IndexTellsManifests
<1>12. RootHolds'
  <2>1. ASSUME NEW b \in Actor, IsRun(b) PROVE OwnRoot(b)'
    BY <1>1, <1>2, <2>1, StillClosing, RootSame DEF RootHolds
  <2> QED
    BY <1>2, <2>1, SameScript DEF RootHolds
<1> QED
  BY <1>8, <1>10, <1>11, <1>12

\* What a step does to the roots.
LEMMA FilesStep ==
    ASSUME PlaceHolds, HeapShapes, FilesHold, NEW a \in Actor, Step(a)
    PROVE  FilesHold'
<1>1. Moves(a) /\ Remembers(a) /\ role' = role
  BY StepMoves, StepRemembers DEF Moves
<1>2. FileShapes /\ LockHolds /\ RootHolds /\ IndexTellsManifests
  BY DEF FilesHold
<1>3. \A b \in Actor : IsRun(b)' <=> IsRun(b)
  BY <1>1, SameScript
<1>4. CASE UNCHANGED files /\ Here(a)[1] # "index"
  <2>1. /\ session' = session /\ manifest' = manifest /\ disk' = disk /\ index' = index /\ held' = held
    BY <1>4 DEF files
  <2>2. LockHolds' /\ IndexTellsManifests'
    BY <1>1, <1>2, <1>4, <2>1, LockStays, TellStays
  <2>3. FileShapes'
    BY <1>2, <2>1, Zenon DEF FileShapes
  <2>4. ASSUME NEW b \in Actor, IsRun(b) PROVE OwnRoot(b)'
    BY <1>1, <1>2, <2>1, <2>4, StillClosing, RootSame DEF RootHolds
  <2> QED
    BY <1>3, <2>2, <2>3, <2>4 DEF FilesHold, RootHolds
<1>5. ASSUME NEW m, Writes(a, m) PROVE FilesHold'
  BY <1>5, WriteHolds
<1>6. CASE WriteIndex(a)
  BY <1>6, IndexHolds
<1>7. CASE Here(a)[1] = "adopt" /\ AdoptRoot(<<a, "evaluation">>)
  <2>1. Root(<<a, "evaluation">>) = <<a, "run">>
    BY DEF Root, Kind
  <2>2. /\ session' = [session EXCEPT ![<<a, "evaluation">>] = manifest[<<a, "run">>]]
        /\ manifest' = manifest /\ disk' = disk /\ index' = index /\ held' = held
    BY <1>7, <2>1 DEF AdoptRoot
  <2>3. LockHolds' /\ IndexTellsManifests'
    BY <1>1, <1>2, <1>7, <2>2, LockStays, TellStays
  <2>4. FileShapes'
    <3>1. <<a, "run">> \in Roots
      BY KindsAre
    <3>2. \A s \in Sessions : DOMAIN session'[s] = {"status", "entries"} /\ session'[s].status \in Statuses
      BY <1>2, <2>2, <3>1 DEF FileShapes
    <3>3. DOMAIN session' = Sessions
      BY <1>2, <2>2 DEF FileShapes
    <3> QED
      BY <1>2, <2>2, <3>2, <3>3, Zenon DEF FileShapes
  <2>5. ASSUME NEW b \in Actor, IsRun(b) PROVE OwnRoot(b)'
    <3>1. /\ <<b, "run">> \in Sessions /\ <<b, "evaluation">> \in Sessions
          /\ <<b, "run">> # <<a, "evaluation">>
      BY KindsAre
    <3>2. session'[<<b, "run">>] = session[<<b, "run">>] /\ OwnRoot(b)
      BY <1>2, <2>2, <2>5, <3>1 DEF FileShapes, RootHolds
    <3>3. CASE b # a
      <4>1. session'[<<b, "evaluation">>] = session[<<b, "evaluation">>]
        BY <1>2, <2>2, <3>1, <3>3 DEF FileShapes
      <4> QED
        BY <1>1, <2>2, <2>5, <3>2, <4>1, StillClosing, RootSame
    <3>4. CASE b = a
      <4>1. session'[<<b, "evaluation">>] = manifest[<<b, "run">>]
        BY <1>2, <2>2, <3>1, <3>4 DEF FileShapes
      <4>2. pc[a] <= Len(Script(a)) /\ pc[a] \in Nat /\ ClosePlace(b) \in Nat
        BY <1>1, <2>5, StillClosing DEF Moves, PlaceHolds
      <4>3. pc[a] >= ClosePlace(a) => Here(a)[1] \in CloseWords
        BY <2>5, <3>4, <4>2, HereIs
      <4>4. "adopt" \notin CloseWords
        BY DEF CloseWords
      <4>5. ~(pc[b] >= ClosePlace(b))
        BY <1>7, <3>4, <4>3, <4>4
      <4>6. ClosePlace(b)' = ClosePlace(b)
        BY <1>1, SameScript
      <4> QED
        BY <2>2, <3>2, <4>1, <4>5, <4>6 DEF OwnRoot
    <3> QED
      BY <3>3, <3>4
  <2> QED
    BY <1>3, <2>3, <2>4, <2>5 DEF FilesHold, RootHolds
<1>8. CASE Here(a)[1] = "move" /\ MoveInto(<<a, "run">>, Outputs, "content")
  <2> DEFINE d == With(disk[<<a, "run">>], [x \in Outputs |-> "content"])
  <2>1. DOMAIN d = DOMAIN disk[<<a, "run">>] \cup Outputs
    BY DEF With
  <2>2. /\ disk' = [disk EXCEPT ![<<a, "run">>] = d]
        /\ session' = session /\ manifest' = manifest /\ index' = index /\ held' = held
    BY <1>8, Zenon DEF MoveInto
  <2> HIDE DEF d
  <2>3. LockHolds' /\ IndexTellsManifests'
    BY <1>1, <1>2, <1>8, <2>2, LockStays, TellStays
  <2>4. FileShapes'
    <3>1. DOMAIN disk' = Roots
      BY <1>2, <2>2 DEF FileShapes
    <3> QED
      BY <1>2, <2>2, <3>1, Zenon DEF FileShapes
  <2>5. ASSUME NEW b \in Actor, IsRun(b) PROVE OwnRoot(b)'
    <3>1. <<b, "run">> \in Roots /\ OwnRoot(b)
      BY <1>2, <2>5, KindsAre DEF RootHolds
    <3>2. CASE b # a
      <4>1. disk'[<<b, "run">>] = disk[<<b, "run">>]
        BY <1>2, <2>2, <3>1, <3>2 DEF FileShapes
      <4> QED
        BY <1>1, <2>2, <2>5, <3>1, <4>1, StillClosing, RootSame
    <3>3. CASE b = a
      <4>1. DOMAIN disk'[<<b, "run">>] = DOMAIN disk[<<b, "run">>] \cup Outputs
        BY <1>2, <2>1, <2>2, <3>1, <3>3 DEF FileShapes
      <4>2. ClosePlace(b)' = ClosePlace(b) /\ (pc[b] >= ClosePlace(b) => pc'[b] >= ClosePlace(b))
        BY <1>1, <2>5, StillClosing, SameScript
      <4> QED
        BY <2>2, <3>1, <4>1, <4>2 DEF OwnRoot
    <3> QED
      BY <3>2, <3>3
  <2> QED
    BY <1>3, <2>3, <2>4, <2>5 DEF FilesHold, RootHolds
<1> QED
  BY <1>2, <1>4, <1>5, <1>6, <1>7, <1>8, FileEffects, Zenon

\* Nothing is written at first.
LEMMA FilesAtFirst == Init => FilesHold /\ HeapShapes
<1> SUFFICES ASSUME Init PROVE FilesHold /\ HeapShapes
  OBVIOUS
<1>1. /\ session = [s \in Sessions |-> NoManifest] /\ manifest = [r \in Roots |-> NoManifest]
      /\ disk = [r \in Roots |-> <<>>] /\ index = [k \in Kinds |-> [b \in Actor |-> "none"]]
      /\ held = [b \in Actor |-> NoLock] /\ heap = [b \in Actor |-> NoHeap]
  BY DEF Init, FilesInit
<1>2. DOMAIN NoManifest = {"status", "entries"} /\ NoManifest.status = "none" /\ NoManifest.entries = {}
  BY DEF NoManifest
<1>3. DOMAIN NoLock = {"kind", "rows"} /\ NoLock.kind = "none"
  BY DEF NoLock
<1>4. HeapShapes
  BY <1>1 DEF HeapShapes, NoHeap, HeapFields
<1>5. FileShapes
  BY <1>1, <1>2, <1>3 DEF FileShapes, Statuses
<1>6. LockHolds
  BY <1>1, <1>3 DEF LockHolds
<1>7. RootHolds
  BY <1>1, <1>2, KindsAre DEF RootHolds, OwnRoot
<1>8. IndexTellsManifests
  BY <1>1, <1>2 DEF IndexTellsManifests, Roots
<1> QED
  BY <1>4, <1>5, <1>6, <1>7, <1>8 DEF FilesHold

\* A call that raises, or the end of a process, lets go of the lock; a run that has to
\* close takes away what its evaluation had moved into the root.
LEMMA FilesFault ==
    ASSUME PlaceHolds, HeapShapes, FilesHold, NEW a \in Actor, Fail(a) \/ Crash(a)
    PROVE  FilesHold' /\ HeapShapes'
<1>1. /\ session' = session /\ manifest' = manifest /\ index' = index /\ role' = role
      /\ held' = [held EXCEPT ![a] = NoLock] /\ ~Ended(a)
      /\ \A b \in Actor : b # a => pc'[b] = pc[b] /\ fate'[b] = fate[b]
      /\ IsRun(a) => ClosePlace(a) \in Nat
  <2>1. IsRun(a) => ClosePlace(a) \in Nat
    BY AllLaid DEF Laid
  <2> QED
    BY <2>1 DEF Fail, Crash, LetGo, PlaceHolds, Body
<1>2. FileShapes /\ LockHolds /\ RootHolds /\ IndexTellsManifests
  BY DEF FilesHold
<1>3. /\ \A b \in Actor : b # a => held'[b] = held[b]
      /\ held'[a] = NoLock /\ NoLock.kind = "none" /\ DOMAIN NoLock = {"kind", "rows"}
      /\ DOMAIN held' = Actor
  BY <1>1, <1>2 DEF FileShapes, NoLock
<1>4. /\ DOMAIN disk' = Roots
      /\ \A r \in Roots : r # <<a, "run">> => disk'[r] = disk[r]
      /\ DOMAIN disk'[<<a, "run">>] \ Outputs = DOMAIN disk[<<a, "run">>] \ Outputs
      /\ disk' = disk \/ Fail(a)
  <2>0. <<a, "run">> \in Roots /\ DOMAIN disk = Roots
    BY <1>2, KindsAre DEF FileShapes
  <2>1. CASE Fail(a)
    <3> DEFINE d == disk[<<a, "run">>]
               e == IF heap[a].evaluating THEN Without(d, Outputs) ELSE d
    <3>1. disk' = [disk EXCEPT ![<<a, "run">>] = e]
      BY <2>1, Zenon DEF Fail, DropOutputs, Outputs
    <3>2. DOMAIN Without(d, Outputs) = DOMAIN d \ Outputs
      BY DEF Without
    <3>3. DOMAIN e \ Outputs = DOMAIN d \ Outputs
      BY <3>2
    <3> HIDE DEF e
    <3> QED
      BY <2>0, <2>1, <3>1, <3>3
  <2>2. CASE Crash(a)
    BY <2>0, <2>2 DEF Crash
  <2> QED
    BY <2>1, <2>2
<1>5. FileShapes'
  <2>1. \A b \in Actor : DOMAIN held'[b] = {"kind", "rows"} /\ held'[b].kind \in Kinds \cup {"none"}
    BY <1>2, <1>3 DEF FileShapes
  <2> QED
    BY <1>1, <1>2, <1>3, <1>4, <2>1, Zenon DEF FileShapes
<1>6. \A b \in Actor : Script(b)' = Script(b) /\ (IsRun(b)' <=> IsRun(b)) /\ ClosePlace(b)' = ClosePlace(b)
  BY <1>1, SameScript
<1>7. LockHolds'
  <2>1. ASSUME NEW b \in Actor, held'[b].kind # "none"
        PROVE  b # a /\ ~Ended(b)' /\ Here(b)'[1] = "index" /\ held'[b].rows = index'[held'[b].kind]
    <3>1. b # a /\ held'[b] = held[b] /\ Here(b)' = Here(b)
      BY <1>1, <1>3, <1>6, <2>1 DEF Here
    <3> QED
      BY <1>1, <1>2, <2>1, <3>1 DEF LockHolds, Ended
  <2>2. ASSUME NEW b \in Actor, NEW c \in Actor, held'[b].kind = held'[c].kind, held'[b].kind # "none"
        PROVE  b = c
    BY <1>2, <1>3, <2>1, <2>2 DEF LockHolds
  <2> QED
    BY <2>1, <2>2 DEF LockHolds
<1>8. /\ HeapShapes'
      /\ \A b \in Actor : b # a => heap'[b] = heap[b]
      /\ fate'[a] = "crashed" \/ heap'[a].doomed = TRUE
  <2>1. CASE Fail(a)
    <3>1. heap' = [heap EXCEPT ![a] = [NoHeap EXCEPT !.doomed = TRUE]]
      BY <2>1 DEF Fail
    <3> DEFINE h == [NoHeap EXCEPT !.doomed = TRUE]
    <3>2. DOMAIN h = HeapFields /\ h.doomed = TRUE
      BY DEF NoHeap, HeapFields
    <3> HIDE DEF h
    <3>3. heap' = [heap EXCEPT ![a] = h]
      BY <3>1 DEF h
    <3> QED
      BY <3>2, <3>3 DEF HeapShapes
  <2>2. CASE Crash(a)
    <3>1. heap' = heap /\ fate' = [fate EXCEPT ![a] = "crashed"]
      BY <2>2 DEF Crash
    <3> QED
      BY <3>1 DEF HeapShapes, PlaceHolds
  <2> QED
    BY <2>1, <2>2
<1>9. IndexTellsManifests'
  <2>1. \A r \in Roots : r[1] \in Actor
    BY DEF Roots
  <2>2. ASSUME NEW r \in Roots
        PROVE  \/ manifest[r].status = index[r[2]][r[1]] \/ held'[r[1]].kind = r[2]
               \/ fate'[r[1]] \in {"failed", "crashed"} \/ heap'[r[1]].doomed
    <3>1. CASE r[1] = a
      <4>1. heap'[a].doomed = TRUE => heap'[a].doomed
        OBVIOUS
      <4> QED
        BY <1>8, <3>1, <4>1, Zenon
    <3>2. CASE r[1] # a
      <4>1. held'[r[1]] = held[r[1]] /\ fate'[r[1]] = fate[r[1]] /\ heap'[r[1]] = heap[r[1]]
        BY <1>1, <1>3, <1>8, <2>1, <3>2
      <4> QED
        BY <1>2, <4>1, Zenon DEF IndexTellsManifests
    <3> QED
      BY <3>1, <3>2
  <2> QED
    BY <1>1, <2>2, Zenon DEF IndexTellsManifests
<1>10. RootHolds'
  <2>1. ASSUME NEW b \in Actor, IsRun(b) PROVE OwnRoot(b)'
    <3>0. OwnRoot(b) /\ <<b, "run">> \in Roots
      BY <1>2, <2>1, KindsAre DEF RootHolds
    <3>1. CASE b # a
      <4>1. disk'[<<b, "run">>] = disk[<<b, "run">>]
        BY <1>4, <3>0, <3>1
      <4> QED
        BY <1>1, <3>0, <3>1, <4>1, RootSame
    <3>2. CASE b = a /\ Crash(a)
      <4>1. disk' = disk /\ pc' = pc
        BY <3>2 DEF Crash
      <4> QED
        BY <1>1, <3>0, <4>1, RootSame
    <3>3. CASE b = a /\ Fail(a)
      <4>1. pc[a] < ClosePlace(a) /\ pc[a] \in Nat
        BY <2>1, <3>3 DEF Fail, Body, PlaceHolds
      <4>2. ~(pc[b] >= ClosePlace(b))
        BY <1>1, <2>1, <3>3, <4>1
      <4>3. manifest[<<b, "run">>].status \notin {"completed", "failed"}
        BY <3>0, <4>2 DEF OwnRoot
      <4> QED
        BY <1>1, <1>4, <3>0, <3>3, <4>2, <4>3 DEF OwnRoot
    <3> QED
      BY <3>1, <3>2, <3>3
  <2> QED
    BY <1>6, <2>1 DEF RootHolds
<1> QED
  BY <1>5, <1>7, <1>8, <1>9, <1>10 DEF FilesHold

\* Whatever step, failure or crash comes, the places, the files and the index hold.
LEMMA TreeStep ==
    ASSUME PlaceHolds, HeapShapes, FilesHold, [Next]_vars
    PROVE  PlaceHolds' /\ HeapShapes' /\ FilesHold'
<1>1. PlaceHolds'
  BY PlaceStep
<1>2. ASSUME NEW a \in Actor, Step(a) PROVE HeapShapes' /\ FilesHold'
  <2>1. FilesHold'
    BY <1>2, FilesStep
  <2>2. HeapShapes'
    BY <1>2, StepRemembers DEF Remembers, HeapShapes
  <2> QED
    BY <2>1, <2>2
<1>3. ASSUME NEW a \in Actor, Fail(a) \/ Crash(a) PROVE HeapShapes' /\ FilesHold'
  BY <1>3, FilesFault
<1>4. CASE UNCHANGED vars
  <2>1. /\ session' = session /\ manifest' = manifest /\ disk' = disk /\ index' = index
        /\ held' = held /\ role' = role /\ pc' = pc /\ fate' = fate /\ heap' = heap
    BY <1>4 DEF vars, files
  <2>2. \A b \in Actor : /\ Script(b)' = Script(b) /\ (IsRun(b)' <=> IsRun(b))
                         /\ ClosePlace(b)' = ClosePlace(b) /\ Here(b)' = Here(b)
    BY <2>1, SameScript DEF Here
  <2>3. FileShapes' /\ HeapShapes' /\ IndexTellsManifests'
    BY <2>1, Zenon DEF FileShapes, HeapShapes, FilesHold, IndexTellsManifests
  <2>4. LockHolds'
    BY <2>1, <2>2 DEF LockHolds, FilesHold, Ended
  <2>5. RootHolds'
    <3>1. ASSUME NEW b \in Actor, IsRun(b) PROVE OwnRoot(b)'
      BY <2>1, <3>1, RootSame DEF FilesHold, RootHolds
    <3> QED
      BY <2>2, <3>1 DEF RootHolds
  <2> QED
    BY <1>1, <2>3, <2>4, <2>5 DEF FilesHold
<1> QED
  BY <1>1, <1>2, <1>3, <1>4 DEF Next

\* What holds of the index and of a run's root is what the property says of them.
LEMMA TreeTells ==
    ASSUME PlaceHolds, FilesHold
    PROVE  ManifestsTellTheTree
<1>1. ManifestsNameFiles
  BY DEF FilesHold, RootHolds, OwnRoot, ManifestsNameFiles, Runs
<1> QED
  BY <1>1 DEF FilesHold, ManifestsTellTheTree

----------------------------------------------------------------------------
(* What earlier calls left behind.                                         *)

\* What a script lists before the present call has left its row.
LEMMA TrailHas ==
    ASSUME Trail, NEW a \in Actor, IsRun(a) => pc[a] < ClosePlace(a), NEW c,
           Earlier({}, Script(a), pc[a], c)
    PROVE  Done(a, c)
BY Zenon DEF Trail, Earlier

\* What a call needs of the stores is there when the call comes.
LEMMA Ready ==
    ASSUME PlaceHolds, Trail, NEW a \in Actor, pc[a] <= Len(Script(a))
    PROVE  /\ Here(a)[1] \in {"queries", "outcomes", "judged", "events", "term_outcomes"} =>
                \E r \in fly.runs : r.run = a
           /\ Here(a)[1] \in {"start_run", "labels", "judged"} => Job \in fly.tasks
           /\ Here(a)[1] = "link" => Job \in cor.jobs
           /\ Here(a)[1] = "hits" =>
                \A q \in Range(Sent[a][Arg(a)]) : \E r \in fly.queries : QueryOf(r) = <<a, q>>
           /\ Here(a)[1] = "labels" => Shortlist(a) \subseteq fly.snapshots
           /\ Here(a)[1] = "document" =>
                /\ Arg(a) \in DOMAIN disk[<<a, "corpus">>] /\ In(a) = <<a, "corpus">>
                /\ << <<a, "corpus">>, Arg(a)>> \in cor.refs
                /\ Person[Arg(a)] \in cor.subjects
           /\ Here(a)[1] = "observe" =>
                \A x \in Range(Arrivals[a]) : x.query = Arg(a) =>
                   /\ \E d \in cor.documents : d.doc = x.resume
                   /\ << <<a, "corpus">>, x.resume>> \in cor.refs
           /\ Here(a)[1] = "member" =>
                /\ Seen(a, Here(a)[3], Arg(a)) \in cor.observations
                /\ \E d \in cor.documents : d.doc = Arg(a)
                /\ cor.collection # {}
           /\ Here(a)[1] = "corpus_export" => \E r \in cor.refs : r[1] = <<a, "corpus">>
<1> DEFINE w == Here(a)[1]
           s == Script(a)
           p == pc[a]
           x == Here(a)[2]
           k == Here(a)[3]
<1>1. /\ Prepared(a, {}, s, p) /\ Named(a, s, p) /\ Here(a) = s[p]
      /\ IsRun(a) => /\ ClosePlace(a) \in Nat /\ p \in Nat
                     /\ p >= ClosePlace(a) => w \in CloseWords
  BY HereIs DEF PlaceHolds
<1>2. w = s[p][1] /\ x = s[p][2] /\ k = s[p][3] /\ Arg(a) = x /\ In(a) = <<a, k>>
  BY <1>1 DEF Arg, In
<1> HIDE DEF s, p
<1>3. ASSUME w \notin CloseWords, NEW c, Earlier({}, s, p, c) PROVE Done(a, c)
  <2>1. IsRun(a) => p < ClosePlace(a)
    BY <1>1, <1>3
  <2> QED
    BY <1>3, <2>1, TrailHas DEF s, p
<1>4. \A v \in {"queries", "outcomes", "judged", "events", "term_outcomes", "start_run", "labels",
                "link", "hits", "document", "observe", "member", "corpus_export"} : v \notin CloseWords
  BY DEF CloseWords
<1> HIDE DEF w, x, k
<1>5. ASSUME w \in {"queries", "outcomes", "judged", "events", "term_outcomes"}
      PROVE  \E r \in fly.runs : r.run = a
  <2>1. Earlier({}, s, p, Call("start_run"))
    BY <1>1, <1>2, <1>5, Zenon DEF Prepared
  <2>2. Done(a, Call("start_run"))
    BY <1>3, <1>4, <1>5, <2>1
  <2> QED
    BY <2>2 DEF Done, Call
<1>6. ASSUME w \in {"start_run", "labels", "judged"} PROVE Job \in fly.tasks
  <2>1. Earlier({}, s, p, Call("task"))
    BY <1>1, <1>2, <1>6, Zenon DEF Prepared
  <2>2. Done(a, Call("task"))
    BY <1>3, <1>4, <1>6, <2>1
  <2> QED
    BY <2>2 DEF Done, Call
<1>7. ASSUME w = "link" PROVE Job \in cor.jobs
  <2>1. Earlier({}, s, p, Call("job"))
    BY <1>1, <1>2, <1>7, Zenon DEF Prepared
  <2>2. Done(a, Call("job"))
    BY <1>3, <1>4, <1>7, <2>1
  <2> QED
    BY <2>2 DEF Done, Call
<1>8. ASSUME w = "hits"
      PROVE  \A q \in Range(Sent[a][x]) : \E r \in fly.queries : QueryOf(r) = <<a, q>>
  <2>1. Earlier({}, s, p, <<"queries", x, "-">>)
    BY <1>1, <1>2, <1>8, Zenon DEF Prepared
  <2>2. Done(a, <<"queries", x, "-">>)
    BY <1>3, <1>4, <1>8, <2>1
  <2> QED
    BY <2>2 DEF Done
<1>9. ASSUME w = "labels" PROVE Shortlist(a) \subseteq fly.snapshots
  <2>1. ASSUME NEW r \in Shortlist(a) PROVE r \in fly.snapshots
    <3>1. Earlier({}, s, p, <<"snapshot", r, Len(Sent[a])>>)
      BY <1>1, <1>2, <1>9, Zenon DEF Prepared
    <3>2. Done(a, <<"snapshot", r, Len(Sent[a])>>)
      BY <1>3, <1>4, <1>9, <3>1
    <3>3. r \in Stored(a, Len(Sent[a]))
      BY DEF Shortlist
    <3> QED
      BY <3>2, <3>3 DEF Done
  <2> QED
    BY <2>1
<1>10. ASSUME w = "document"
       PROVE  /\ x \in DOMAIN disk[<<a, "corpus">>] /\ k = "corpus"
              /\ << <<a, "corpus">>, x>> \in cor.refs
              /\ Person[x] \in cor.subjects
  <2>1. /\ Earlier({}, s, p, <<"payload", x, "corpus">>)
        /\ Earlier({}, s, p, <<"corpus_ref", x, "corpus">>)
        /\ Earlier({}, s, p, <<"subject", x, "-">>)
    BY <1>1, <1>2, <1>10, Zenon DEF Prepared
  <2>2. /\ Done(a, <<"payload", x, "corpus">>) /\ Done(a, <<"corpus_ref", x, "corpus">>)
        /\ Done(a, <<"subject", x, "-">>)
    BY <1>3, <1>4, <1>10, <2>1
  <2>3. x \in DOMAIN disk[<<a, "corpus">>]
    BY <2>2 DEF Done
  <2>4. << <<a, "corpus">>, x>> \in cor.refs
    BY <2>2 DEF Done
  <2>5. Person[x] \in cor.subjects
    BY <2>2 DEF Done
  <2>6. k = "corpus"
    BY <1>1, <1>2, <1>10 DEF Named
  <2> QED
    BY <2>3, <2>4, <2>5, <2>6
<1>11. ASSUME w = "observe"
       PROVE  \A y \in Range(Arrivals[a]) : y.query = x =>
                   /\ \E d \in cor.documents : d.doc = y.resume
                   /\ << <<a, "corpus">>, y.resume>> \in cor.refs
  <2>1. ASSUME NEW y \in Range(Arrivals[a]), y.query = x
        PROVE  /\ \E d \in cor.documents : d.doc = y.resume
               /\ << <<a, "corpus">>, y.resume>> \in cor.refs
    <3>1. /\ Earlier({}, s, p, <<"document", y.resume, "corpus">>)
          /\ Earlier({}, s, p, <<"corpus_ref", y.resume, "corpus">>)
      BY <1>1, <1>2, <1>11, <2>1, Zenon DEF Prepared
    <3>2. Done(a, <<"document", y.resume, "corpus">>) /\ Done(a, <<"corpus_ref", y.resume, "corpus">>)
      BY <1>3, <1>4, <1>11, <3>1
    <3>3. \E d \in cor.documents : d.doc = y.resume
      BY <3>2 DEF Done
    <3>4. << <<a, "corpus">>, y.resume>> \in cor.refs
      BY <3>2 DEF Done
    <3> QED
      BY <3>3, <3>4
  <2> QED
    BY <2>1
<1>12. ASSUME w = "member"
       PROVE  /\ Seen(a, k, x) \in cor.observations
              /\ \E d \in cor.documents : d.doc = x
              /\ cor.collection # {}
  <2>1. /\ Earlier({}, s, p, <<"observe", k, "corpus">>)
        /\ Earlier({}, s, p, <<"document", x, "corpus">>)
        /\ Earlier({}, s, p, Call("collection"))
    BY <1>1, <1>2, <1>12, Zenon DEF Prepared
  <2>2. PICK y \in Range(Arrivals[a]) : y.query = k /\ y.resume = x
    BY <1>1, <1>2, <1>12, Zenon DEF Prepared
  <2>3. Done(a, <<"observe", k, "corpus">>)
    BY <1>3, <1>4, <1>12, <2>1
  <2>4. Seen(a, y.query, y.resume) \in cor.observations
    <3>1. \A z \in Range(Arrivals[a]) : z.query = k => Seen(a, z.query, z.resume) \in cor.observations
      BY <2>3 DEF Done
    <3> QED
      BY <2>2, <3>1, Zenon
  <2>5. \E d \in cor.documents : d.doc = x
    <3>1. Done(a, <<"document", x, "corpus">>)
      BY <1>3, <1>4, <1>12, <2>1
    <3> QED
      BY <3>1 DEF Done
  <2>6. cor.collection # {}
    <3>1. Done(a, Call("collection"))
      BY <1>3, <1>4, <1>12, <2>1
    <3> QED
      BY <3>1 DEF Done, Call
  <2> QED
    BY <2>2, <2>4, <2>5, <2>6, Zenon
<1>13. ASSUME w = "corpus_export" PROVE \E r \in cor.refs : r[1] = <<a, "corpus">>
  <2>1. PICK y \in Terms : Earlier({}, s, p, <<"corpus_ref", y, "corpus">>)
    BY <1>1, <1>2, <1>13, Zenon DEF Prepared
  <2>2. Done(a, <<"corpus_ref", y, "corpus">>)
    BY <1>3, <1>4, <1>13, <2>1
  <2>3. << <<a, "corpus">>, y>> \in cor.refs
    BY <2>2 DEF Done
  <2> QED
    BY <2>3
<1>14. In(a) = <<a, k>> /\ Arg(a) = x /\ Here(a)[1] = w /\ Here(a)[3] = k
  BY <1>2 DEF w, k
<1> QED
  BY <1>5, <1>6, <1>7, <1>8, <1>9, <1>10, <1>11, <1>12, <1>13, <1>14

----------------------------------------------------------------------------
(* The tables of the flywheel database.                                    *)

\* Rows may be replaced, but no key disappears.
FlyGrows ==
    /\ fly.tasks \subseteq fly'.tasks /\ fly.snapshots \subseteq fly'.snapshots
    /\ \A r \in fly.runs : \E m \in fly'.runs : m.run = r.run
    /\ \A q \in fly.queries : \E m \in fly'.queries : QueryOf(m) = QueryOf(q)
    /\ \A l \in fly.labels : \E m \in fly'.labels : m.task = l.task /\ m.resume = l.resume

\* What the rows of a table may be.
RowsFit(t, v) ==
    /\ t \in {"tasks", "snapshots"} => fly[t] \subseteq v
    /\ t = "runs" => /\ \A r \in fly.runs : \E m \in v : m.run = r.run
                     /\ \A m \in v : DOMAIN m = {"run", "task", "status"} /\ m.task \in fly.tasks
    /\ t = "queries" => /\ \A q \in fly.queries : \E m \in v : QueryOf(m) = QueryOf(q)
                        /\ \A m \in v : \E r \in fly.runs : r.run = m.run
    /\ t = "labels" => /\ \A l \in fly.labels : \E m \in v : m.task = l.task /\ m.resume = l.resume
                       /\ \A m \in v : m.task \in fly.tasks /\ m.resume \in fly.snapshots
    /\ t = "hits" => \A m \in v : /\ \E q \in fly.queries : QueryOf(q) = QueryOf(m)
                                  /\ m.snapshot => m.resume \in fly.snapshots
    /\ t \in {"outcomes", "events", "termOutcomes"} => \A m \in v : \E r \in fly.runs : r.run = m.run
    /\ t \in {"judged", "samples"} =>
         \A m \in v : m.task \in fly.tasks /\ \E r \in fly.runs : r.run = m.run

\* One table is written, and perhaps a reference recorded.
TableWritten(t, v) ==
    /\ t \in FlyTables /\ DOMAIN fly' = FlyTables /\ fly'[t] = v
    /\ \A u \in FlyTables \ {t, "refs"} : fly'[u] = fly[u]

\* A row written to one table leaves the other tables of the flywheel alone.
LEMMA OneTable ==
    ASSUME DOMAIN fly = FlyTables, NEW t \in FlyTables, NEW v, fly' = [fly EXCEPT ![t] = v]
    PROVE  TableWritten(t, v)
BY DEF TableWritten

\* The tables that were not written are the same.
LEMMA SameTables ==
    ASSUME NEW t, NEW v, TableWritten(t, v)
    PROVE  /\ t # "tasks" => fly'.tasks = fly.tasks
           /\ t # "snapshots" => fly'.snapshots = fly.snapshots
           /\ t # "runs" => fly'.runs = fly.runs
           /\ t # "queries" => fly'.queries = fly.queries
           /\ t # "hits" => fly'.hits = fly.hits
           /\ t # "labels" => fly'.labels = fly.labels
           /\ t # "outcomes" => fly'.outcomes = fly.outcomes
           /\ t # "judged" => fly'.judged = fly.judged
           /\ t # "events" => fly'.events = fly.events
           /\ t # "termOutcomes" => fly'.termOutcomes = fly.termOutcomes
           /\ t # "samples" => fly'.samples = fly.samples
BY DEF TableWritten, FlyTables

\* Rows that refer to stored rows, written to one table, keep every reference.
LEMMA TableFits ==
    ASSUME TableShapes, FlywheelRefsHold(fly), NEW t, NEW v, TableWritten(t, v), RowsFit(t, v)
    PROVE  /\ FlyGrows /\ FlywheelRefsHold(fly')
           /\ \A r \in fly'.runs : DOMAIN r = {"run", "task", "status"}
<1>1. fly'[t] = v
  BY DEF TableWritten
<1>2. FlyGrows
  <2>1. fly.tasks \subseteq fly'.tasks /\ fly.snapshots \subseteq fly'.snapshots
    BY <1>1, SameTables DEF RowsFit
  <2>2. \A r \in fly.runs : \E m \in fly'.runs : m.run = r.run
    BY <1>1, SameTables DEF RowsFit
  <2>3. \A q \in fly.queries : \E m \in fly'.queries : QueryOf(m) = QueryOf(q)
    <3>1. CASE t = "queries"
      BY <1>1, <3>1 DEF RowsFit
    <3>2. CASE t # "queries"
      BY <3>2, SameTables
    <3> QED
      BY <3>1, <3>2
  <2>4. \A l \in fly.labels : \E m \in fly'.labels : m.task = l.task /\ m.resume = l.resume
    BY <1>1, SameTables DEF RowsFit
  <2> QED
    BY <2>1, <2>2, <2>3, <2>4 DEF FlyGrows
<1>3. RunRefs(fly')
  BY <1>1, <1>2, SameTables DEF RowsFit, FlyGrows, FlywheelRefsHold, RunRefs
<1>4. QueryRefs(fly')
  BY <1>1, <1>2, SameTables DEF RowsFit, FlyGrows, FlywheelRefsHold, QueryRefs
<1>5. HitRefs(fly')
  <2>1. CASE t = "hits"
    <3>1. fly'.queries = fly.queries /\ fly'.snapshots = fly.snapshots
      BY <2>1, SameTables
    <3> QED
      BY <1>1, <2>1, <3>1 DEF RowsFit, HitRefs
  <2>2. CASE t # "hits"
    <3>1. fly'.hits = fly.hits
      BY <2>2, SameTables
    <3>2. ASSUME NEW h \in fly.hits
          PROVE  /\ \E q \in fly'.queries : QueryOf(q) = QueryOf(h)
                 /\ h.snapshot => h.resume \in fly'.snapshots
      <4>1. /\ \E q \in fly.queries : QueryOf(q) = QueryOf(h)
            /\ h.snapshot => h.resume \in fly.snapshots
        BY Zenon DEF FlywheelRefsHold, HitRefs
      <4>2. PICK q \in fly.queries : QueryOf(q) = QueryOf(h)
        BY <4>1
      <4>3. PICK m \in fly'.queries : QueryOf(m) = QueryOf(q)
        BY <1>2, Zenon DEF FlyGrows
      <4>4. h.snapshot => h.resume \in fly'.snapshots
        BY <1>2, <4>1, Zenon DEF FlyGrows
      <4> QED
        BY <4>2, <4>3, <4>4
    <3> QED
      BY <3>1, <3>2, Zenon DEF HitRefs
  <2> QED
    BY <2>1, <2>2
<1>6. LabelRefs(fly')
  BY <1>1, <1>2, SameTables DEF RowsFit, FlyGrows, FlywheelRefsHold, LabelRefs
<1>7. OutcomeRefs(fly')
  BY <1>1, <1>2, SameTables DEF RowsFit, FlyGrows, FlywheelRefsHold, OutcomeRefs
<1>8. JudgedRefs(fly')
  BY <1>1, <1>2, SameTables DEF RowsFit, FlyGrows, FlywheelRefsHold, JudgedRefs
<1>9. EventRefs(fly')
  BY <1>1, <1>2, SameTables DEF RowsFit, FlyGrows, FlywheelRefsHold, EventRefs
<1>10. TermOutcomeRefs(fly')
  BY <1>1, <1>2, SameTables DEF RowsFit, FlyGrows, FlywheelRefsHold, TermOutcomeRefs
<1>11. SampleRefs(fly')
  BY <1>1, <1>2, SameTables DEF RowsFit, FlyGrows, FlywheelRefsHold, SampleRefs
<1>12. \A r \in fly'.runs : DOMAIN r = {"run", "task", "status"}
  BY <1>1, SameTables DEF RowsFit, TableShapes
<1> QED
  BY <1>2, <1>3, <1>4, <1>5, <1>6, <1>7, <1>8, <1>9, <1>10, <1>11, <1>12 DEF FlywheelRefsHold

\* A row that is replaced is replaced by one with its key.
LEMMA UpsertKeeps ==
    ASSUME NEW rows, NEW new, NEW key
    PROVE  /\ new \subseteq Upsert(rows, new, key)
           /\ \A m \in Upsert(rows, new, key) : m \in rows \/ m \in new
           /\ \A r \in rows : \E m \in Upsert(rows, new, key) : m = r \/ \A f \in key : m[f] = r[f]
BY DEF Upsert

\* The rows a call adds are its own, and what they refer to is there.
LEMMA UpsertFits ==
    ASSUME TableShapes, FlywheelRefsHold(fly), NEW rows, NEW a
    PROVE  /\ ((\A m \in rows : DOMAIN m = {"run", "task", "status"} /\ m.task \in fly.tasks)
                 => RowsFit("runs", Upsert(fly.runs, rows, RunKey)))
           /\ ((\A m \in rows : m.run = a) /\ (\E r \in fly.runs : r.run = a)
                 => /\ RowsFit("queries", Upsert(fly.queries, rows, QueryKey))
                    /\ RowsFit("outcomes", Upsert(fly.outcomes, rows, QueryKey))
                    /\ RowsFit("events", Upsert(fly.events, rows, TermKey))
                    /\ RowsFit("termOutcomes", Upsert(fly.termOutcomes, rows, TermKey)))
           /\ ((\A m \in rows : /\ \E q \in fly.queries : QueryOf(q) = QueryOf(m)
                                /\ m.snapshot => m.resume \in fly.snapshots)
                 => RowsFit("hits", Upsert(fly.hits, rows, HitKey)))
           /\ ((\A m \in rows : m.task \in fly.tasks /\ m.resume \in fly.snapshots)
                 => RowsFit("labels", Upsert(fly.labels, rows, LabelKey)))
           /\ ((\A m \in rows : m.task \in fly.tasks /\ \E r \in fly.runs : r.run = m.run)
                 => /\ RowsFit("judged", Upsert(fly.judged, rows, QueryKey))
                    /\ RowsFit("samples", Upsert(fly.samples, rows, SampleKey)))
<1>1. ASSUME \A m \in rows : DOMAIN m = {"run", "task", "status"} /\ m.task \in fly.tasks
      PROVE  RowsFit("runs", Upsert(fly.runs, rows, RunKey))
  <2> DEFINE v == Upsert(fly.runs, rows, RunKey)
  <2>1. /\ \A m \in v : m \in fly.runs \/ m \in rows
        /\ \A r \in fly.runs : \E m \in v : m = r \/ \A f \in RunKey : m[f] = r[f]
    BY UpsertKeeps
  <2> HIDE DEF v
  <2>2. \A r \in fly.runs : \E m \in v : m.run = r.run
    BY <2>1 DEF RunKey
  <2>3. \A m \in v : DOMAIN m = {"run", "task", "status"} /\ m.task \in fly.tasks
    BY <1>1, <2>1, Zenon DEF TableShapes, FlywheelRefsHold, RunRefs
  <2>4. RowsFit("runs", v)
    BY <2>2, <2>3 DEF RowsFit
  <2> QED
    BY <2>4 DEF v
<1>2. ASSUME \A m \in rows : m.run = a, \E r \in fly.runs : r.run = a
      PROVE  /\ RowsFit("queries", Upsert(fly.queries, rows, QueryKey))
             /\ RowsFit("outcomes", Upsert(fly.outcomes, rows, QueryKey))
             /\ RowsFit("events", Upsert(fly.events, rows, TermKey))
             /\ RowsFit("termOutcomes", Upsert(fly.termOutcomes, rows, TermKey))
  <2>1. ASSUME NEW old, NEW key, \A m \in old : \E r \in fly.runs : r.run = m.run,
               NEW m \in Upsert(old, rows, key)
        PROVE  \E r \in fly.runs : r.run = m.run
    <3>1. m \in old \/ m \in rows
      BY <2>1, UpsertKeeps
    <3> QED
      BY <1>2, <2>1, <3>1
  <2>2. \A m \in Upsert(fly.queries, rows, QueryKey) : \E r \in fly.runs : r.run = m.run
    BY <2>1, Zenon DEF FlywheelRefsHold, QueryRefs
  <2>3. \A m \in Upsert(fly.outcomes, rows, QueryKey) : \E r \in fly.runs : r.run = m.run
    BY <2>1, Zenon DEF FlywheelRefsHold, OutcomeRefs
  <2>4. \A m \in Upsert(fly.events, rows, TermKey) : \E r \in fly.runs : r.run = m.run
    BY <2>1, Zenon DEF FlywheelRefsHold, EventRefs
  <2>5. \A m \in Upsert(fly.termOutcomes, rows, TermKey) : \E r \in fly.runs : r.run = m.run
    BY <2>1, Zenon DEF FlywheelRefsHold, TermOutcomeRefs
  <2>6. \A q \in fly.queries : \E m \in Upsert(fly.queries, rows, QueryKey) : QueryOf(m) = QueryOf(q)
    <3> DEFINE v == Upsert(fly.queries, rows, QueryKey)
    <3>1. \A r \in fly.queries : \E m \in v : m = r \/ \A f \in QueryKey : m[f] = r[f]
      BY UpsertKeeps
    <3> HIDE DEF v
    <3>2. \A r \in fly.queries : \E m \in v : QueryOf(m) = QueryOf(r)
      BY <3>1 DEF QueryKey, QueryOf
    <3> QED
      BY <3>2 DEF v
  <2> QED
    BY <2>2, <2>3, <2>4, <2>5, <2>6 DEF RowsFit
<1>3. ASSUME \A m \in rows : /\ \E q \in fly.queries : QueryOf(q) = QueryOf(m)
                             /\ m.snapshot => m.resume \in fly.snapshots
      PROVE  RowsFit("hits", Upsert(fly.hits, rows, HitKey))
  <2>1. ASSUME NEW m \in Upsert(fly.hits, rows, HitKey)
        PROVE  /\ \E q \in fly.queries : QueryOf(q) = QueryOf(m)
               /\ m.snapshot => m.resume \in fly.snapshots
    <3>1. m \in fly.hits \/ m \in rows
      BY UpsertKeeps
    <3> QED
      BY <1>3, <3>1, Zenon DEF FlywheelRefsHold, HitRefs
  <2> QED
    BY <2>1 DEF RowsFit
<1>4. ASSUME \A m \in rows : m.task \in fly.tasks /\ m.resume \in fly.snapshots
      PROVE  RowsFit("labels", Upsert(fly.labels, rows, LabelKey))
  <2> DEFINE v == Upsert(fly.labels, rows, LabelKey)
  <2>1. /\ \A m \in v : m \in fly.labels \/ m \in rows
        /\ \A r \in fly.labels : \E m \in v : m = r \/ \A f \in LabelKey : m[f] = r[f]
    BY UpsertKeeps
  <2> HIDE DEF v
  <2>2. \A l \in fly.labels : \E m \in v : m.task = l.task /\ m.resume = l.resume
    BY <2>1 DEF LabelKey
  <2>3. \A m \in v : m.task \in fly.tasks /\ m.resume \in fly.snapshots
    BY <1>4, <2>1, Zenon DEF FlywheelRefsHold, LabelRefs
  <2>4. RowsFit("labels", v)
    BY <2>2, <2>3 DEF RowsFit
  <2> QED
    BY <2>4 DEF v
<1>5. ASSUME \A m \in rows : m.task \in fly.tasks /\ \E r \in fly.runs : r.run = m.run
      PROVE  /\ RowsFit("judged", Upsert(fly.judged, rows, QueryKey))
             /\ RowsFit("samples", Upsert(fly.samples, rows, SampleKey))
  <2>1. \A m \in Upsert(fly.judged, rows, QueryKey) : m.task \in fly.tasks /\ \E r \in fly.runs : r.run = m.run
    <3>1. \A m \in Upsert(fly.judged, rows, QueryKey) : m \in fly.judged \/ m \in rows
      BY UpsertKeeps
    <3> QED
      BY <1>5, <3>1, Zenon DEF FlywheelRefsHold, JudgedRefs
  <2>2. \A m \in Upsert(fly.samples, rows, SampleKey) : m.task \in fly.tasks /\ \E r \in fly.runs : r.run = m.run
    <3>1. \A m \in Upsert(fly.samples, rows, SampleKey) : m \in fly.samples \/ m \in rows
      BY UpsertKeeps
    <3> QED
      BY <1>5, <3>1, Zenon DEF FlywheelRefsHold, SampleRefs
  <2> QED
    BY <2>1, <2>2 DEF RowsFit
<1> QED
  BY <1>1, <1>2, <1>3, <1>4, <1>5

\* The rows that are derived from the hits of a run are rows of that run.
LEMMA RowsOfRun ==
    ASSUME NEW a, NEW X \in SUBSET HitsOf(fly, a)
    PROVE  /\ \A m \in OutcomesFromHits(X) : m.run = a
           /\ \A task, verdict : \A m \in JudgedFromHits(X, task, verdict) : m.run = a /\ m.task = task
<1>1. \A h \in X : QueryOf(h)[1] = a
  BY DEF HitsOf, QueryOf
<1>2. ASSUME NEW m \in OutcomesFromHits(X) PROVE m.run = a
  <2>1. \E key \in {QueryOf(h) : h \in X} : \E n1, n2, n3, n4, n5 :
          m = [run |-> key[1], query |-> key[2], returned |-> n1, new |-> n2, duplicate |-> n3,
               scored |-> n4, fit |-> n5]
    BY <1>2, Zenon DEF OutcomesFromHits
  <2>2. PICK h \in X : m.run = QueryOf(h)[1]
    BY <2>1
  <2> QED
    BY <1>1, <2>2
<1>3. ASSUME NEW task, NEW verdict, NEW m \in JudgedFromHits(X, task, verdict)
      PROVE  m.run = a /\ m.task = task
  <2>1. \E key \in {QueryOf(h) : h \in {g \in X : g.snapshot}} : \E n1, n2, n3, n4 :
          m = [run |-> key[1], query |-> key[2], task |-> task, returned |-> n1, new |-> n2,
               judged |-> n3, positive |-> n4]
    BY <1>3, Zenon DEF JudgedFromHits
  <2>2. PICK h \in X : m.run = QueryOf(h)[1] /\ m.task = task
    BY <2>1
  <2> QED
    BY <1>1, <2>2
<1> QED
  BY <1>2, <1>3

\* Query rows and term events are of the run that writes them.
LEMMA QueriesOfRun ==
    ASSUME NEW a, NEW n
    PROVE  /\ \A m \in QueryRows(a, n) : m.run = a
           /\ \A m \in TermEvents(a, n) : m.run = a
<1>4. \A m \in QueryRows(a, n) : m.run = a
  BY DEF QueryRows
<1>5. ASSUME NEW m \in TermEvents(a, n) PROVE m.run = a
  <2> DEFINE Own(q) == {[run |-> a, query |-> q, term |-> t] : t \in TermsOf[q]}
             Turned == {[run |-> a, query |-> "none", term |-> t] : t \in Refused[a]}
             qs == Range(Sent[a][n])
             U == {Own(q) : q \in qs}
  <2>1. m \in (UNION U) \cup Turned
    BY <1>5, Zenon DEF TermEvents
  <2>2. (\A q : \A x \in Own(q) : x.run = a) /\ \A x \in Turned : x.run = a
    OBVIOUS
  <2> HIDE DEF Own
  <2>3. \A X \in U : \E q \in qs : X = Own(q)
    BY Zenon
  <2> HIDE DEF Turned, qs, U
  <2>4. (\E X \in U : m \in X) \/ m \in Turned
    BY <2>1
  <2> QED
    BY <2>2, <2>3, <2>4, Zenon
<1> QED
  BY <1>4, <1>5

\* What a step of a process makes of the flywheel database.
FlyKept(a) ==
    /\ DOMAIN fly' = FlyTables /\ FlyGrows /\ FlywheelRefsHold(fly')
    /\ \A r \in fly'.runs : DOMAIN r = {"run", "task", "status"}
    /\ fly'.hits # fly.hits => Hits(a)
    /\ fly'.judged # fly.judged => Judged(a)
    /\ Here(a)[1] = "task" => Job \in fly'.tasks
    /\ Here(a)[1] = "start_run" => \E r \in fly'.runs : r.run = a
    /\ Here(a)[1] = "queries" =>
         \A q \in Range(Sent[a][Arg(a)]) : \E r \in fly'.queries : QueryOf(r) = <<a, q>>
    /\ Here(a)[1] = "snapshot" /\ Arg(a) \in Stored(a, Here(a)[3]) => Arg(a) \in fly'.snapshots

\* A call that wrote fitting rows to one table keeps what is asked of the flywheel.
LEMMA FlyWritten ==
    ASSUME TableShapes, FlywheelRefsHold(fly), NEW a, NEW t, NEW v, TableWritten(t, v), RowsFit(t, v),
           t = "hits" => Hits(a), t = "judged" => Judged(a),
           Here(a)[1] = "task" => Job \in fly'.tasks,
           Here(a)[1] = "start_run" => \E r \in fly'.runs : r.run = a,
           Here(a)[1] = "queries" =>
             \A q \in Range(Sent[a][Arg(a)]) : \E r \in fly'.queries : QueryOf(r) = <<a, q>>,
           Here(a)[1] = "snapshot" /\ Arg(a) \in Stored(a, Here(a)[3]) => Arg(a) \in fly'.snapshots
    PROVE  FlyKept(a)
<1>1. DOMAIN fly' = FlyTables
  BY DEF TableWritten
<1>2. /\ FlyGrows /\ FlywheelRefsHold(fly')
      /\ \A r \in fly'.runs : DOMAIN r = {"run", "task", "status"}
  BY TableFits
<1>3. fly'.hits # fly.hits => Hits(a)
  <2>1. t # "hits" => fly'.hits = fly.hits
    BY SameTables
  <2> QED
    BY <2>1
<1>4. fly'.judged # fly.judged => Judged(a)
  <2>1. t # "judged" => fly'.judged = fly.judged
    BY SameTables
  <2> QED
    BY <2>1
<1> QED
  BY <1>1, <1>2, <1>3, <1>4, Zenon DEF FlyKept

\* Nothing is written, and the word asks for nothing.
LEMMA FlySame ==
    ASSUME TableShapes, FlywheelRefsHold(fly), NEW a, fly' = fly,
           Here(a)[1] \notin {"task", "start_run", "queries"},
           Here(a)[1] = "snapshot" /\ Arg(a) \in Stored(a, Here(a)[3]) => Arg(a) \in fly'.snapshots
    PROVE  FlyKept(a)
<1>1. FlyGrows
  BY DEF FlyGrows
<1>2. /\ Here(a)[1] = "task" => Job \in fly'.tasks
      /\ Here(a)[1] = "start_run" => \E r \in fly'.runs : r.run = a
      /\ Here(a)[1] = "queries" =>
           \A q \in Range(Sent[a][Arg(a)]) : \E r \in fly'.queries : QueryOf(r) = <<a, q>>
  OBVIOUS
<1>3. DOMAIN fly' = FlyTables /\ FlywheelRefsHold(fly')
      /\ \A r \in fly'.runs : DOMAIN r = {"run", "task", "status"}
  BY DEF TableShapes
<1> QED
  BY <1>1, <1>2, <1>3, Zenon DEF FlyKept

\* The hits of a round are those of queries that were recorded.
LEMMA HitsFit ==
    ASSUME PlaceHolds, Trail, MemoryHolds, NEW a \in Actor, pc[a] <= Len(Script(a)),
           Here(a)[1] = "hits", NEW doomed,
           NEW m \in HitRows(a, Arg(a), doomed, heap[a].available)
    PROVE  /\ \E q \in fly.queries : QueryOf(q) = QueryOf(m)
           /\ m.snapshot => m.resume \in fly.snapshots
           /\ m.run = a
<1> DEFINE n == Arg(a)
<1>1. \A q \in Range(Sent[a][n]) : \E r \in fly.queries : QueryOf(r) = <<a, q>>
  BY Ready
<1>2. PICK i \in Places(a, n) :
        /\ m.run = a /\ m.query = Arrivals[a][i].query /\ m.resume = Arrivals[a][i].resume
        /\ m.snapshot = Linked(Arrivals[a][i].resume, heap[a].available)
  <2>1. \E i \in Places(a, n) : \E f :
          m = [run |-> a, query |-> Arrivals[a][i].query, no |-> i, resume |-> Arrivals[a][i].resume,
               snapshot |-> Linked(Arrivals[a][i].resume, heap[a].available), new |-> IsNew(a, i), fit |-> f]
    BY Zenon DEF HitRows
  <2> QED
    BY <2>1
<1>3. Arrivals[a][i].query \in Range(Sent[a][n])
  <2>1. i \in DOMAIN Arrivals[a] /\ RoundOf(a, Arrivals[a][i].query) = n
    BY <1>2 DEF Places
  <2>2. Arrivals[a][i].query \in RunQueries(a)
    BY <2>1, ArrivalsAre
  <2>3. \E r \in DOMAIN Sent[a] : Arrivals[a][i].query \in Range(Sent[a][r])
    BY <2>2 DEF RunQueries
  <2>4. \E r \in DOMAIN Sent[a] : \E k \in DOMAIN Sent[a][r] : Sent[a][r][k] = Arrivals[a][i].query
    BY <2>3 DEF Range
  <2>5. \E k \in DOMAIN Sent[a][n] : Sent[a][n][k] = Arrivals[a][i].query
    BY <2>1, <2>4, Zenon DEF RoundOf
  <2> QED
    BY <2>5 DEF Range
<1>4. \E q \in fly.queries : QueryOf(q) = QueryOf(m)
  BY <1>1, <1>2, <1>3 DEF QueryOf
<1>5. m.snapshot => m.resume \in fly.snapshots
  <2>1. heap[a].available \subseteq fly.snapshots
    BY DEF MemoryHolds
  <2> QED
    BY <1>2, <2>1 DEF Linked
<1> QED
  BY <1>2, <1>4, <1>5

\* Every step of a process keeps the flywheel's references and leaves its row behind.
LEMMA FlyStep ==
    ASSUME TableShapes, FlywheelRefsHold(fly), PlaceHolds, Trail, MemoryHolds, NEW a \in Actor, Step(a)
    PROVE  FlyKept(a)
<1>0. DOMAIN fly = FlyTables
  BY DEF TableShapes
<1>1. pc[a] <= Len(Script(a))
  BY StepIs DEF PlaceHolds
<1>2. CASE Task(a)
  <2>1. fly' = UpsertTask(fly, Job) /\ Here(a)[1] = "task"
    BY <1>2, Zenon DEF Task, FlyCall, Doing
  <2>2. TableWritten("tasks", fly.tasks \cup {Job})
    BY <1>0, <2>1, OneTable DEF UpsertTask, FlyTables
  <2>3. RowsFit("tasks", fly.tasks \cup {Job})
    BY DEF RowsFit
  <2>4. Job \in fly'.tasks
    BY <2>2 DEF TableWritten
  <2> QED
    BY <2>1, <2>2, <2>3, <2>4, FlyWritten
<1>3. CASE StartRun(a)
  <2> DEFINE row == [run |-> a, task |-> Job, status |-> "running"]
             v == Upsert(fly.runs, {row}, RunKey)
  <2>1. fly' = [fly EXCEPT !.runs = v] /\ Here(a)[1] = "start_run"
    BY <1>3, Zenon DEF StartRun, FlyCall, Doing, StartRunRow
  <2>2. TableWritten("runs", v)
    <3> HIDE DEF v
    <3> QED
      BY <1>0, <2>1, OneTable DEF FlyTables
  <2>3. Job \in fly.tasks
    BY <1>1, <2>1, Ready
  <2>4. \A m \in {row} : DOMAIN m = {"run", "task", "status"} /\ m.task \in fly.tasks
    BY <2>3
  <2>5. row.run = a
    OBVIOUS
  <2> HIDE DEF row
  <2>6. RowsFit("runs", v)
    BY <2>4, UpsertFits
  <2>7. row \in v
    BY UpsertKeeps
  <2> HIDE DEF v
  <2>8. \E r \in fly'.runs : r.run = a
    BY <2>2, <2>5, <2>7 DEF TableWritten
  <2> QED
    BY <2>1, <2>2, <2>6, <2>8, FlyWritten
<1>4. CASE Attach(a)
  <2> DEFINE d == RecordRef(fly, Root(In(a)), Arg(a))
             v == d.attached \cup {<<Arg(a), a>>}
  <2>1. fly' = AttachRef(d, Arg(a), a) /\ Here(a)[1] = "attach"
    BY <1>4, Zenon DEF Attach, FlyCall, Doing
  <2>2. DOMAIN d = FlyTables /\ \A u \in FlyTables \ {"refs"} : d[u] = fly[u]
    BY <1>0 DEF RecordRef, FlyTables
  <2> HIDE DEF d
  <2>3. TableWritten("attached", v)
    BY <2>1, <2>2 DEF AttachRef, TableWritten, FlyTables
  <2>4. RowsFit("attached", v)
    BY DEF RowsFit
  <2> QED
    BY <2>1, <2>3, <2>4, FlyWritten
<1>5. CASE FlywheelRef(a)
  <2> DEFINE v == fly.refs \cup {<<Root(In(a)), Arg(a)>>}
  <2>1. fly' = [fly EXCEPT !.refs = v] /\ Here(a)[1] = "flywheel_ref"
    BY <1>5, Zenon DEF FlywheelRef, FlyCall, Doing, RecordRef
  <2> HIDE DEF v
  <2>2. TableWritten("refs", v)
    BY <1>0, <2>1, OneTable DEF FlyTables
  <2>3. RowsFit("refs", v)
    BY DEF RowsFit
  <2> QED
    BY <2>1, <2>2, <2>3, FlyWritten
<1>6. CASE DatasetExport(a)
  <2>1. (\E v : fly' = [fly EXCEPT !.exports = v]) /\ Here(a)[1] = "dataset_export"
    BY <1>6, Zenon DEF DatasetExport, FlyCall, Doing, RecordDatasetExport
  <2>2. PICK v : fly' = [fly EXCEPT !.exports = v]
    BY <2>1
  <2>3. TableWritten("exports", v)
    BY <1>0, <2>2, OneTable DEF FlyTables
  <2>4. RowsFit("exports", v)
    BY DEF RowsFit
  <2> QED
    BY <2>1, <2>3, <2>4, FlyWritten
<1>7. CASE Queries(a)
  <2> DEFINE rows == QueryRows(a, Arg(a))
             v == Upsert(fly.queries, rows, QueryKey)
  <2>1. fly' = [fly EXCEPT !.queries = v] /\ Here(a)[1] = "queries"
    BY <1>7, Zenon DEF Queries, FlyCall, Doing, RecordQueries
  <2>2. \E r \in fly.runs : r.run = a
    BY <1>1, <2>1, Ready
  <2>3. \A m \in rows : m.run = a
    BY QueriesOfRun
  <2>4. \A q \in Range(Sent[a][Arg(a)]) : \E r \in rows : QueryOf(r) = <<a, q>>
    <3> SUFFICES ASSUME NEW q \in Range(Sent[a][Arg(a)])
                 PROVE  [run |-> a, query |-> q] \in rows
      BY DEF QueryOf
    <3> QED
      BY Zenon DEF QueryRows
  <2> HIDE DEF rows
  <2>5. RowsFit("queries", v) /\ rows \subseteq v
    BY <2>2, <2>3, UpsertFits, UpsertKeeps
  <2> HIDE DEF v
  <2>6. TableWritten("queries", v)
    BY <1>0, <2>1, OneTable DEF FlyTables
  <2>7. \A q \in Range(Sent[a][Arg(a)]) : \E r \in fly'.queries : QueryOf(r) = <<a, q>>
    BY <2>4, <2>5, <2>6 DEF TableWritten
  <2> QED
    BY <2>1, <2>5, <2>6, <2>7, FlyWritten
<1>8. CASE Outcomes(a)
  <2> DEFINE mine == {h \in HitsOf(fly, a) : RoundOf(a, h.query) = Arg(a)}
             found == OutcomesFromHits(mine)
             silent == {q \in Range(Sent[a][Arg(a)]) : \A o \in found : o.query # q}
             none == {ZeroRecall(a, q) : q \in silent}
             rows == found \cup none
             v == Upsert(fly.outcomes, rows, QueryKey)
  <2>1. fly' = [fly EXCEPT !.outcomes = v] /\ Here(a)[1] = "outcomes"
    BY <1>8, Zenon DEF Outcomes, FlyCall, Doing, RecordOutcomes
  <2>2. \E r \in fly.runs : r.run = a
    BY <1>1, <2>1, Ready
  <2>3. \A m \in found : m.run = a
    <3>1. mine \in SUBSET HitsOf(fly, a)
      OBVIOUS
    <3> HIDE DEF mine
    <3> QED
      BY <3>1, RowsOfRun
  <2> HIDE DEF found, silent
  <2>4. \A m \in none : m.run = a
    BY DEF ZeroRecall
  <2> HIDE DEF none
  <2>5. \A m \in rows : m.run = a
    BY <2>3, <2>4
  <2> HIDE DEF rows
  <2>6. RowsFit("outcomes", v)
    BY <2>2, <2>5, UpsertFits
  <2> HIDE DEF v
  <2>7. TableWritten("outcomes", v)
    BY <1>0, <2>1, OneTable DEF FlyTables
  <2> QED
    BY <2>1, <2>6, <2>7, FlyWritten
<1>9. CASE Events(a)
  <2> DEFINE rows == TermEvents(a, Arg(a))
             v == Upsert(fly.events, rows, TermKey)
  <2>1. fly' = [fly EXCEPT !.events = v] /\ Here(a)[1] = "events"
    BY <1>9, Zenon DEF Events, FlyCall, Doing, RecordTermEvents
  <2>2. \E r \in fly.runs : r.run = a
    BY <1>1, <2>1, Ready
  <2>3. \A m \in rows : m.run = a
    BY QueriesOfRun
  <2> HIDE DEF rows
  <2>6. RowsFit("events", v)
    BY <2>2, <2>3, UpsertFits
  <2> HIDE DEF v
  <2>7. TableWritten("events", v)
    BY <1>0, <2>1, OneTable DEF FlyTables
  <2> QED
    BY <2>1, <2>6, <2>7, FlyWritten
<1>10. CASE TermOutcomes(a)
  <2> DEFINE events == TermEvents(a, Arg(a))
             rows == TermOutcomesOf(events, RowsForRun(fly, "outcomes", a))
             v == Upsert(fly.termOutcomes, rows, TermKey)
  <2>1. fly' = [fly EXCEPT !.termOutcomes = v] /\ Here(a)[1] = "term_outcomes"
    BY <1>10, Zenon DEF TermOutcomes, FlyCall, Doing, RecordTermOutcomes
  <2>2. \E r \in fly.runs : r.run = a
    BY <1>1, <2>1, Ready
  <2>3. \A m \in events : m.run = a
    BY QueriesOfRun
  <2> HIDE DEF events
  <2>4. \A m \in rows : m.run = a
    <3>1. \A m \in rows : \E e \in events : \E x : m = [run |-> e.run, query |-> e.query, term |-> e.term, executed |-> x]
      BY Zenon DEF TermOutcomesOf
    <3> HIDE DEF rows
    <3> QED
      BY <2>3, <3>1
  <2> HIDE DEF rows
  <2>6. RowsFit("termOutcomes", v)
    BY <2>2, <2>4, UpsertFits
  <2> HIDE DEF v
  <2>7. TableWritten("termOutcomes", v)
    BY <1>0, <2>1, OneTable DEF FlyTables
  <2> QED
    BY <2>1, <2>6, <2>7, FlyWritten
<1>11. CASE CompleteRun(a)
  <2>1. (\E st : fly' = CompleteRunRow(fly, a, st)) /\ Here(a)[1] = "complete_run"
    BY <1>11, Zenon DEF CompleteRun, FlyCall, Doing
  <2>2. PICK st : fly' = CompleteRunRow(fly, a, st)
    BY <2>1
  <2> DEFINE new(r) == IF r.run = a THEN [r EXCEPT !.status = st] ELSE r
             v == {new(r) : r \in fly.runs}
  <2>3. fly' = [fly EXCEPT !.runs = v]
    BY <2>2, Zenon DEF CompleteRunRow
  <2>4. \A r \in fly.runs : DOMAIN new(r) = {"run", "task", "status"} /\ new(r).run = r.run /\ new(r).task = r.task
    BY DEF TableShapes
  <2> HIDE DEF new
  <2>5. \A r \in fly.runs : new(r) \in v
    OBVIOUS
  <2>6. \A m \in v : \E r \in fly.runs : m = new(r)
    OBVIOUS
  <2> HIDE DEF v
  <2>7. RowsFit("runs", v)
    <3>1. \A r \in fly.runs : \E m \in v : m.run = r.run
      BY <2>4, <2>5
    <3>2. \A m \in v : DOMAIN m = {"run", "task", "status"} /\ m.task \in fly.tasks
      BY <2>4, <2>6 DEF FlywheelRefsHold, RunRefs
    <3> QED
      BY <3>1, <3>2 DEF RowsFit
  <2>8. TableWritten("runs", v)
    BY <1>0, <2>3, OneTable DEF FlyTables
  <2> QED
    BY <2>1, <2>7, <2>8, FlyWritten
<1>12. CASE Judged(a)
  <2> DEFINE hits == HitsOf(fly, a)
             rows == JudgedFromHits(hits, Job, heap[a].verdict)
             v == Upsert(fly.judged, rows, QueryKey)
  <2>1. fly' = [fly EXCEPT !.judged = v] /\ Here(a)[1] = "judged"
    BY <1>12, Zenon DEF Judged, Doing, RecordJudged
  <2>2. Job \in fly.tasks /\ \E r \in fly.runs : r.run = a
    BY <1>1, <2>1, Ready
  <2>3. \A m \in rows : m.run = a /\ m.task = Job
    <3>1. hits \in SUBSET HitsOf(fly, a)
      OBVIOUS
    <3> HIDE DEF hits
    <3>2. \A task, verdict : \A m \in JudgedFromHits(hits, task, verdict) : m.run = a /\ m.task = task
      BY <3>1, RowsOfRun
    <3> QED
      BY <3>2, Zenon
  <2> HIDE DEF rows
  <2>6. RowsFit("judged", v)
    BY <2>2, <2>3, UpsertFits
  <2> HIDE DEF v
  <2>7. TableWritten("judged", v)
    BY <1>0, <2>1, OneTable DEF FlyTables
  <2> QED
    BY <1>12, <2>1, <2>6, <2>7, FlyWritten
<1>13. CASE Samples(a)
  <2> DEFINE rows == heap[a].rows
             v == Upsert(fly.samples, rows, SampleKey)
  <2>1. fly' = [fly EXCEPT !.samples = v] /\ Here(a)[1] = "samples"
    BY <1>13, Zenon DEF Samples, FlyCall, Doing, RecordSamples
  <2>3. \A m \in rows : m.task \in fly.tasks /\ \E r \in fly.runs : r.run = m.run
    BY DEF MemoryHolds
  <2> HIDE DEF rows
  <2>6. RowsFit("samples", v)
    BY <2>3, UpsertFits
  <2> HIDE DEF v
  <2>7. TableWritten("samples", v)
    BY <1>0, <2>1, OneTable DEF FlyTables
  <2> QED
    BY <2>1, <2>6, <2>7, FlyWritten
<1>14. CASE Hits(a)
  <2> DEFINE rows == HitRows(a, Arg(a), heap[a].doomed, heap[a].available)
             v == Upsert(fly.hits, rows, HitKey)
  <2>1. fly' = [fly EXCEPT !.hits = v] /\ Here(a)[1] = "hits"
    BY <1>14, Zenon DEF Hits, Doing, RecordHits
  <2>3. \A m \in rows : /\ \E q \in fly.queries : QueryOf(q) = QueryOf(m)
                        /\ m.snapshot => m.resume \in fly.snapshots
    BY <1>1, <2>1, HitsFit
  <2> HIDE DEF rows
  <2>6. RowsFit("hits", v)
    BY <2>3, UpsertFits
  <2> HIDE DEF v
  <2>7. TableWritten("hits", v)
    BY <1>0, <2>1, OneTable DEF FlyTables
  <2> QED
    BY <1>14, <2>1, <2>6, <2>7, FlyWritten
<1>15. CASE Snapshot(a)
  <2>1. /\ Here(a)[1] = "snapshot"
        /\ fly' = IF Arg(a) \in Stored(a, Here(a)[3]) THEN UpsertSnapshot(fly, Arg(a)) ELSE fly
    BY <1>15, Zenon DEF Snapshot, Doing
  <2>2. CASE Arg(a) \in Stored(a, Here(a)[3])
    <3> DEFINE v == fly.snapshots \cup {Arg(a)}
    <3>1. fly' = [fly EXCEPT !.snapshots = v]
      BY <2>1, <2>2, Zenon DEF UpsertSnapshot
    <3>2. RowsFit("snapshots", v) /\ Arg(a) \in v
      BY DEF RowsFit
    <3> HIDE DEF v
    <3>3. TableWritten("snapshots", v)
      BY <1>0, <3>1, OneTable DEF FlyTables
    <3>4. Arg(a) \in fly'.snapshots
      BY <3>2, <3>3 DEF TableWritten
    <3> QED
      BY <2>1, <3>2, <3>3, <3>4, FlyWritten
  <2>3. CASE Arg(a) \notin Stored(a, Here(a)[3])
    <3>1. fly' = fly
      BY <2>1, <2>3
    <3> QED
      BY <2>1, <2>3, <3>1, FlySame
  <2> QED
    BY <2>2, <2>3
<1>16. CASE Label(a)
  <2>1. /\ Here(a)[1] = "labels"
        /\ \/ fly' = fly
           \/ \E r \in heap[a].fresh :
                fly' = RecordLabel(fly, [task |-> Job, resume |-> r, positive |-> heap[a].verdict[r]])
    BY <1>16, Zenon DEF Label, Doing
  <2>2. CASE fly' = fly
    BY <2>1, <2>2, FlySame
  <2>3. CASE \E r \in heap[a].fresh :
                fly' = RecordLabel(fly, [task |-> Job, resume |-> r, positive |-> heap[a].verdict[r]])
    <3>1. PICK r \in heap[a].fresh :
                fly' = RecordLabel(fly, [task |-> Job, resume |-> r, positive |-> heap[a].verdict[r]])
      BY <2>3
    <3> DEFINE row == [task |-> Job, resume |-> r, positive |-> heap[a].verdict[r]]
               v == Upsert(fly.labels, {row}, LabelKey)
    <3>2. fly' = [fly EXCEPT !.labels = v]
      BY <3>1, Zenon DEF RecordLabel
    <3>3. r \in fly.snapshots /\ Job \in fly.tasks
      BY <1>1, <2>1, <3>1, Ready DEF MemoryHolds
    <3>4. \A m \in {row} : m.task \in fly.tasks /\ m.resume \in fly.snapshots
      BY <3>3
    <3> HIDE DEF row
    <3>5. RowsFit("labels", v)
      BY <3>4, UpsertFits
    <3> HIDE DEF v
    <3>6. TableWritten("labels", v)
      BY <1>0, <3>2, OneTable DEF FlyTables
    <3> QED
      BY <2>1, <3>5, <3>6, FlyWritten
  <2> QED
    BY <2>1, <2>2, <2>3
<1>17. CASE \/ CorSteps(a) \/ FileSteps(a) \/ HeapSteps(a) \/ Materialize(a) \/ Collection(a)
            \/ Score(a) \/ Reraise(a)
  <2>1. Materialize(a) \/ Collection(a) \/ Score(a) \/ Reraise(a) =>
          fly' = fly /\ Here(a)[1] \in {"jsonl", "collection", "score", "raise"}
    BY Zenon DEF Materialize, Collection, Score, Reraise, Doing
  <2>2. fly' = fly /\ Here(a)[1] \notin {"task", "start_run", "queries", "snapshot"}
    BY <1>17, <2>1, CorFrame, FileFrame, HeapFrame
  <2> QED
    BY <2>2, FlySame
<1> QED
  BY <1>2, <1>3, <1>4, <1>5, <1>6, <1>7, <1>8, <1>9, <1>10, <1>11, <1>12, <1>13, <1>14, <1>15, <1>16,
     <1>17, StepIs, Zenon DEF FlySteps

----------------------------------------------------------------------------
(* The tables of the corpus database.                                      *)

\* No key disappears from the corpus.
CorGrows ==
    /\ cor.refs \subseteq cor'.refs /\ cor.jobs \subseteq cor'.jobs
    /\ cor.subjects \subseteq cor'.subjects /\ cor.observations \subseteq cor'.observations
    /\ \A d \in cor.documents : \E m \in cor'.documents : m.doc = d.doc
    /\ cor.collection # {} => cor'.collection # {}

\* What the rows of a table may be.
EntriesFit(t, v) ==
    /\ t \in {"refs", "jobs", "subjects", "observations"} => cor[t] \subseteq v
    /\ t = "observations" => \A o \in v : /\ \E d \in cor.documents : d.doc = o.doc
                                          /\ o.ref \in cor.refs
    /\ t = "links" => \A l \in v : l[2] \in cor.jobs
    /\ t = "documents" => /\ \A d \in cor.documents : \E m \in v : m.doc = d.doc
                          /\ \A m \in v : m.person \in cor.subjects /\ m.ref \in cor.refs
    /\ t = "collection" => v # {}
    /\ t = "members" => \A m \in v : /\ cor.collection # {}
                                     /\ \E d \in cor.documents : d.doc = m.doc
                                     /\ m.by \in cor.observations
    /\ t = "exports" => \A x \in v : \E r \in cor.refs : r[1] = x

\* One table of the corpus is written.
EntryWritten(t, v) ==
    /\ t \in CorTables /\ DOMAIN cor' = CorTables /\ cor'[t] = v
    /\ \A u \in CorTables \ {t} : cor'[u] = cor[u]

\* A row written to one table leaves the other tables of the corpus alone.
LEMMA OneEntry ==
    ASSUME DOMAIN cor = CorTables, NEW t \in CorTables, NEW v, cor' = [cor EXCEPT ![t] = v]
    PROVE  EntryWritten(t, v)
BY DEF EntryWritten

\* The tables that were not written are the same.
LEMMA SameEntries ==
    ASSUME NEW t, NEW v, EntryWritten(t, v)
    PROVE  /\ t # "refs" => cor'.refs = cor.refs
           /\ t # "jobs" => cor'.jobs = cor.jobs
           /\ t # "links" => cor'.links = cor.links
           /\ t # "subjects" => cor'.subjects = cor.subjects
           /\ t # "documents" => cor'.documents = cor.documents
           /\ t # "observations" => cor'.observations = cor.observations
           /\ t # "collection" => cor'.collection = cor.collection
           /\ t # "members" => cor'.members = cor.members
           /\ t # "exports" => cor'.exports = cor.exports
BY DEF EntryWritten, CorTables

\* Rows that refer to stored rows, written to one table, keep every reference.
LEMMA EntryFits ==
    ASSUME CorpusRefsHold(cor), NEW t, NEW v, EntryWritten(t, v), EntriesFit(t, v)
    PROVE  CorGrows /\ CorpusRefsHold(cor')
<1>1. cor'[t] = v
  BY DEF EntryWritten
<1>2. CorGrows
  <2>1. /\ cor.refs \subseteq cor'.refs /\ cor.jobs \subseteq cor'.jobs
        /\ cor.subjects \subseteq cor'.subjects /\ cor.observations \subseteq cor'.observations
    BY <1>1, SameEntries DEF EntriesFit
  <2>2. \A d \in cor.documents : \E m \in cor'.documents : m.doc = d.doc
    BY <1>1, SameEntries DEF EntriesFit
  <2>3. cor.collection # {} => cor'.collection # {}
    BY <1>1, SameEntries DEF EntriesFit
  <2> QED
    BY <2>1, <2>2, <2>3 DEF CorGrows
<1>3. LinkRefs(cor')
  BY <1>1, <1>2, SameEntries DEF EntriesFit, CorGrows, CorpusRefsHold, LinkRefs
<1>4. DocumentRefs(cor')
  BY <1>1, <1>2, SameEntries DEF EntriesFit, CorGrows, CorpusRefsHold, DocumentRefs
<1>5. ObservationRefs(cor')
  BY <1>1, <1>2, SameEntries DEF EntriesFit, CorGrows, CorpusRefsHold, ObservationRefs
<1>6. MemberRefs(cor')
  BY <1>1, <1>2, SameEntries DEF EntriesFit, CorGrows, CorpusRefsHold, MemberRefs
<1>7. ExportRefs(cor')
  BY <1>1, <1>2, SameEntries DEF EntriesFit, CorGrows, CorpusRefsHold, ExportRefs
<1> QED
  BY <1>2, <1>3, <1>4, <1>5, <1>6, <1>7 DEF CorpusRefsHold

\* What a step of a process makes of the corpus database.
CorKept(a) ==
    /\ DOMAIN cor' = CorTables /\ CorGrows /\ CorpusRefsHold(cor')
    /\ \A d \in cor'.documents :
         d \in cor.documents \/ (Here(a)[1] = "document" /\ d.ref[1] = In(a) /\ d.doc = Arg(a))
    /\ Here(a)[1] = "job" => Job \in cor'.jobs
    /\ Here(a)[1] = "corpus_ref" => <<In(a), Arg(a)>> \in cor'.refs
    /\ Here(a)[1] = "subject" => Person[Arg(a)] \in cor'.subjects
    /\ Here(a)[1] = "document" => \E d \in cor'.documents : d.doc = Arg(a)
    /\ Here(a)[1] = "observe" => \A x \in Range(Arrivals[a]) :
         x.query = Arg(a) => Seen(a, x.query, x.resume) \in cor'.observations
    /\ Here(a)[1] = "collection" => cor'.collection # {}

\* The words that leave something behind for later calls.
CorWords == {"job", "corpus_ref", "subject", "document", "observe", "collection"}

\* A call that leaves the corpus alone and owes it nothing keeps what is asked of it.
LEMMA CorSame ==
    ASSUME DOMAIN cor = CorTables, CorpusRefsHold(cor), NEW a, cor' = cor, Here(a)[1] \notin CorWords
    PROVE  CorKept(a)
<1>1. CorGrows
  BY DEF CorGrows
<1>2. /\ Here(a)[1] # "job" /\ Here(a)[1] # "corpus_ref" /\ Here(a)[1] # "subject"
      /\ Here(a)[1] # "document" /\ Here(a)[1] # "observe" /\ Here(a)[1] # "collection"
  BY DEF CorWords
<1>3. DOMAIN cor' = CorTables /\ CorpusRefsHold(cor') /\ \A d \in cor'.documents : d \in cor.documents
  OBVIOUS
<1> QED
  BY <1>1, <1>2, <1>3, Zenon DEF CorKept

\* A call that wrote fitting rows to one table keeps what is asked of the corpus.
LEMMA CorWritten ==
    ASSUME CorpusRefsHold(cor), NEW a, NEW t, NEW v, EntryWritten(t, v), EntriesFit(t, v),
           t # "documents",
           Here(a)[1] # "document",
           Here(a)[1] = "job" => Job \in cor'.jobs,
           Here(a)[1] = "corpus_ref" => <<In(a), Arg(a)>> \in cor'.refs,
           Here(a)[1] = "subject" => Person[Arg(a)] \in cor'.subjects,
           Here(a)[1] = "observe" => \A x \in Range(Arrivals[a]) :
             x.query = Arg(a) => Seen(a, x.query, x.resume) \in cor'.observations,
           Here(a)[1] = "collection" => cor'.collection # {}
    PROVE  CorKept(a)
<1>1. DOMAIN cor' = CorTables
  BY DEF EntryWritten
<1>2. CorGrows /\ CorpusRefsHold(cor')
  BY EntryFits
<1>3. \A d \in cor'.documents : d \in cor.documents
  BY SameEntries
<1> QED
  BY <1>1, <1>2, <1>3, Zenon DEF CorKept

\* Every step of a process keeps the corpus's references and leaves its row behind.
LEMMA CorStep ==
    ASSUME TableShapes, CorpusRefsHold(cor), PlaceHolds, Trail, NEW a \in Actor, Step(a)
    PROVE  CorKept(a)
<1>0. DOMAIN cor = CorTables
  BY DEF TableShapes
<1>1. pc[a] <= Len(Script(a))
  BY StepIs DEF PlaceHolds
<1>2. CASE CorpusRef(a)
  <2> DEFINE v == cor.refs \cup {<<In(a), Arg(a)>>}
  <2>1. cor' = [cor EXCEPT !.refs = v] /\ Here(a)[1] = "corpus_ref"
    BY <1>2, Zenon DEF CorpusRef, CorCall, Doing, RecordCorpusRef
  <2>2. EntriesFit("refs", v) /\ <<In(a), Arg(a)>> \in v
    BY DEF EntriesFit
  <2> HIDE DEF v
  <2>3. EntryWritten("refs", v)
    BY <1>0, <2>1, OneEntry DEF CorTables
  <2>4. <<In(a), Arg(a)>> \in cor'.refs
    BY <2>2, <2>3 DEF EntryWritten
  <2> QED
    BY <2>1, <2>2, <2>3, <2>4, CorWritten
<1>3. CASE AddJob(a)
  <2> DEFINE v == cor.jobs \cup {Job}
  <2>1. cor' = [cor EXCEPT !.jobs = v] /\ Here(a)[1] = "job"
    BY <1>3, Zenon DEF AddJob, CorCall, Doing, UpsertJob
  <2>2. EntriesFit("jobs", v) /\ Job \in v
    BY DEF EntriesFit
  <2> HIDE DEF v
  <2>3. EntryWritten("jobs", v)
    BY <1>0, <2>1, OneEntry DEF CorTables
  <2>4. Job \in cor'.jobs
    BY <2>2, <2>3 DEF EntryWritten
  <2> QED
    BY <2>1, <2>2, <2>3, <2>4, CorWritten
<1>4. CASE Link(a)
  <2> DEFINE v == {l \in cor.links : l[1] # a} \cup {<<a, Job>>}
  <2>1. cor' = [cor EXCEPT !.links = v] /\ Here(a)[1] = "link"
    BY <1>4, Zenon DEF Link, CorCall, Doing, LinkRunToJob
  <2>2. Job \in cor.jobs
    BY <1>1, <2>1, Ready
  <2>3. EntriesFit("links", v)
    BY <2>2 DEF EntriesFit, CorpusRefsHold, LinkRefs
  <2> HIDE DEF v
  <2>4. EntryWritten("links", v)
    BY <1>0, <2>1, OneEntry DEF CorTables
  <2> QED
    BY <2>1, <2>3, <2>4, CorWritten
<1>5. CASE Subject(a)
  <2> DEFINE v == cor.subjects \cup {Person[Arg(a)]}
  <2>1. cor' = [cor EXCEPT !.subjects = v] /\ Here(a)[1] = "subject"
    BY <1>5, Zenon DEF Subject, CorCall, Doing, UpsertSubject
  <2>2. EntriesFit("subjects", v) /\ Person[Arg(a)] \in v
    BY DEF EntriesFit
  <2> HIDE DEF v
  <2>3. EntryWritten("subjects", v)
    BY <1>0, <2>1, OneEntry DEF CorTables
  <2>4. Person[Arg(a)] \in cor'.subjects
    BY <2>2, <2>3 DEF EntryWritten
  <2> QED
    BY <2>1, <2>2, <2>3, <2>4, CorWritten
<1>6. CASE Document(a)
  <2> DEFINE row == [doc |-> Arg(a), person |-> Person[Arg(a)], ref |-> <<In(a), Arg(a)>>]
             v == {d \in cor.documents : d.doc # row.doc} \cup {row}
  <2>1. cor' = UpsertDocument(cor, row) /\ Here(a)[1] = "document"
    BY <1>6, Zenon DEF Document, CorCall, Doing
  <2>2. cor' = [cor EXCEPT !.documents = v]
    BY <2>1, Zenon DEF UpsertDocument
  <2>3. <<In(a), Arg(a)>> \in cor.refs /\ Person[Arg(a)] \in cor.subjects
    BY <1>1, <2>1, Ready
  <2>4. row.doc = Arg(a) /\ row.person \in cor.subjects /\ row.ref \in cor.refs /\ row.ref[1] = In(a)
    BY <2>3
  <2> HIDE DEF row
  <2>5. EntriesFit("documents", v)
    BY <2>4 DEF EntriesFit, CorpusRefsHold, DocumentRefs
  <2>6. row \in v /\ \A d \in v : d \in cor.documents \/ d = row
    OBVIOUS
  <2> HIDE DEF v
  <2>7. EntryWritten("documents", v)
    BY <1>0, <2>2, OneEntry DEF CorTables
  <2>8. CorGrows /\ CorpusRefsHold(cor') /\ DOMAIN cor' = CorTables /\ cor'.documents = v
    BY <2>5, <2>7, EntryFits DEF EntryWritten
  <2>9. /\ \A d \in cor'.documents : d \in cor.documents \/ (d.ref[1] = In(a) /\ d.doc = Arg(a))
        /\ \E d \in cor'.documents : d.doc = Arg(a)
    BY <2>4, <2>6, <2>8
  <2>10. /\ Here(a)[1] # "job" /\ Here(a)[1] # "corpus_ref" /\ Here(a)[1] # "subject"
         /\ Here(a)[1] # "observe" /\ Here(a)[1] # "collection"
    BY <2>1
  <2> QED
    BY <2>1, <2>8, <2>9, <2>10, Zenon DEF CorKept
<1>7. CASE Observe(a)
  <2> DEFINE seen == {Seen(a, x.query, x.resume) : x \in {y \in Range(Arrivals[a]) : y.query = Arg(a)}}
             v == cor.observations \cup seen
  <2>1. cor' = [cor EXCEPT !.observations = v] /\ Here(a)[1] = "observe"
    BY <1>7, Zenon DEF Observe, CorCall, Doing, RecordObservations
  <2>2. \A x \in Range(Arrivals[a]) : x.query = Arg(a) =>
           /\ \E d \in cor.documents : d.doc = x.resume
           /\ << <<a, "corpus">>, x.resume>> \in cor.refs
    BY <1>1, <2>1, Ready
  <2>3. \A o \in seen : \E x \in Range(Arrivals[a]) : x.query = Arg(a) /\ o = Seen(a, x.query, x.resume)
    BY Zenon
  <2>4. \A x \in Range(Arrivals[a]) : x.query = Arg(a) => Seen(a, x.query, x.resume) \in seen
    BY Zenon
  <2> HIDE DEF seen
  <2>5. \A o \in seen : (\E d \in cor.documents : d.doc = o.doc) /\ o.ref \in cor.refs
    BY <2>2, <2>3 DEF Seen
  <2>6. EntriesFit("observations", v)
    BY <2>5 DEF EntriesFit, CorpusRefsHold, ObservationRefs
  <2>7. seen \subseteq v
    OBVIOUS
  <2> HIDE DEF v
  <2>8. EntryWritten("observations", v)
    BY <1>0, <2>1, OneEntry DEF CorTables
  <2>9. \A x \in Range(Arrivals[a]) : x.query = Arg(a) => Seen(a, x.query, x.resume) \in cor'.observations
    BY <2>4, <2>7, <2>8 DEF EntryWritten
  <2> QED
    BY <2>1, <2>6, <2>8, <2>9, CorWritten
<1>8. CASE Member(a)
  <2> DEFINE by == Seen(a, Here(a)[3], Arg(a))
             row == [doc |-> Arg(a), by |-> by]
             v == IF \E m \in cor.members : m.doc = Arg(a) THEN cor.members ELSE cor.members \cup {row}
  <2>1. cor' = [cor EXCEPT !.members = v] /\ Here(a)[1] = "member"
    BY <1>8, Zenon DEF Member, CorCall, Doing, AddMember
  <2>2. /\ by \in cor.observations /\ \E d \in cor.documents : d.doc = Arg(a)
        /\ cor.collection # {}
    BY <1>1, <2>1, Ready
  <2>3. row.doc = Arg(a) /\ row.by = by
    OBVIOUS
  <2>4. \A m \in v : m \in cor.members \/ m = row
    OBVIOUS
  <2> HIDE DEF v, row, by
  <2>5. EntriesFit("members", v)
    BY <2>2, <2>3, <2>4 DEF EntriesFit, CorpusRefsHold, MemberRefs
  <2>6. EntryWritten("members", v)
    BY <1>0, <2>1, OneEntry DEF CorTables
  <2> QED
    BY <2>1, <2>5, <2>6, CorWritten
<1>9. CASE CorpusExport(a)
  <2> DEFINE v == cor.exports \cup {<<a, "corpus">>}
  <2>1. cor' = [cor EXCEPT !.exports = v] /\ Here(a)[1] = "corpus_export"
    BY <1>9, Zenon DEF CorpusExport, CorCall, Doing, RecordCorpusExport
  <2>2. \E r \in cor.refs : r[1] = <<a, "corpus">>
    BY <1>1, <2>1, Ready
  <2>3. EntriesFit("exports", v)
    BY <2>2 DEF EntriesFit, CorpusRefsHold, ExportRefs
  <2> HIDE DEF v
  <2>4. EntryWritten("exports", v)
    BY <1>0, <2>1, OneEntry DEF CorTables
  <2> QED
    BY <2>1, <2>3, <2>4, CorWritten
<1>10. CASE Collection(a)
  <2> DEFINE v == {heap[a].count}
  <2>1. cor' = [cor EXCEPT !.collection = v] /\ Here(a)[1] = "collection"
    BY <1>10, Zenon DEF Collection, Doing, WriteCollection
  <2>2. v # {}
    OBVIOUS
  <2> HIDE DEF v
  <2>3. EntriesFit("collection", v)
    BY <2>2 DEF EntriesFit
  <2>4. EntryWritten("collection", v)
    BY <1>0, <2>1, OneEntry DEF CorTables
  <2>5. cor'.collection # {}
    BY <2>2, <2>4 DEF EntryWritten
  <2> QED
    BY <2>1, <2>3, <2>4, <2>5, CorWritten
<1>11. CASE \/ FlySteps(a) \/ FileSteps(a) \/ HeapSteps(a) \/ Materialize(a) \/ Snapshot(a) \/ Hits(a)
            \/ Score(a) \/ Reraise(a) \/ Label(a)
  <2>1. Materialize(a) \/ Snapshot(a) \/ Hits(a) \/ Score(a) \/ Reraise(a) \/ Label(a) =>
          cor' = cor /\ Here(a)[1] \in {"jsonl", "snapshot", "hits", "score", "raise", "labels"}
    BY Zenon DEF Materialize, Snapshot, Hits, Score, Reraise, Label, Doing
  <2>2. cor' = cor /\ Here(a)[1] \notin CorWords
    BY <1>11, <2>1, FlyFrame, FileFrame, HeapFrame DEF CorWords
  <2> QED
    BY <1>0, <2>2, CorSame
<1> QED
  BY <1>2, <1>3, <1>4, <1>5, <1>6, <1>7, <1>8, <1>9, <1>10, <1>11, StepIs, Zenon DEF CorSteps

----------------------------------------------------------------------------
(* What a process leaves behind stays.                                     *)

\* No file of a corpus root is taken away.
CorpusFilesStay ==
    \A b \in Actor : DOMAIN disk[<<b, "corpus">>] \subseteq DOMAIN disk'[<<b, "corpus">>]

\* No step takes a file out of a corpus root.
LEMMA CorpusFilesStep ==
    ASSUME FileShapes, PlaceHolds, NEW a \in Actor, Step(a)
    PROVE  CorpusFilesStay
<1>1. \A b \in Actor : <<b, "corpus">> \in Roots /\ <<b, "corpus">> # <<a, "run">>
  BY KindsAre DEF Roots, Kinds
<1>2. DOMAIN disk = Roots
  BY DEF FileShapes
<1>3. CASE disk' = disk
  BY <1>3 DEF CorpusFilesStay
<1>4. CASE \E m : Writes(a, m)
  <2>1. \/ disk' = disk
        \/ \E name, d : /\ disk' = [disk EXCEPT ![Root(In(a))] = d]
                        /\ DOMAIN d = DOMAIN disk[Root(In(a))] \cup {name}
    BY <1>4, Zenon DEF Writes
  <2>2. CASE \E name, d : /\ disk' = [disk EXCEPT ![Root(In(a))] = d]
                          /\ DOMAIN d = DOMAIN disk[Root(In(a))] \cup {name}
    <3>1. PICK name, d : /\ disk' = [disk EXCEPT ![Root(In(a))] = d]
                         /\ DOMAIN d = DOMAIN disk[Root(In(a))] \cup {name}
      BY <2>2
    <3> QED
      BY <1>1, <1>2, <3>1 DEF CorpusFilesStay
  <2> QED
    BY <1>3, <2>1, <2>2
<1>5. CASE MoveInto(<<a, "run">>, Outputs, "content")
  <2>1. \E d : disk' = [disk EXCEPT ![<<a, "run">>] = d]
    BY <1>5, Zenon DEF MoveInto
  <2> QED
    BY <1>1, <1>2, <2>1 DEF CorpusFilesStay
<1>6. UNCHANGED files \/ WriteIndex(a) \/ AdoptRoot(<<a, "evaluation">>) => disk' = disk
  BY Zenon DEF files, WriteIndex, AdoptRoot
<1> QED
  BY <1>3, <1>4, <1>5, <1>6, FileEffects, Zenon

\* Nor does a failure or a crash.
LEMMA CorpusFilesFault ==
    ASSUME FileShapes, NEW a \in Actor, Fail(a) \/ Crash(a)
    PROVE  CorpusFilesStay
<1>1. \A b \in Actor : <<b, "corpus">> \in Roots /\ <<b, "corpus">> # <<a, "run">>
  BY KindsAre DEF Roots, Kinds
<1>2. DOMAIN disk = Roots
  BY DEF FileShapes
<1>3. CASE Fail(a)
  <2>1. \E d : disk' = [disk EXCEPT ![<<a, "run">>] = d]
    BY <1>3, Zenon DEF Fail, DropOutputs
  <2> QED
    BY <1>1, <1>2, <2>1 DEF CorpusFilesStay
<1>4. CASE Crash(a)
  <2>1. disk' = disk
    BY <1>4 DEF Crash
  <2> QED
    BY <2>1 DEF CorpusFilesStay
<1> QED
  BY <1>3, <1>4

\* The raw payload is in its root once it was written.
LEMMA PayloadStored ==
    ASSUME FileShapes, PlaceHolds, NEW a \in Actor, Step(a), Here(a)[1] = "payload"
    PROVE  Arg(a) \in DOMAIN disk'[<<a, "corpus">>]
<1>1. Payload(a)
  <2>1. FileSteps(a)
    <3>1. Materialize(a) \/ Collection(a) \/ Snapshot(a) \/ Hits(a) \/ Score(a) \/ Reraise(a) \/ Label(a)
            => Here(a)[1] \in {"jsonl", "collection", "snapshot", "hits", "score", "raise", "labels"}
      BY Zenon DEF Materialize, Collection, Snapshot, Hits, Score, Reraise, Label, Doing
    <3>2. ~(Materialize(a) \/ Collection(a) \/ Snapshot(a) \/ Hits(a) \/ Score(a) \/ Reraise(a) \/ Label(a))
      BY <3>1
    <3>3. ~FlySteps(a)
      BY FlyFrame
    <3>4. ~CorSteps(a)
      BY CorFrame
    <3>5. ~HeapSteps(a)
      BY HeapFrame
    <3> QED
      BY <3>2, <3>3, <3>4, <3>5, StepIs, Zenon
  <2>2. \/ Payload(a)
        \/ Here(a)[1] \in {"create", "index", "adopt", "hits_artifact", "register", "ingest", "finalize",
                           "move", "export_jsonl", "samples_jsonl", "corpus_jsonl", "corpus_manifest"}
    BY <2>1, Zenon DEF FileSteps, Create, Index, Adopt, HitsArtifact, Register, Ingest, Finalize,
                       MoveOutputs, ExportTable, SamplesFile, CorpusTable, CorpusManifest, FileCall, Doing
  <2> QED
    BY <2>2
<1>2. pc[a] <= Len(Script(a))
  BY StepIs DEF PlaceHolds
<1>3. Root(In(a)) = <<a, "corpus">> /\ <<a, "corpus">> \in Roots
  <2>1. Named(a, Script(a), pc[a]) /\ Here(a) = Script(a)[pc[a]]
    BY <1>2, HereIs
  <2>2. In(a) = <<a, "corpus">>
    BY <2>1 DEF Named, In
  <2> QED
    BY <2>2 DEF Root, Kind, Roots, Kinds
<1> DEFINE d == With(disk[Root(In(a))], [x \in {Arg(a)} |-> "payload"])
<1>4. disk' = [disk EXCEPT ![Root(In(a))] = d]
  BY <1>1, Zenon DEF Payload, FileCall, WriteArtifact
<1>5. DOMAIN d = DOMAIN disk[Root(In(a))] \cup {Arg(a)}
  BY FileAdded
<1> HIDE DEF d
<1> QED
  BY <1>3, <1>4, <1>5 DEF FileShapes

\* What was done stays done.
LEMMA DoneStays ==
    ASSUME FlyGrows, CorGrows, CorpusFilesStay, NEW b \in Actor, NEW c, Done(b, c)
    PROVE  Done(b, c)'
<1>1. /\ c[1] = "task" => Job \in fly'.tasks
      /\ c[1] = "job" => Job \in cor'.jobs
      /\ c[1] = "start_run" => \E r \in fly'.runs : r.run = b
  BY DEF Done, FlyGrows, CorGrows
<1>2. c[1] = "queries" => \A q \in Range(Sent[b][c[2]]) : \E r \in fly'.queries : QueryOf(r) = <<b, q>>
  <2>1. ASSUME c[1] = "queries", NEW q \in Range(Sent[b][c[2]])
        PROVE  \E r \in fly'.queries : QueryOf(r) = <<b, q>>
    <3>1. PICK r \in fly.queries : QueryOf(r) = <<b, q>>
      BY <2>1, Zenon DEF Done
    <3>2. PICK m \in fly'.queries : QueryOf(m) = QueryOf(r)
      BY Zenon DEF FlyGrows
    <3> QED
      BY <3>1, <3>2, Zenon
  <2> QED
    BY <2>1
<1>3. /\ c[1] = "snapshot" /\ c[2] \in Stored(b, c[3]) => c[2] \in fly'.snapshots
  BY Zenon DEF Done, FlyGrows
<1>4. c[1] = "corpus_ref" => << <<b, c[3]>>, c[2]>> \in cor'.refs
  BY Zenon DEF Done, CorGrows
<1>5. c[1] = "payload" => c[2] \in DOMAIN disk'[<<b, "corpus">>]
  BY Zenon DEF Done, CorpusFilesStay
<1>6. c[1] = "subject" => Person[c[2]] \in cor'.subjects
  BY Zenon DEF Done, CorGrows
<1>7. c[1] = "document" => \E d \in cor'.documents : d.doc = c[2]
  BY DEF Done, CorGrows
<1>8. c[1] = "observe" => \A x \in Range(Arrivals[b]) :
         x.query = c[2] => Seen(b, x.query, x.resume) \in cor'.observations
  BY Zenon DEF Done, CorGrows
<1>9. c[1] = "collection" => cor'.collection # {}
  BY Zenon DEF Done, CorGrows
<1> QED
  BY <1>1, <1>2, <1>3, <1>4, <1>5, <1>6, <1>7, <1>8, <1>9, Zenon DEF Done, Seen

\* A call leaves behind what it should.
LEMMA HereDone ==
    ASSUME FileShapes, PlaceHolds, NEW a \in Actor, Step(a), FlyKept(a), CorKept(a), NEW c, c = Here(a)
    PROVE  Done(a, c)'
<1>1. pc[a] <= Len(Script(a))
  BY StepIs DEF PlaceHolds
<1>2. Arg(a) = c[2] /\ In(a) = <<a, c[3]>> /\ Here(a)[1] = c[1] /\ Here(a)[3] = c[3]
  BY DEF Arg, In
<1>3. c[1] = "payload" => c[2] \in DOMAIN disk'[<<a, "corpus">>]
  BY <1>2, PayloadStored
<1>4. /\ c[1] = "task" => Job \in fly'.tasks
      /\ c[1] = "start_run" => \E r \in fly'.runs : r.run = a
      /\ c[1] = "queries" =>
           \A q \in Range(Sent[a][c[2]]) : \E r \in fly'.queries : QueryOf(r) = <<a, q>>
      /\ c[1] = "snapshot" /\ c[2] \in Stored(a, c[3]) => c[2] \in fly'.snapshots
  BY <1>2, Zenon DEF FlyKept
<1>5. /\ c[1] = "job" => Job \in cor'.jobs
      /\ c[1] = "corpus_ref" => << <<a, c[3]>>, c[2]>> \in cor'.refs
      /\ c[1] = "subject" => Person[c[2]] \in cor'.subjects
      /\ c[1] = "document" => \E d \in cor'.documents : d.doc = c[2]
      /\ c[1] = "observe" => \A x \in Range(Arrivals[a]) :
           x.query = c[2] => Seen(a, x.query, x.resume) \in cor'.observations
      /\ c[1] = "collection" => cor'.collection # {}
  BY <1>2, Zenon DEF CorKept
<1> QED
  BY <1>3, <1>4, <1>5, Zenon DEF Done, Seen

\* A step leaves its own row and takes away nobody else's.
LEMMA TrailStep ==
    ASSUME FileShapes, PlaceHolds, Trail, NEW a \in Actor, Step(a), FlyKept(a), CorKept(a)
    PROVE  Trail'
<1>1. Moves(a)
  BY StepMoves
<1>2. /\ pc' \in [Actor -> Nat] /\ pc \in [Actor -> Nat] /\ \A b \in Actor : b # a => pc'[b] = pc[b]
      /\ role' = role
  BY <1>1 DEF Moves, PlaceHolds
<1>3. \A b \in Actor : Script(b)' = Script(b) /\ (IsRun(b)' <=> IsRun(b)) /\ ClosePlace(b)' = ClosePlace(b)
  BY <1>2, SameScript
<1>4. FlyGrows /\ CorGrows /\ CorpusFilesStay
  BY CorpusFilesStep DEF FlyKept, CorKept
<1>5. ASSUME NEW b \in Actor, IsRun(b) => pc'[b] < ClosePlace(b), NEW p \in 1..(pc'[b] - 1),
             NEW c, c = Script(b)[p]
      PROVE  Done(b, c)'
  <2>1. CASE (IsRun(b) => pc[b] < ClosePlace(b)) /\ p \in 1..(pc[b] - 1)
    <3>1. Done(b, Script(b)[p])
      BY <2>1 DEF Trail
    <3>2. Done(b, c)
      BY <1>5, <3>1
    <3> QED
      BY <1>4, <3>2, DoneStays
  <2>2. CASE b # a
    <3>1. pc'[b] = pc[b]
      BY <1>2, <2>2
    <3> QED
      BY <1>5, <2>1, <3>1
  <2>3. CASE b = a
    <3>0. pc[a] \in Nat /\ pc'[a] \in Nat /\ p \in Nat /\ p < pc'[a] /\ p >= 1
      BY <1>2, <1>5, <2>3
    <3>1. IsRun(a) => ClosePlace(a) \in Nat
      BY AllLaid DEF Laid
    <3>2. CASE pc'[a] = pc[a]
      BY <1>5, <2>1, <2>3, <3>2
    <3>3. CASE pc'[a] = pc[a] + 1 \/ pc'[a] = pc[a] + 3
      <4>1. IsRun(a) => pc[a] < ClosePlace(a)
        BY <1>5, <2>3, <3>0, <3>1, <3>3
      <4>2. CASE p < pc[a]
        <5>1. p \in 1..(pc[a] - 1)
          BY <3>0, <4>2
        <5> QED
          BY <2>1, <2>3, <4>1, <5>1
      <4>3. CASE p = pc[a]
        <5>1. c = Here(a)
          BY <1>5, <2>3, <4>3 DEF Here
        <5> QED
          BY <2>3, <5>1, HereDone
      <4>4. CASE p > pc[a]
        <5>1. pc'[a] = pc[a] + 3 /\ (p = pc[a] + 1 \/ p = pc[a] + 2)
          BY <3>0, <3>3, <4>4
        <5>2. Script(a)[pc[a] + 1][1] = "index" /\ Script(a)[pc[a] + 2][1] = "attach"
          <6>1. \/ pc'[a] = pc[a] \/ pc'[a] = pc[a] + 1
                \/ pc'[a] = ClosePlace(a) /\ IsRun(a)
                \/ Script(a)[pc[a] + 1][1] = "index" /\ Script(a)[pc[a] + 2][1] = "attach"
            BY <1>1, Zenon DEF Moves
          <6> QED
            BY <1>5, <2>3, <3>0, <5>1, <6>1
        <5>3. c[1] = "index" \/ c[1] = "attach"
          BY <1>5, <2>3, <5>1, <5>2
        <5> QED
          BY <5>3 DEF Done
      <4> QED
        BY <3>0, <4>2, <4>3, <4>4
    <3>4. CASE pc'[a] = ClosePlace(a) /\ IsRun(a)
      BY <1>5, <2>3, <3>1, <3>4
    <3> QED
      BY <1>1, <3>2, <3>3, <3>4, Zenon DEF Moves
  <2> QED
    BY <2>2, <2>3
<1>6. ASSUME NEW b \in Actor, IsRun(b) => pc'[b] < ClosePlace(b), NEW p \in 1..(pc'[b] - 1)
      PROVE  Done(b, Script(b)[p])'
  <2>1. Script(b)' = Script(b)
    BY <1>3
  <2>2. \A c : c = Script(b)[p] => Done(b, c)'
    BY <1>5, <1>6
  <2> QED
    BY <2>1, <2>2, Zenon DEF Done, Seen
<1> QED
  BY <1>3, <1>6, Zenon DEF Trail

\* A document is written after the payload it is read from.
LEMMA DocumentsStep ==
    ASSUME FileShapes, PlaceHolds, Trail, DocumentsHaveFiles, NEW a \in Actor, Step(a), CorKept(a)
    PROVE  DocumentsHaveFiles'
<1>1. pc[a] <= Len(Script(a))
  BY StepIs DEF PlaceHolds
<1>2. ASSUME NEW d \in cor'.documents
      PROVE  d.ref[1] \in Actor \X {"corpus"} /\ d.doc \in DOMAIN disk[d.ref[1]]
  <2>1. CASE d \in cor.documents
    BY <2>1 DEF DocumentsHaveFiles
  <2>2. CASE Here(a)[1] = "document" /\ d.ref[1] = In(a) /\ d.doc = Arg(a)
    <3>1. Arg(a) \in DOMAIN disk[<<a, "corpus">>] /\ In(a) = <<a, "corpus">>
      BY <1>1, <2>2, Ready
    <3> QED
      BY <2>2, <3>1
  <2> QED
    BY <1>2, <2>1, <2>2 DEF CorKept
<1>3. CorpusFilesStay
  BY CorpusFilesStep
<1>4. ASSUME NEW d \in cor'.documents PROVE d.doc \in DOMAIN disk'[d.ref[1]]
  <2>1. PICK b \in Actor : d.ref[1] = <<b, "corpus">>
    BY <1>2
  <2> QED
    BY <1>2, <1>3, <2>1 DEF CorpusFilesStay
<1> QED
  BY <1>2, <1>4 DEF DocumentsHaveFiles

\* What a process remembers was read from the stores, and rows do not go.
LEMMA MemoryStep ==
    ASSUME HeapShapes, TableShapes, FlywheelRefsHold(fly), MemoryHolds, NEW a \in Actor, Step(a), FlyKept(a)
    PROVE  MemoryHolds'
<1>1. Remembers(a)
  BY StepRemembers
<1>2. FlyGrows
  BY DEF FlyKept
<1>3. role' = role => \A b \in Actor : Shortlist(b)' = Shortlist(b)
  BY DEF Shortlist
<1>4. \A b \in Actor : heap'[b].available \subseteq fly'.snapshots
  BY <1>1, <1>2 DEF Remembers, FlyGrows, MemoryHolds
<1>5. \A b \in Actor : heap'[b].fresh \subseteq Shortlist(b)
  <2>1. \A b \in Actor : heap[b].fresh \subseteq Shortlist(b)
    BY DEF MemoryHolds
  <2>2. heap'[a].fresh \subseteq Shortlist(a)
    <3>1. CASE Cached(a)
      <4>1. \E v : \E X : heap' = [heap EXCEPT ![a] = [heap[a] EXCEPT !.verdict = v, !.fresh = Shortlist(a) \ X]]
        BY <3>1, Zenon DEF Cached, HeapCall
      <4> QED
        BY <4>1 DEF HeapShapes, HeapFields
    <3>2. CASE Label(a)
      <4>1. heap' = heap \/ \E r : heap' = [heap EXCEPT ![a].fresh = @ \ {r}]
        BY <3>2, Zenon DEF Label
      <4> QED
        BY <2>1, <4>1 DEF HeapShapes, HeapFields
    <3>3. CASE ~Cached(a) /\ ~Label(a)
      <4>1. Here(a)[1] \notin {"cached", "labels"}
        <5>1. HeapSteps(a) => Here(a)[1] # "cached" /\ Here(a)[1] # "labels"
          <6>1. HeapSteps(a) => Here(a)[1] \in {"count", "evaluate", "evaluated", "judge", "sources"}
            BY <3>3, Zenon DEF HeapSteps, Count, Evaluate, Evaluated, Judge, Sources, HeapCall, Doing
          <6> QED
            BY <6>1
        <5>2. Materialize(a) \/ Collection(a) \/ Snapshot(a) \/ Hits(a) \/ Score(a) \/ Reraise(a)
                => Here(a)[1] \in {"jsonl", "collection", "snapshot", "hits", "score", "raise"}
          BY Zenon DEF Materialize, Collection, Snapshot, Hits, Score, Reraise, Doing
        <5>3. FlySteps(a) \/ CorSteps(a) \/ FileSteps(a) => Here(a)[1] # "cached" /\ Here(a)[1] # "labels"
          BY FlyFrame, CorFrame, FileFrame
        <5> QED
          BY <3>3, <5>1, <5>2, <5>3, StepIs
      <4> QED
        BY <1>1, <2>1, <4>1 DEF Remembers
    <3> QED
      BY <3>1, <3>2, <3>3
  <2> QED
    BY <1>1, <2>1, <2>2 DEF Remembers
<1>6. \A b \in Actor : \A s \in heap'[b].rows : s.task \in fly'.tasks /\ \E r \in fly'.runs : r.run = s.run
  <2>1. ASSUME NEW b \in Actor, NEW s \in heap'[b].rows
        PROVE  s.task \in fly.tasks /\ \E r \in fly.runs : r.run = s.run
    <3>1. CASE s \in heap[b].rows
      BY <3>1 DEF MemoryHolds
    <3>2. CASE b = a /\ Sources(a)
      <4>1. heap' = [heap EXCEPT ![a] = [heap[a] EXCEPT !.rows =
                        {SampleOf(r) : r \in SourceRows(fly, Actor \ {a})}]]
        BY <3>2, Zenon DEF Sources, HeapCall
      <4> DEFINE samples == {SampleOf(r) : r \in SourceRows(fly, Actor \ {a})}
      <4>2. \A x \in samples : \E r \in fly.judged : r.task \in fly.tasks /\ x = SampleOf(r)
        BY DEF SourceRows
      <4> HIDE DEF samples
      <4>3. heap' = [heap EXCEPT ![a] = [heap[a] EXCEPT !.rows = samples]]
        BY <4>1 DEF samples
      <4>4. s \in samples
        BY <2>1, <3>2, <4>3 DEF HeapShapes, HeapFields
      <4>5. PICK r \in fly.judged : r.task \in fly.tasks /\ s = SampleOf(r)
        BY <4>2, <4>4
      <4> QED
        BY <4>5 DEF SampleOf, FlywheelRefsHold, JudgedRefs
    <3>3. CASE b # a \/ Here(a)[1] # "sources"
      <4>1. heap'[b].rows = heap[b].rows
        BY <1>1, <3>3 DEF Remembers
      <4> QED
        BY <2>1, <3>1, <4>1
    <3>4. CASE b = a /\ Here(a)[1] = "sources"
      <4>1. Materialize(a) \/ Collection(a) \/ Snapshot(a) \/ Hits(a) \/ Score(a) \/ Reraise(a) \/ Label(a)
              => Here(a)[1] \in {"jsonl", "collection", "snapshot", "hits", "score", "raise", "labels"}
        BY Zenon DEF Materialize, Collection, Snapshot, Hits, Score, Reraise, Label, Doing
      <4>2. FlySteps(a) \/ CorSteps(a) \/ FileSteps(a) => Here(a)[1] # "sources"
        BY FlyFrame, CorFrame, FileFrame
      <4>3. HeapSteps(a)
        BY <3>4, <4>1, <4>2, StepIs
      <4>4. Sources(a) \/ Here(a)[1] \in {"count", "evaluate", "evaluated", "cached", "judge"}
        BY <4>3, Zenon DEF HeapSteps, Count, Evaluate, Evaluated, Cached, Judge, HeapCall, Doing
      <4>5. Sources(a)
        BY <3>4, <4>4
      <4> QED
        BY <3>2, <3>4, <4>5
    <3> QED
      BY <3>3, <3>4
  <2> QED
    BY <1>2, <2>1 DEF FlyGrows
<1> QED
  BY <1>4, <1>5, <1>6 DEF MemoryHolds, Shortlist

----------------------------------------------------------------------------
(* The verdicts and the judge outcomes.                                    *)

\* A label that is stored stays.
LEMMA LabelledGrows ==
    ASSUME FlyGrows
    PROVE  Labelled \subseteq Labelled'
<1>1. ASSUME NEW l \in fly.labels, l.task = Job
      PROVE  \E m \in fly'.labels : m.task = Job /\ m.resume = l.resume
  BY <1>1 DEF FlyGrows
<1> QED
  BY <1>1 DEF Labelled, CachedLabels

\* The steps that touch the verdicts of a process, told by their words.
LEMMA VerdictWords ==
    ASSUME NEW a \in Actor, Step(a)
    PROVE  /\ Here(a)[1] = "evaluated" => Evaluated(a)
           /\ Here(a)[1] = "cached" => Cached(a)
           /\ Here(a)[1] = "judge" => Judge(a)
           /\ Here(a)[1] = "labels" => Label(a)
           /\ Here(a)[1] = "judged" => Judged(a)
<1>1. Materialize(a) \/ Collection(a) \/ Snapshot(a) \/ Hits(a) \/ Score(a) \/ Reraise(a)
        => Here(a)[1] \in {"jsonl", "collection", "snapshot", "hits", "score", "raise"}
  BY Zenon DEF Materialize, Collection, Snapshot, Hits, Score, Reraise, Doing
<1>2. CorSteps(a) \/ FileSteps(a) =>
        Here(a)[1] \notin {"evaluated", "cached", "judge", "labels", "judged"}
  BY CorFrame, FileFrame
<1>3. FlySteps(a) => Judged(a) \/ Here(a)[1] \in {"task", "start_run", "attach", "queries", "outcomes",
        "events", "term_outcomes", "complete_run", "flywheel_ref", "samples", "dataset_export"}
  BY Zenon DEF FlySteps, Task, StartRun, Attach, Queries, Outcomes, Events, TermOutcomes, CompleteRun,
               FlywheelRef, Samples, DatasetExport, FlyCall, Doing
<1>4. HeapSteps(a) => \/ Evaluated(a) /\ Here(a)[1] = "evaluated"
                      \/ Cached(a) /\ Here(a)[1] = "cached"
                      \/ Judge(a) /\ Here(a)[1] = "judge"
                      \/ Here(a)[1] \in {"count", "evaluate", "sources"}
  BY Zenon DEF HeapSteps, Count, Evaluate, Evaluated, Cached, Judge, Sources, HeapCall, Doing
<1>5. Judged(a) => Here(a)[1] = "judged"
  BY Zenon DEF Judged, Doing
<1>6. Label(a) => Here(a)[1] = "labels"
  BY Zenon DEF Label, Doing
<1>7. \/ FlySteps(a) \/ CorSteps(a) \/ FileSteps(a) \/ HeapSteps(a)
      \/ Materialize(a) \/ Collection(a) \/ Snapshot(a) \/ Hits(a)
      \/ Score(a) \/ Reraise(a) \/ Label(a)
  BY StepIs, Zenon
<1> HIDE DEF Here
<1> QED
  BY <1>1, <1>2, <1>3, <1>4, <1>5, <1>6, <1>7

\* A verdict is for a resume with a stored label, or for one just judged whose label is
\* the next call.
LEMMA VerdictStep ==
    ASSUME PlaceHolds, HeapShapes, TableShapes, VerdictHolds, NEW a \in Actor, Step(a), FlyKept(a)
    PROVE  VerdictHolds'
<1>0. /\ DOMAIN heap = Actor /\ DOMAIN heap[a] = HeapFields
      /\ {"fresh", "verdict", "evaluating"} \subseteq HeapFields
  BY DEF HeapShapes, HeapFields
<1> HIDE DEF HeapFields
<1>1. Moves(a) /\ Remembers(a) /\ Labelled \subseteq Labelled' /\ ~Ended(a)
  BY StepMoves, StepRemembers, LabelledGrows DEF FlyKept, Moves
<1>2. role' = role /\ \A b \in Actor : b # a => pc'[b] = pc[b] /\ heap'[b] = heap[b]
  BY <1>1 DEF Moves, Remembers
<1>3. \A b \in Actor : Script(b)' = Script(b)
  BY <1>2, SameScript
<1>4. ASSUME NEW b \in Actor, b # a
      PROVE  /\ DOMAIN heap'[b].verdict \subseteq Labelled' \cup heap'[b].fresh
             /\ heap'[b].fresh # {} => Here(b)'[1] \in {"judge", "labels"} /\ pc'[b] <= Len(Script(b))
  <2>1. Here(b)' = Here(b) /\ pc'[b] = pc[b] /\ heap'[b] = heap[b]
    BY <1>2, <1>3, <1>4 DEF Here
  <2> QED
    BY <1>1, <2>1 DEF VerdictHolds
<1>5. /\ DOMAIN heap[a].verdict \subseteq Labelled \cup heap[a].fresh
      /\ heap[a].fresh # {} => Here(a)[1] \in {"judge", "labels"}
  BY DEF VerdictHolds
<1>6. /\ pc[a] \in Nat /\ pc[a] <= Len(Script(a)) /\ Adjacent(Script(a), pc[a])
      /\ Here(a) = Script(a)[pc[a]] /\ Len(Script(a)) \in Nat
  BY <1>1, HereIs DEF PlaceHolds
<1>7. \A b \in Actor : Here(b)' = Script(b)[pc'[b]]
  BY <1>3 DEF Here
<1>8. CASE Here(a)[1] = "cached"
  <2> DEFINE known == {l \in CachedLabels(fly, Job) : l.resume \in Shortlist(a)}
             names == {l.resume : l \in known}
             v == [r \in names |-> (CHOOSE l \in known : l.resume = r).positive]
             f == Shortlist(a) \ names
  <2>1. heap' = [heap EXCEPT ![a] = [heap[a] EXCEPT !.verdict = v, !.fresh = f]] /\ Onward(a)
    BY <1>8, VerdictWords, Zenon DEF Cached, HeapCall
  <2>2. DOMAIN v = names /\ names \subseteq Labelled
    BY DEF Labelled
  <2> HIDE DEF v, names, f
  <2>3. heap'[a].verdict = v /\ heap'[a].fresh = f
    BY <1>0, <2>1
  <2>4. pc'[a] = pc[a] + 1
    BY <2>1 DEF Onward, To, PlaceHolds
  <2>5. pc[a] + 1 <= Len(Script(a)) /\ Script(a)[pc[a] + 1][1] = "judge"
    BY <1>6, <1>8 DEF Adjacent, Followed
  <2> QED
    BY <1>1, <1>4, <1>3, <1>7, <2>2, <2>3, <2>4, <2>5 DEF VerdictHolds
<1>9. CASE Here(a)[1] = "judge"
  <2>1. PICK u : heap' = [heap EXCEPT ![a] = [heap[a] EXCEPT !.verdict =
                            With(@, [r \in heap[a].fresh |-> u[r]])]] /\ Onward(a)
    BY <1>9, VerdictWords, Zenon DEF Judge, HeapCall
  <2> DEFINE w == With(heap[a].verdict, [r \in heap[a].fresh |-> u[r]])
  <2>2. DOMAIN w = DOMAIN heap[a].verdict \cup heap[a].fresh
    BY DEF With
  <2>3. heap' = [heap EXCEPT ![a] = [heap[a] EXCEPT !.verdict = w]]
    BY <2>1, Zenon
  <2> HIDE DEF w
  <2>4. heap'[a].verdict = w /\ heap'[a].fresh = heap[a].fresh
    BY <1>0, <2>3
  <2>5. pc'[a] = pc[a] + 1
    BY <2>1 DEF Onward, To, PlaceHolds
  <2>6. pc[a] + 1 <= Len(Script(a)) /\ Script(a)[pc[a] + 1][1] = "labels"
    BY <1>6, <1>9 DEF Adjacent, Followed
  <2> QED
    BY <1>1, <1>3, <1>4, <1>5, <1>7, <2>2, <2>4, <2>5, <2>6 DEF VerdictHolds
<1>10. CASE Here(a)[1] = "labels"
  <2>1. Label(a)
    BY <1>10, VerdictWords
  <2>2. CASE heap' = heap /\ heap[a].fresh = {}
    BY <1>1, <1>3, <1>4, <1>5, <2>2 DEF VerdictHolds
  <2>3. CASE \E r \in heap[a].fresh :
            /\ fly' = RecordLabel(fly, [task |-> Job, resume |-> r, positive |-> heap[a].verdict[r]])
            /\ heap' = [heap EXCEPT ![a].fresh = @ \ {r}]
            /\ pc' = pc
    <3>1. PICK r \in heap[a].fresh :
            /\ fly' = RecordLabel(fly, [task |-> Job, resume |-> r, positive |-> heap[a].verdict[r]])
            /\ heap' = [heap EXCEPT ![a].fresh = @ \ {r}]
            /\ pc' = pc
      BY <2>3
    <3>2. r \in Labelled'
      <4> DEFINE row == [task |-> Job, resume |-> r, positive |-> heap[a].verdict[r]]
                 v == Upsert(fly.labels, {row}, LabelKey)
      <4>1. fly' = [fly EXCEPT !.labels = v]
        BY <3>1, Zenon DEF RecordLabel
      <4>2. row.task = Job /\ row.resume = r
        OBVIOUS
      <4> HIDE DEF row
      <4>3. row \in v
        BY UpsertKeeps
      <4> HIDE DEF v
      <4>4. fly'.labels = v
        BY <4>1 DEF TableShapes, FlyTables
      <4> QED
        BY <4>2, <4>3, <4>4 DEF Labelled, CachedLabels
    <3>3. heap'[a].verdict = heap[a].verdict /\ heap'[a].fresh = heap[a].fresh \ {r}
      BY <1>0, <3>1
    <3> QED
      BY <1>1, <1>3, <1>4, <1>5, <1>6, <1>7, <1>10, <3>1, <3>2, <3>3 DEF VerdictHolds
  <2> QED
    BY <2>1, <2>2, <2>3, Zenon DEF Label
<1>11. CASE Here(a)[1] = "evaluated"
  <2>1. heap' = [heap EXCEPT ![a] = [heap[a] EXCEPT !.evaluating = FALSE, !.verdict = <<>>]]
    BY <1>11, VerdictWords, Zenon DEF Evaluated, HeapCall
  <2>2. heap'[a].verdict = <<>> /\ heap'[a].fresh = heap[a].fresh
    BY <1>0, <2>1
  <2>3. heap[a].fresh = {} /\ DOMAIN heap'[a].verdict = {}
    BY <1>5, <1>11, <2>2
  <2> QED
    BY <1>3, <1>4, <2>2, <2>3 DEF VerdictHolds
<1>12. CASE Here(a)[1] \notin {"cached", "judge", "labels", "evaluated"}
  <2>1. heap'[a].verdict = heap[a].verdict /\ heap'[a].fresh = heap[a].fresh
    BY <1>1, <1>12 DEF Remembers
  <2>2. heap[a].fresh = {}
    BY <1>5, <1>12
  <2> QED
    BY <1>1, <1>3, <1>4, <1>5, <2>1, <2>2 DEF VerdictHolds
<1> QED
  BY <1>8, <1>9, <1>10, <1>11, <1>12

\* A search has finitely many hits, all of its run.
LEMMA HitRowsFinite ==
    ASSUME NEW a \in Actor, NEW n, NEW doomed, NEW available
    PROVE  /\ IsFiniteSet(HitRows(a, n, doomed, available))
           /\ \A m \in HitRows(a, n, doomed, available) : m.run = a
<1> DEFINE row(i) ==
             LET r == Arrivals[a][i].resume
                 scored == r \in Stored(a, IF doomed THEN n - 1 ELSE n)
             IN  [run |-> a, query |-> Arrivals[a][i].query, no |-> i, resume |-> r,
                  snapshot |-> Linked(r, available), new |-> IsNew(a, i),
                  fit |-> IF ~scored THEN "none" ELSE IF r \in Fits THEN "fit" ELSE "not_fit"]
           S == Places(a, n)
           rows == {row(i) : i \in S}
<1>1. HitRows(a, n, doomed, available) = rows
  BY Zenon DEF HitRows
<1>2. \A i : row(i).run = a
  OBVIOUS
<1>3. IsFiniteSet(S)
  <2>1. Len(Arrivals[a]) \in Nat /\ DOMAIN Arrivals[a] = 1..Len(Arrivals[a])
    BY ArrivalsAre
  <2>2. IsFiniteSet(1..Len(Arrivals[a]))
    <3> DEFINE k == Len(Arrivals[a])
    <3>1. k \in Int /\ 1 \in Int
      BY <2>1
    <3> HIDE DEF k
    <3>2. IsFiniteSet(1..k)
      BY <3>1, FS_Interval
    <3> QED
      BY <3>2 DEF k
  <2>3. S \in SUBSET (1..Len(Arrivals[a]))
    BY <2>1 DEF Places
  <2> HIDE DEF S
  <2> QED
    BY <2>2, <2>3, FS_Subset
<1> HIDE DEF row, S
<1> DEFINE f == [i \in S |-> row(i)]
<1>4. f \in Surjection(S, rows)
  BY DEF Surjection
<1>5. IsFiniteSet(rows)
  <2> HIDE DEF f, rows
  <2> QED
    BY <1>3, <1>4, FS_Surjection
<1>6. \A m \in rows : m.run = a
  BY <1>2
<1> QED
  BY <1>1, <1>5, <1>6

\* The hits whose resume has its label.
Counted(o) == {h \in HitsOf(fly, o.run) : h.query = o.query /\ h.new /\ h.snapshot
                                          /\ \E l \in fly.labels : l.resume = h.resume /\ l.task = o.task}

\* An outcome that was covered stays so while labels and hits are only added.
LEMMA CountedStays ==
    ASSUME FlyGrows, IsFiniteSet(fly'.hits), NEW o, HitsOf(fly', o.run) = HitsOf(fly, o.run),
           o.judged \in Nat, o.judged <= Cardinality(Counted(o))
    PROVE  o.judged <= Cardinality(Counted(o)')
<1> DEFINE old == Counted(o)
           new == Counted(o)'
<1>1. old \subseteq new
  <2> SUFFICES ASSUME NEW h \in old PROVE h \in new
    OBVIOUS
  <2>1. /\ h \in HitsOf(fly', o.run) /\ h.query = o.query /\ h.new /\ h.snapshot
        /\ \E l \in fly.labels : l.resume = h.resume /\ l.task = o.task
    BY Zenon DEF Counted
  <2>2. PICK l \in fly.labels : l.resume = h.resume /\ l.task = o.task
    BY <2>1
  <2>3. PICK m \in fly'.labels : m.task = l.task /\ m.resume = l.resume
    BY Zenon DEF FlyGrows
  <2>4. \E l2 \in fly'.labels : l2.resume = h.resume /\ l2.task = o.task
    BY <2>2, <2>3
  <2> QED
    BY <2>1, <2>4, Zenon DEF Counted
<1>2. new \in SUBSET fly'.hits
  BY DEF Counted, HitsOf
<1> HIDE DEF old, new
<1>3. IsFiniteSet(new) /\ Cardinality(new) \in Nat
  BY <1>2, FS_Subset, FS_CardinalityType
<1>4. IsFiniteSet(old) /\ Cardinality(old) \in Nat /\ Cardinality(old) <= Cardinality(new)
  BY <1>1, <1>3, FS_Subset, FS_CardinalityType
<1> QED
  BY <1>3, <1>4 DEF old, new

\* The outcomes of the judge count hits whose verdict is a label by then.
LEMMA JudgedCounts ==
    ASSUME NEW a \in Actor, NEW verdict, DOMAIN verdict \subseteq Labelled, IsFiniteSet(fly.hits),
           NEW o \in JudgedFromHits(HitsOf(fly, a), Job, verdict)
    PROVE  o.run = a /\ o.judged \in Nat /\ o.judged <= Cardinality(Counted(o))
<1> DEFINE hits == HitsOf(fly, a)
           kept == {h \in hits : h.snapshot}
           mine(key) == {h \in kept : QueryOf(h) = key}
           known(key) == {h \in mine(key) : h.new /\ h.resume \in DOMAIN verdict}
<1>1. \E key \in {QueryOf(h) : h \in kept} : \E n1, n2, n3 :
        o = [run |-> key[1], query |-> key[2], task |-> Job, returned |-> n1, new |-> n2,
             judged |-> Cardinality(known(key)), positive |-> n3]
  BY Zenon DEF JudgedFromHits
<1>2. \A h \in kept : h \in hits /\ h.snapshot
  OBVIOUS
<1>3. \A key : \A h \in known(key) : h \in kept /\ QueryOf(h) = key /\ h.new /\ h.resume \in DOMAIN verdict
  BY Zenon
<1>4. \A h \in hits : h \in fly.hits /\ h.run = a
  BY DEF HitsOf
<1> HIDE DEF kept, known
<1>5. PICK g \in kept : /\ o.run = QueryOf(g)[1] /\ o.query = QueryOf(g)[2] /\ o.task = Job
                        /\ o.judged = Cardinality(known(QueryOf(g)))
  BY <1>1
<1>6. o.run = a
  BY <1>2, <1>4, <1>5 DEF QueryOf
<1> DEFINE K == known(QueryOf(g))
<1>7. \A h \in K : /\ h \in hits /\ h.query = o.query /\ h.new /\ h.snapshot
                   /\ h.resume \in Labelled
  BY <1>2, <1>3, <1>5 DEF QueryOf
<1>8. \A r \in Labelled : \E l \in fly.labels : l.resume = r /\ l.task = Job
  BY DEF Labelled, CachedLabels
<1> HIDE DEF K, hits
<1>9. K \subseteq Counted(o)
  <2> SUFFICES ASSUME NEW h \in K PROVE h \in Counted(o)
    OBVIOUS
  <2>1. h \in HitsOf(fly, o.run) /\ h.query = o.query /\ h.new /\ h.snapshot
    BY <1>6, <1>7 DEF hits
  <2>2. \E l \in fly.labels : l.resume = h.resume /\ l.task = o.task
    BY <1>5, <1>7, <1>8
  <2> QED
    BY <2>1, <2>2, Zenon DEF Counted
<1>10. IsFiniteSet(Counted(o)) /\ Cardinality(Counted(o)) \in Nat
  <2>1. Counted(o) \in SUBSET fly.hits
    BY DEF Counted, HitsOf
  <2> QED
    BY <2>1, FS_Subset, FS_CardinalityType
<1>11. Cardinality(K) \in Nat /\ Cardinality(K) <= Cardinality(Counted(o))
  BY <1>9, <1>10, FS_Subset, FS_CardinalityType
<1> QED
  BY <1>5, <1>6, <1>11 DEF K

\* Outcomes are counted once the hits of their run are complete and labelled.
LEMMA JudgedStep ==
    ASSUME PlaceHolds, TableShapes, VerdictHolds, JudgedHolds, NEW a \in Actor, Step(a), FlyKept(a)
    PROVE  JudgedHolds'
<1>1. Moves(a) /\ ~Ended(a) /\ FlyGrows
  BY StepMoves DEF Moves, FlyKept
<1>2. role' = role /\ (\A b \in Actor : b # a => pc'[b] = pc[b]) /\ pc \in [Actor -> Nat]
  BY <1>1 DEF Moves, PlaceHolds
<1>3. \A b \in Actor : (IsRun(b)' <=> IsRun(b)) /\ RoundsEnd(b)' = RoundsEnd(b)
  BY <1>2, SameScript
<1>4. /\ pc[a] <= Len(Script(a))
      /\ IsRun(a) =>
           /\ RoundsEnd(a) \in Nat /\ ClosePlace(a) \in Nat /\ RoundsEnd(a) < ClosePlace(a)
           /\ pc[a] <= RoundsEnd(a) => Here(a)[1] \in RoundsWords
           /\ pc[a] > RoundsEnd(a) /\ pc[a] < ClosePlace(a) => Here(a)[1] \in EvalWords
           /\ pc[a] >= ClosePlace(a) => Here(a)[1] \in CloseWords
      /\ ~IsRun(a) => Here(a)[1] \in ExportWords
  BY <1>1, HereIs DEF PlaceHolds
<1>5. pc[a] > RoundsEnd(a) /\ IsRun(a) => pc'[a] > RoundsEnd(a)
  <2>1. \/ pc'[a] = pc[a] \/ pc'[a] = pc[a] + 1 \/ pc'[a] = pc[a] + 3 \/ pc'[a] = ClosePlace(a)
    BY <1>1, Zenon DEF Moves
  <2> QED
    BY <1>2, <1>4, <2>1
<1>6. Hits(a) => Here(a)[1] = "hits" /\ IsRun(a) /\ pc[a] <= RoundsEnd(a)
  <2>1. Hits(a) => Here(a)[1] = "hits"
    BY Zenon DEF Hits, Doing
  <2>2. "hits" \notin EvalWords \cup CloseWords \cup ExportWords
    BY DEF EvalWords, CloseWords, ExportWords
  <2> QED
    BY <1>2, <1>4, <2>1, <2>2
<1>7. Judged(a) => Here(a)[1] = "judged" /\ IsRun(a) /\ pc[a] > RoundsEnd(a)
  <2>1. Judged(a) => Here(a)[1] = "judged"
    BY Zenon DEF Judged, Doing
  <2>2. "judged" \notin RoundsWords \cup ExportWords
    BY DEF RoundsWords, OpenWords, StartWords, RoundWords, ExportWords
  <2> QED
    BY <1>2, <1>4, <2>1, <2>2
<1>8. IsFiniteSet(fly'.hits) /\ \A c : c # a => HitsOf(fly', c) = HitsOf(fly, c)
  <2>1. CASE fly'.hits = fly.hits
    BY <2>1 DEF HitsOf, JudgedHolds
  <2>2. CASE Hits(a)
    <3> DEFINE rows == HitRows(a, Arg(a), heap[a].doomed, heap[a].available)
               rest == {r \in fly.hits : \A n \in rows : \E f \in HitKey : n[f] # r[f]}
    <3>1. fly' = [fly EXCEPT !.hits = rest \cup rows]
      BY <2>2, Zenon DEF Hits, RecordHits, Upsert
    <3>2. IsFiniteSet(rows) /\ \A m \in rows : m.run = a
      BY HitRowsFinite
    <3> HIDE DEF rows
    <3>3. \A r \in fly.hits : r.run # a => r \in rest
      BY <3>2 DEF HitKey
    <3>4. rest \in SUBSET fly.hits
      OBVIOUS
    <3> HIDE DEF rest
    <3>5. IsFiniteSet(rest)
      BY <3>4, FS_Subset DEF JudgedHolds
    <3>6. IsFiniteSet(rest \cup rows)
      BY <3>2, <3>5, FS_Union
    <3>7. fly'.hits = rest \cup rows
      BY <3>1 DEF TableShapes, FlyTables
    <3>8. ASSUME NEW c, c # a PROVE HitsOf(fly', c) = HitsOf(fly, c)
      BY <3>2, <3>3, <3>4, <3>7, <3>8 DEF HitsOf
    <3> QED
      BY <3>6, <3>7, <3>8
  <2> QED
    BY <2>1, <2>2 DEF FlyKept
<1>9. ASSUME NEW o \in fly.judged
      PROVE  /\ o.run \in Actor /\ IsRun(o.run) /\ pc'[o.run] > RoundsEnd(o.run) /\ o.judged \in Nat
             /\ o.judged <= Cardinality(Counted(o)')
  <2>1. /\ o.run \in Actor /\ IsRun(o.run) /\ pc[o.run] > RoundsEnd(o.run) /\ o.judged \in Nat
        /\ o.judged <= Cardinality(Counted(o))
    BY Zenon DEF JudgedHolds, JudgedAreLabelled, Counted
  <2>2. pc'[o.run] > RoundsEnd(o.run)
    BY <1>2, <1>5, <2>1
  <2>3. HitsOf(fly', o.run) = HitsOf(fly, o.run)
    <3>1. CASE o.run = a
      <4>1. ~Hits(a)
        BY <1>2, <1>4, <1>6, <2>1, <3>1
      <4>2. fly'.hits = fly.hits
        BY <4>1 DEF FlyKept
      <4> QED
        BY <4>2 DEF HitsOf
    <3> QED
      BY <1>8, <3>1
  <2> QED
    BY <1>1, <1>8, <2>1, <2>2, <2>3, CountedStays
<1>10. ASSUME NEW o \in fly'.judged, o \notin fly.judged
       PROVE  /\ o.run \in Actor /\ IsRun(o.run) /\ pc'[o.run] > RoundsEnd(o.run) /\ o.judged \in Nat
              /\ o.judged <= Cardinality(Counted(o)')
  <2>1. Judged(a)
    BY <1>10 DEF FlyKept
  <2> DEFINE rows == JudgedFromHits(HitsOf(fly, a), Job, heap[a].verdict)
  <2>2. fly' = [fly EXCEPT !.judged = Upsert(fly.judged, rows, QueryKey)]
    BY <2>1, Zenon DEF Judged, RecordJudged
  <2>3. DOMAIN heap[a].verdict \subseteq Labelled
    <3>1. heap[a].fresh = {}
      BY <1>7, <2>1 DEF VerdictHolds
    <3> QED
      BY <3>1 DEF VerdictHolds
  <2>4. \A x \in rows : x.run = a /\ x.judged \in Nat /\ x.judged <= Cardinality(Counted(x))
    BY <2>3, JudgedCounts DEF JudgedHolds
  <2> HIDE DEF rows
  <2>5. o \in rows
    <3> DEFINE v == Upsert(fly.judged, rows, QueryKey)
    <3>1. \A m \in v : m \in fly.judged \/ m \in rows
      BY UpsertKeeps
    <3> HIDE DEF v
    <3>2. fly'.judged = v
      BY <2>2 DEF TableShapes, FlyTables, v
    <3> QED
      BY <1>10, <3>1, <3>2
  <2>6. fly'.hits = fly.hits
    <3>1. ~Hits(a)
      BY <1>6, <1>7, <2>1
    <3> QED
      BY <3>1 DEF FlyKept
  <2>7. HitsOf(fly', o.run) = HitsOf(fly, o.run)
    BY <2>6 DEF HitsOf
  <2>8. o.run = a /\ o.judged \in Nat /\ o.judged <= Cardinality(Counted(o))
    BY <2>4, <2>5
  <2>9. o.judged <= Cardinality(Counted(o)')
    BY <1>1, <1>8, <2>7, <2>8, CountedStays
  <2> QED
    BY <1>5, <1>7, <2>1, <2>8, <2>9
<1>11. \A o \in fly'.judged :
         /\ o.run \in Actor /\ IsRun(o.run) /\ pc'[o.run] > RoundsEnd(o.run) /\ o.judged \in Nat
         /\ o.judged <= Cardinality(Counted(o)')
  BY <1>9, <1>10
<1>12. JudgedAreLabelled'
  BY <1>11, Zenon DEF JudgedAreLabelled, Counted
<1>13. \A o \in fly'.judged : /\ o.run \in Actor /\ IsRun(o.run)' /\ pc'[o.run] > RoundsEnd(o.run)'
                              /\ o.judged \in Nat
  BY <1>3, <1>11
<1> QED
  BY <1>8, <1>12, <1>13, Zenon DEF JudgedHolds

----------------------------------------------------------------------------
(* The stores at every moment.                                             *)

\* What holds of both databases, and the inductive invariant of the records.
StoresHold ==
    /\ TableShapes /\ FlywheelRefsHold(fly) /\ CorpusRefsHold(cor) /\ DocumentsHaveFiles
    /\ Trail /\ MemoryHolds /\ VerdictHolds /\ JudgedHolds
RecordsHold == PlaceHolds /\ HeapShapes /\ FilesHold /\ StoresHold

\* Empty stores refer to nothing.
LEMMA StoresAtFirst == Init => StoresHold
<1> SUFFICES ASSUME Init PROVE StoresHold
  OBVIOUS
<1>1. fly = NoFlywheel /\ cor = NoCorpus /\ heap = [b \in Actor |-> NoHeap] /\ pc = [b \in Actor |-> 1]
  BY DEF Init
<1>2. /\ DOMAIN NoFlywheel = FlyTables
      /\ NoFlywheel.runs = {} /\ NoFlywheel.queries = {} /\ NoFlywheel.hits = {} /\ NoFlywheel.labels = {}
      /\ NoFlywheel.outcomes = {} /\ NoFlywheel.judged = {} /\ NoFlywheel.events = {}
      /\ NoFlywheel.termOutcomes = {} /\ NoFlywheel.samples = {}
  BY DEF NoFlywheel, FlyTables
<1>3. /\ DOMAIN NoCorpus = CorTables
      /\ NoCorpus.links = {} /\ NoCorpus.documents = {} /\ NoCorpus.observations = {}
      /\ NoCorpus.members = {} /\ NoCorpus.exports = {}
  BY DEF NoCorpus, CorTables
<1>4. NoHeap.available = {} /\ NoHeap.fresh = {} /\ NoHeap.rows = {} /\ DOMAIN NoHeap.verdict = {}
  BY DEF NoHeap
<1>5. TableShapes /\ DocumentsHaveFiles
  BY <1>1, <1>2, <1>3 DEF TableShapes, DocumentsHaveFiles
<1>6. FlywheelRefsHold(fly)
  BY <1>1, <1>2 DEF FlywheelRefsHold, RunRefs, QueryRefs, HitRefs, LabelRefs, OutcomeRefs, JudgedRefs,
                    EventRefs, TermOutcomeRefs, SampleRefs
<1>7. CorpusRefsHold(cor)
  BY <1>1, <1>3 DEF CorpusRefsHold, LinkRefs, DocumentRefs, ObservationRefs, MemberRefs, ExportRefs
<1>8. Trail
  <2>1. \A b \in Actor : 1..(pc[b] - 1) = {}
    BY <1>1
  <2> QED
    BY <2>1, Zenon DEF Trail
<1>9. MemoryHolds /\ VerdictHolds
  BY <1>1, <1>4 DEF MemoryHolds, VerdictHolds
<1>10. JudgedHolds
  BY <1>1, <1>2, FS_EmptySet DEF JudgedHolds, JudgedAreLabelled
<1> QED
  BY <1>5, <1>6, <1>7, <1>8, <1>9, <1>10 DEF StoresHold

\* A step of a process keeps what is asked of both stores.
LEMMA StoresStep ==
    ASSUME RecordsHold, NEW a \in Actor, Step(a)
    PROVE  StoresHold'
<1>1. /\ PlaceHolds /\ HeapShapes /\ FileShapes /\ TableShapes /\ FlywheelRefsHold(fly)
      /\ CorpusRefsHold(cor) /\ DocumentsHaveFiles /\ Trail /\ MemoryHolds /\ VerdictHolds /\ JudgedHolds
  BY DEF RecordsHold, StoresHold, FilesHold
<1>2. FlyKept(a)
  BY <1>1, FlyStep
<1>3. CorKept(a)
  BY <1>1, CorStep
<1>4. TableShapes' /\ FlywheelRefsHold(fly)' /\ CorpusRefsHold(cor)'
  BY <1>2, <1>3 DEF FlyKept, CorKept, TableShapes
<1>5. Trail' /\ DocumentsHaveFiles'
  BY <1>1, <1>2, <1>3, TrailStep, DocumentsStep
<1>6. MemoryHolds' /\ VerdictHolds' /\ JudgedHolds'
  BY <1>1, <1>2, MemoryStep, VerdictStep, JudgedStep
<1> QED
  BY <1>4, <1>5, <1>6, Zenon DEF StoresHold

\* A call that raises and the end of a process commit nothing.
LEMMA StoresFault ==
    ASSUME RecordsHold, NEW a \in Actor, Fail(a) \/ Crash(a)
    PROVE  StoresHold'
<1>1. /\ PlaceHolds /\ HeapShapes /\ FileShapes /\ TableShapes /\ FlywheelRefsHold(fly)
      /\ CorpusRefsHold(cor) /\ DocumentsHaveFiles /\ Trail /\ MemoryHolds /\ VerdictHolds /\ JudgedHolds
  BY DEF RecordsHold, StoresHold, FilesHold
<1>2. fly' = fly /\ cor' = cor /\ role' = role
  BY Zenon DEF Fail, Crash
<1>3. \A b \in Actor : /\ Script(b)' = Script(b) /\ (IsRun(b)' <=> IsRun(b))
                       /\ ClosePlace(b)' = ClosePlace(b) /\ RoundsEnd(b)' = RoundsEnd(b)
  BY <1>2, SameScript
<1>4. /\ \A b \in Actor : pc'[b] = pc[b] \/ (b = a /\ IsRun(a) /\ pc'[a] = ClosePlace(a))
      /\ pc' = pc \/ Fail(a)
  BY <1>1 DEF Fail, Crash, PlaceHolds
<1>5. \/ heap' = heap /\ pc' = pc
      \/ /\ \A b \in Actor : b # a => heap'[b] = heap[b] /\ pc'[b] = pc[b]
         /\ heap'[a].available = {} /\ heap'[a].fresh = {} /\ heap'[a].rows = {}
         /\ DOMAIN heap'[a].verdict = {}
  <2>1. CASE Crash(a)
    BY <2>1 DEF Crash
  <2>2. CASE Fail(a)
    <3> DEFINE h == [NoHeap EXCEPT !.doomed = TRUE]
    <3>1. heap' = [heap EXCEPT ![a] = h]
      BY <2>2, Zenon DEF Fail
    <3>2. h.available = {} /\ h.fresh = {} /\ h.rows = {} /\ DOMAIN h.verdict = {}
      BY DEF NoHeap
    <3> HIDE DEF h
    <3> QED
      BY <1>1, <1>4, <3>1, <3>2 DEF HeapShapes
  <2> QED
    BY <2>1, <2>2
<1>6. TableShapes' /\ FlywheelRefsHold(fly)' /\ CorpusRefsHold(cor)'
  BY <1>1, <1>2 DEF TableShapes
<1>7. FlyGrows /\ CorGrows /\ CorpusFilesStay
  BY <1>1, <1>2, CorpusFilesFault DEF FlyGrows, CorGrows
<1>8. DocumentsHaveFiles'
  <2>1. ASSUME NEW d \in cor.documents PROVE d.ref[1] \in Actor \X {"corpus"} /\ d.doc \in DOMAIN disk'[d.ref[1]]
    <3>1. d.ref[1] \in Actor \X {"corpus"} /\ d.doc \in DOMAIN disk[d.ref[1]]
      BY <1>1 DEF DocumentsHaveFiles
    <3>2. PICK b \in Actor : d.ref[1] = <<b, "corpus">>
      BY <3>1
    <3> QED
      BY <1>7, <3>1, <3>2 DEF CorpusFilesStay
  <2> QED
    BY <1>2, <2>1 DEF DocumentsHaveFiles
<1>9. Trail'
  <2>1. ASSUME NEW b \in Actor, IsRun(b) => pc'[b] < ClosePlace(b), NEW p \in 1..(pc'[b] - 1),
               NEW c, c = Script(b)[p]
        PROVE  Done(b, c)'
    <3>1. IsRun(b) => ClosePlace(b) \in Nat
      BY <1>1, AllLaid DEF Laid
    <3>2. pc'[b] = pc[b]
      BY <1>4, <2>1, <3>1
    <3>3. Done(b, c)
      BY <1>1, <2>1, <3>2 DEF Trail
    <3> QED
      BY <1>7, <3>3, DoneStays
  <2>2. ASSUME NEW b \in Actor, IsRun(b) => pc'[b] < ClosePlace(b), NEW p \in 1..(pc'[b] - 1)
        PROVE  Done(b, Script(b)[p])'
    <3>1. Script(b)' = Script(b)
      BY <1>3
    <3>2. \A c : c = Script(b)[p] => Done(b, c)'
      BY <2>1, <2>2
    <3> QED
      BY <3>1, <3>2, Zenon DEF Done, Seen
  <2> QED
    BY <1>3, <2>2, Zenon DEF Trail
<1>10. MemoryHolds'
  <2>1. \A b \in Actor : Shortlist(b)' = Shortlist(b)
    BY DEF Shortlist
  <2>2. \A b \in Actor : /\ heap'[b].available \subseteq fly.snapshots
                         /\ heap'[b].fresh \subseteq Shortlist(b)
                         /\ \A s \in heap'[b].rows : s.task \in fly.tasks /\ \E r \in fly.runs : r.run = s.run
    BY <1>1, <1>5 DEF MemoryHolds
  <2> QED
    BY <1>2, <2>2 DEF MemoryHolds
<1>11. VerdictHolds'
  <2>1. Labelled' = Labelled
    BY <1>2 DEF Labelled, CachedLabels
  <2>2. ASSUME NEW b \in Actor
        PROVE  /\ DOMAIN heap'[b].verdict \subseteq Labelled \cup heap'[b].fresh
               /\ heap'[b].fresh # {} => Here(b)'[1] \in {"judge", "labels"} /\ pc'[b] <= Len(Script(b))
    <3>1. CASE heap'[b] = heap[b] /\ pc'[b] = pc[b]
      <4>1. Here(b)' = Here(b)
        BY <1>3, <3>1 DEF Here
      <4> QED
        BY <1>1, <3>1, <4>1 DEF VerdictHolds
    <3>2. CASE b = a /\ heap'[a].fresh = {} /\ DOMAIN heap'[a].verdict = {}
      BY <3>2
    <3> QED
      BY <1>5, <3>1, <3>2
  <2> QED
    BY <1>3, <2>1, <2>2 DEF VerdictHolds
<1>12. JudgedHolds'
  <2>1. ASSUME NEW o \in fly.judged
        PROVE  o.run \in Actor /\ IsRun(o.run) /\ pc'[o.run] > RoundsEnd(o.run) /\ o.judged \in Nat
    <3>1. o.run \in Actor /\ IsRun(o.run) /\ pc[o.run] > RoundsEnd(o.run) /\ o.judged \in Nat
      BY <1>1 DEF JudgedHolds
    <3>2. ClosePlace(o.run) > RoundsEnd(o.run)
      <4>1. Laid(o.run)
        BY <1>1, <3>1, AllLaid
      <4> QED
        BY <3>1, <4>1 DEF Laid
    <3> QED
      BY <1>4, <3>1, <3>2
  <2>2. JudgedAreLabelled'
    BY <1>1, <1>2, Zenon DEF JudgedHolds, JudgedAreLabelled
  <2>3. IsFiniteSet(fly'.hits)
    BY <1>1, <1>2 DEF JudgedHolds
  <2> QED
    BY <1>2, <1>3, <2>1, <2>2, <2>3 DEF JudgedHolds
<1> QED
  BY <1>6, <1>8, <1>9, <1>10, <1>11, <1>12, Zenon DEF StoresHold

\* The invariant is kept by every step, failure and crash.
LEMMA RecordsStep ==
    ASSUME RecordsHold, [Next]_vars
    PROVE  RecordsHold'
<1>1. PlaceHolds' /\ HeapShapes' /\ FilesHold'
  BY TreeStep DEF RecordsHold
<1>2. ASSUME NEW a \in Actor, Step(a) PROVE StoresHold'
  BY <1>2, StoresStep
<1>3. ASSUME NEW a \in Actor, Fail(a) \/ Crash(a) PROVE StoresHold'
  BY <1>3, StoresFault
<1>4. ASSUME UNCHANGED vars PROVE StoresHold'
  <2>1. /\ fly' = fly /\ cor' = cor /\ heap' = heap /\ disk' = disk /\ role' = role /\ pc' = pc
    BY <1>4 DEF vars, files
  <2>2. StoresHold
    BY DEF RecordsHold
  <2>3. \A b \in Actor : /\ Script(b)' = Script(b) /\ (IsRun(b)' <=> IsRun(b))
                         /\ ClosePlace(b)' = ClosePlace(b) /\ RoundsEnd(b)' = RoundsEnd(b)
                         /\ Here(b)' = Here(b)
    BY <2>1, SameScript DEF Here
  <2>4. TableShapes' /\ FlywheelRefsHold(fly)' /\ CorpusRefsHold(cor)' /\ DocumentsHaveFiles'
    BY <2>1, <2>2, Zenon DEF StoresHold, TableShapes, DocumentsHaveFiles
  <2>5. MemoryHolds'
    BY <2>1, <2>2, Zenon DEF StoresHold, MemoryHolds, Shortlist
  <2>6. VerdictHolds'
    BY <2>1, <2>2, <2>3, Zenon DEF StoresHold, VerdictHolds, Labelled
  <2>7. JudgedHolds'
    <3>1. JudgedAreLabelled'
      BY <2>1, <2>2, Zenon DEF StoresHold, JudgedHolds, JudgedAreLabelled
    <3>2. \A o \in fly.judged : /\ o.run \in Actor /\ IsRun(o.run)' /\ pc'[o.run] > RoundsEnd(o.run)'
                                /\ o.judged \in Nat
      BY <2>1, <2>2, <2>3 DEF StoresHold, JudgedHolds
    <3> QED
      BY <2>1, <2>2, <3>1, <3>2, Zenon DEF StoresHold, JudgedHolds
  <2>8. Trail'
    <3>1. FlyGrows /\ CorGrows /\ CorpusFilesStay
      BY <2>1 DEF FlyGrows, CorGrows, CorpusFilesStay
    <3>2. ASSUME NEW b \in Actor, IsRun(b) => pc[b] < ClosePlace(b), NEW p \in 1..(pc[b] - 1), NEW c,
                 c = Script(b)[p]
          PROVE  Done(b, c)'
      <4>1. Done(b, c)
        BY <2>2, <3>2 DEF StoresHold, Trail
      <4> QED
        BY <3>1, <4>1, DoneStays
    <3>3. ASSUME NEW b \in Actor, IsRun(b) => pc[b] < ClosePlace(b), NEW p \in 1..(pc[b] - 1)
          PROVE  Done(b, Script(b)[p])'
      <4>1. \A c : c = Script(b)[p] => Done(b, c)'
        BY <3>2, <3>3
      <4> QED
        BY <2>3, <4>1, Zenon DEF Done, Seen
    <3> QED
      BY <2>1, <2>3, <3>3, Zenon DEF Trail
  <2> QED
    BY <2>4, <2>5, <2>6, <2>7, <2>8 DEF StoresHold
<1>5. StoresHold'
  BY <1>2, <1>3, <1>4 DEF Next
<1> QED
  BY <1>1, <1>5 DEF RecordsHold

\* The invariant holds in every behaviour.
LEMMA RecordsAlwaysHold == Spec => []RecordsHold
<1>1. Init => RecordsHold
  BY PlaceInit, FilesAtFirst, StoresAtFirst DEF RecordsHold
<1>2. RecordsHold /\ [Next]_vars => RecordsHold'
  BY RecordsStep
<1> QED
  BY <1>1, <1>2, PTL DEF Spec

\* The partition index tells the status of every manifest no process is writing, and a
\* closed manifest of a run names only files that are there: _write_manifest rewrites
\* the index under its lock, and evaluate_run takes away what it registered.
THEOREM RootsAreTold == Spec => []ManifestsTellTheTree
<1>1. RecordsHold => ManifestsTellTheTree
  BY TreeTells DEF RecordsHold
<1> QED
  BY <1>1, RecordsAlwaysHold, PTL

\* Whichever call fails, whoever stops and in whichever order the steps of the processes
\* come, SQLite never refuses a row for a foreign key: the order in which a run and its
\* evaluation call FlywheelStore and CorpusStore writes what a row refers to before it.
THEOREM RecordsAreWellFormed == Spec => []WellFormedRecords
<1>1. RecordsHold => WellFormedRecords
  <2> SUFFICES ASSUME RecordsHold PROVE WellFormedRecords
    OBVIOUS
  <2>1. EveryReferenceResolves
    BY DEF RecordsHold, StoresHold, EveryReferenceResolves, DocumentsHaveFiles
  <2>2. RecordsTypeOK
    <3>1. PlaceHolds /\ FileShapes
      BY DEF RecordsHold, FilesHold
    <3>2. \A a \in Actor : pc[a] \in 1..(Len(Script(a)) + 1)
      <4>1. ASSUME NEW a \in Actor PROVE pc[a] \in 1..(Len(Script(a)) + 1)
        <5>1. Len(Script(a)) \in Nat
          BY <3>1, AllLaid DEF Laid
        <5> QED
          BY <3>1, <5>1 DEF PlaceHolds
      <4> QED
        BY <4>1
    <3>3. \A k \in Kinds, a \in Actor : index[k][a] \in {"none", "running", "completed", "failed"}
      BY <3>1 DEF FileShapes, Statuses
    <3> QED
      BY <3>1, <3>2, <3>3 DEF RecordsTypeOK, PlaceHolds, FileShapes
  <2> QED
    BY <2>1, <2>2 DEF WellFormedRecords
<1> QED
  BY <1>1, RecordsAlwaysHold, PTL

\* A judge outcome counts labels that are stored: evaluate_run writes every label the
\* verdicts hold before record_query_judge_outcomes, whatever stops it in between.
THEOREM JudgedHaveLabels == Spec => []JudgedAreLabelled
<1>1. RecordsHold => JudgedAreLabelled
  BY DEF RecordsHold, StoresHold, JudgedHolds
<1> QED
  BY <1>1, RecordsAlwaysHold, PTL
=============================================================================
