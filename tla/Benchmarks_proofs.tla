-------------------------- MODULE Benchmarks_proofs --------------------------
(***************************************************************************)
(* For every trace, every number of rounds, iterations, runs and calls:    *)
(* what the retention benchmark keeps and what its clock sees, and what    *)
(* the verifier and the rebuild benchmark hold and see.                    *)
(***************************************************************************)
EXTENDS Benchmarks, FiniteSetTheorems, WellFoundedInduction, TLAPS

-----------------------------------------------------------------------------
(* Sorting. *)

\* R orders S: of two members one comes before the other.
Orders(R, S) ==
  /\ \A x \in S : <<x, x>> \notin R
  /\ \A x, y, z \in S : <<x, y>> \in R /\ <<y, z>> \in R => <<x, z>> \in R
  /\ \A x, y \in S : x # y => <<x, y>> \in R \/ <<y, x>> \in R

\* Sorted(S, R) has every member of S once, in the order R.
LEMMA SortedIs ==
  ASSUME NEW S, IsFiniteSet(S), NEW R, Orders(R, S)
  PROVE  /\ Cardinality(S) \in Nat
         /\ Sorted(S, R) \in [1 .. Cardinality(S) -> S]
         /\ \A p, q \in 1 .. Cardinality(S) : p < q => <<Sorted(S, R)[p], Sorted(S, R)[q]>> \in R
         /\ \A x \in S : \E p \in 1 .. Cardinality(S) : Sorted(S, R)[p] = x
<1> DEFINE Before(i) == {j \in S : <<j, i>> \in R}
           Rank(i) == Cardinality(Before(i))
           n == Cardinality(S)
           s == Sorted(S, R)
<1>1. n \in Nat
  BY FS_CardinalityType
<1>2. ASSUME NEW i \in S PROVE Rank(i) \in 0 .. n - 1
  <2>1. Before(i) \in SUBSET S /\ Before(i) # S
    BY DEF Orders
  <2>2. IsFiniteSet(Before(i)) /\ Rank(i) <= n /\ Rank(i) # n
    BY <2>1, FS_Subset
  <2>3. Rank(i) \in Nat
    BY <2>2, FS_CardinalityType
  <2> HIDE DEF Rank, n
  <2> QED BY <1>1, <2>2, <2>3
<1>3. ASSUME NEW x \in S, NEW y \in S, <<x, y>> \in R PROVE Rank(x) < Rank(y)
  <2>1. Before(x) \in SUBSET Before(y) /\ Before(x) # Before(y) /\ Before(y) \in SUBSET S
    BY <1>3 DEF Orders
  <2>2. IsFiniteSet(Before(y))
    BY <2>1, FS_Subset
  <2>3. Rank(x) <= Rank(y) /\ Rank(x) # Rank(y)
    BY <2>1, <2>2, FS_Subset
  <2>4. Rank(x) \in Int /\ Rank(y) \in Int
    BY <1>2
  <2> HIDE DEF Rank
  <2> QED BY <2>3, <2>4
<1> HIDE DEF Rank
<1>4. ASSUME NEW x \in S, NEW y \in S, Rank(x) = Rank(y) PROVE x = y
  <2>1. ~(Rank(x) < Rank(y)) /\ ~(Rank(y) < Rank(x))
    BY <1>2, <1>4
  <2> QED BY <1>3, <2>1 DEF Orders
<1>5. \A m \in 0 .. n - 1 : \E i \in S : Rank(i) = m
  <2> DEFINE f == [i \in S |-> Rank(i)]
  <2>1. f \in Injection(S, 0 .. n - 1)
    BY <1>2, <1>4 DEF Injection, IsInjective
  <2>2. IsFiniteSet(0 .. n - 1) /\ Cardinality(0 .. n - 1) = n
    <3> HIDE DEF n
    <3>1. 0 \in Int /\ n - 1 \in Int
      BY <1>1
    <3>2. Cardinality(0 .. n - 1) = IF 0 > n - 1 THEN 0 ELSE (n - 1) - 0 + 1
      BY <3>1, FS_Interval
    <3> QED BY <1>1, <3>1, <3>2, FS_Interval
  <2>3. f \in Surjection(S, 0 .. n - 1)
    <3> HIDE DEF f
    <3>1. Cardinality(S) = Cardinality(0 .. n - 1)
      BY <2>2
    <3> QED BY <2>1, <2>2, <3>1, FS_Injection
  <2> QED BY <2>3 DEF Surjection
<1>6. s = [p \in 1 .. n |-> CHOOSE i \in S : Rank(i) = p - 1]
  BY DEF Sorted, Rank
<1> HIDE DEF s, n
<1>7. ASSUME NEW p \in 1 .. n PROVE s[p] \in S /\ Rank(s[p]) = p - 1
  <2>1. p - 1 \in 0 .. n - 1
    BY <1>1
  <2>2. \E i \in S : Rank(i) = p - 1
    BY <1>5, <2>1
  <2> QED BY <1>6, <2>2
<1>8. s \in [1 .. n -> S]
  BY <1>6, <1>7
<1>9. ASSUME NEW p \in 1 .. n, NEW q \in 1 .. n, p < q PROVE <<s[p], s[q]>> \in R
  <2>1. Rank(s[p]) < Rank(s[q]) /\ Rank(s[p]) \in Int /\ Rank(s[q]) \in Int
    BY <1>1, <1>7, <1>9
  <2>2. s[p] # s[q] /\ ~(<<s[q], s[p]>> \in R)
    BY <1>3, <1>7, <2>1
  <2> QED BY <1>7, <2>2 DEF Orders
<1>10. ASSUME NEW x \in S PROVE \E p \in 1 .. n : s[p] = x
  <2> DEFINE p == Rank(x) + 1
  <2>1. p \in 1 .. n /\ p - 1 = Rank(x)
    BY <1>1, <1>2
  <2>2. s[p] \in S /\ Rank(s[p]) = Rank(x)
    BY <1>7, <2>1
  <2> QED BY <1>4, <2>1, <2>2
<1> QED BY <1>1, <1>8, <1>9, <1>10 DEF s, n

-----------------------------------------------------------------------------
(* What a retention mode selects of a trace. *)

\* The items of a trace are finitely many, and each is counted.
LEMMA TraceIs ==
  ASSUME NEW tr \in Seq(Items)
  PROVE  /\ Range(tr) \subseteq Items /\ IsFiniteSet(Range(tr))
         /\ DOMAIN tr = 1 .. Len(tr) /\ Len(tr) \in Nat
         /\ \A i : Count(tr, i) \in Nat
<1>1. Len(tr) \in Nat /\ DOMAIN tr = 1 .. Len(tr) /\ Range(tr) \subseteq Items
  BY DEF Range
<1>2. IsFiniteSet(1 .. Len(tr))
  BY <1>1, FS_Interval
<1>3. tr \in Surjection(1 .. Len(tr), Range(tr))
  BY <1>1 DEF Surjection, Range
<1>4. IsFiniteSet(Range(tr))
  BY <1>2, <1>3, FS_Surjection
<1>5. ASSUME NEW i PROVE Count(tr, i) \in Nat
  <2> DEFINE P == {p \in DOMAIN tr : tr[p] = i}
  <2>1. P \in SUBSET (1 .. Len(tr))
    BY <1>1
  <2> HIDE DEF P
  <2>2. Cardinality(P) \in Nat
    BY <1>2, <2>1, FS_Subset, FS_CardinalityType
  <2> QED BY <2>2 DEF Count, P
<1> QED BY <1>1, <1>4, <1>5

\* An item of a trace has a place where the trace has it first.
LEMMA FirstAtIs ==
  ASSUME NEW tr \in Seq(Items), NEW i \in Range(tr)
  PROVE  FirstAt(tr, i) \in DOMAIN tr /\ tr[FirstAt(tr, i)] = i
<1> DEFINE P == {p \in DOMAIN tr : tr[p] = i}
           R == OpToRel(<, Nat)
<1>1. P \subseteq Nat /\ P # {}
  BY TraceIs DEF Range
<1>2. IsWellFoundedOn(R, Nat) /\ \A x, y \in Nat : y < x => <<y, x>> \in R
  BY NatLessThanWellFounded DEF OpToRel
<1> HIDE DEF R, P
<1>3. PICK x \in P : \A y \in P : ~(<<y, x>> \in R)
  BY <1>1, <1>2, WFMin, ZenonT(60)
<1>4. \A y \in P : x \in Nat /\ y \in Nat /\ ~(y < x)
  BY <1>1, <1>2, <1>3
<1>5. \E p \in P : \A q \in P : p <= q
  BY <1>4
<1>6. Min(P) \in P
  BY <1>5 DEF Min
<1> QED BY <1>6 DEF FirstAt, P

\* A sequence without repetitions that has every item of the trace.
Enumerates(s, tr) ==
  /\ s \in Seq(Range(tr)) /\ Len(s) = Cardinality(Range(tr))
  /\ IsInjective(s) /\ Range(s) = Range(tr)

\* A sorted trace has each of its items once.
LEMMA SortedEnumerates ==
  ASSUME NEW tr \in Seq(Items), NEW R, Orders(R, Range(tr))
  PROVE  Enumerates(Sorted(Range(tr), R), tr)
<1> DEFINE n == Cardinality(Range(tr))  s == Sorted(Range(tr), R)  S == Range(tr)
<1>1. /\ n \in Nat /\ s \in [1 .. n -> S]
      /\ \A p, q \in 1 .. n : p < q => <<s[p], s[q]>> \in R
      /\ \A x \in S : \E p \in 1 .. n : s[p] = x
  BY TraceIs, SortedIs
<1>2. \A x \in S : <<x, x>> \notin R
  BY DEF Orders
<1> HIDE DEF n, s, S
<1>3. s \in Seq(S) /\ Len(s) = n /\ DOMAIN s = 1 .. n
  BY <1>1
<1>4. ASSUME NEW p \in 1 .. n, NEW q \in 1 .. n, s[p] = s[q] PROVE p = q
  <2>1. ~(p < q) /\ ~(q < p)
    BY <1>1, <1>2, <1>4
  <2> QED BY <1>1, <2>1
<1>5. Range(s) = S
  BY <1>1, <1>3 DEF Range
<1> QED BY <1>3, <1>4, <1>5 DEF Enumerates, IsInjective, n, s, S

\* Items are in the order in which the trace has them first.
LEMMA FirstSeenIs == ASSUME NEW tr \in Seq(Items) PROVE Enumerates(FirstSeen(tr), tr)
<1> DEFINE S == Range(tr)
           R == {q \in S \X S : FirstAt(tr, q[1]) < FirstAt(tr, q[2])}
<1>1. \A i \in S : FirstAt(tr, i) \in Int /\ tr[FirstAt(tr, i)] = i
  BY FirstAtIs, TraceIs
<1>2. \A x, y \in S : <<x, y>> \in R <=> FirstAt(tr, x) < FirstAt(tr, y)
  OBVIOUS
<1> HIDE DEF R, S
<1>3. Orders(R, S)
  BY <1>1, <1>2 DEF Orders
<1> QED BY <1>3, SortedEnumerates DEF FirstSeen, R, S

\* The order of the hot items, of the more accessed first.
HotOrder(tr) ==
  {q \in Range(tr) \X Range(tr) :
    \/ Count(tr, q[1]) > Count(tr, q[2])
    \/ Count(tr, q[1]) = Count(tr, q[2]) /\ q[1] < q[2]}

\* It is an order, as counts and indices are numbers.
LEMMA HotOrderIs ==
  ASSUME NEW tr \in Seq(Items)
  PROVE  /\ Orders(HotOrder(tr), Range(tr)) /\ HotItems(tr) = Sorted(Range(tr), HotOrder(tr))
         /\ \A x, y \in Range(tr) : <<x, y>> \in HotOrder(tr) => Count(tr, x) >= Count(tr, y)
<1> DEFINE S == Range(tr)  R == HotOrder(tr)  C(i) == Count(tr, i)
<1>1. \A i \in S : C(i) \in Int /\ i \in Int
  <2>1. S \subseteq Items /\ \A i : C(i) \in Nat
    BY TraceIs
  <2> HIDE DEF S, C
  <2> QED BY <2>1, RetentionAssumption DEF RetentionAssumption
<1>2. \A x, y \in S : <<x, y>> \in R <=> C(x) > C(y) \/ (C(x) = C(y) /\ x < y)
  BY DEF HotOrder
<1> HIDE DEF R, S, C
<1>3. Orders(R, S)
  BY <1>1, <1>2 DEF Orders
<1>4. \A x, y \in S : <<x, y>> \in R => C(x) >= C(y)
  BY <1>1, <1>2
<1> QED BY <1>3, <1>4 DEF R, S, C, HotItems, HotOrder

\* A share is one item at least and not more than there are.
LEMMA ShareIs ==
  ASSUME NEW tr \in Seq(Items), NEW m \in DOMAIN Shares
  PROVE  /\ RetainCount(tr, m) \in Nat \ {0}
         /\ Range(tr) # {} => RetainCount(tr, m) <= Cardinality(Range(tr))
<1> DEFINE n == Cardinality(Range(tr))
<1>1. n \in Nat /\ (Range(tr) # {} => n # 0)
  BY TraceIs, FS_CardinalityType, FS_EmptySet
<1>2. Shares[m] \in {2, 4, 10}
  BY DEF Shares
<1>3. RetainCount(tr, m) = IF n \div Shares[m] > 1 THEN n \div Shares[m] ELSE 1
  BY DEF RetainCount
<1> HIDE DEF n
<1>4. n \div Shares[m] \in Nat /\ n \div Shares[m] <= n
  BY <1>1, <1>2
<1> QED BY <1>1, <1>3, <1>4 DEF n

\* A partial retention is a beginning of the hot items: its share of them, and
\* none left out that is accessed more often than one kept.
LEMMA PartIs ==
  ASSUME NEW tr \in Seq(Items), NEW m \in DOMAIN Shares
  PROVE  LET s == Selected(tr, m) IN
         /\ s \in Seq(Range(tr)) /\ IsInjective(s)
         /\ tr # <<>> => Len(s) = RetainCount(tr, m)
         /\ \A i \in Range(s), j \in Range(tr) \ Range(s) : Count(tr, i) >= Count(tr, j)
<1> DEFINE S == Range(tr)  h == HotItems(tr)  n == Cardinality(S)
           c == RetainCount(tr, m)  k == Min({c, Len(h)})  s == Selected(tr, m)
<1>1. /\ n \in Nat /\ h \in [1 .. n -> S] /\ \A x \in S : \E p \in 1 .. n : h[p] = x
      /\ \A p, q \in 1 .. n : p < q => <<h[p], h[q]>> \in HotOrder(tr)
  BY TraceIs, HotOrderIs, SortedIs
<1>2. /\ \A x \in S : <<x, x>> \notin HotOrder(tr)
      /\ \A x, y \in S : <<x, y>> \in HotOrder(tr) => Count(tr, x) >= Count(tr, y)
  BY HotOrderIs DEF Orders
<1>3. c \in Nat \ {0} /\ (S # {} => c <= n)
  BY ShareIs
<1>4. m \in {"half", "quarter", "hotset_10", "hotset_25"}
  BY DEF Shares
<1>5. s = SubSeq(h, 1, k)
  BY <1>4 DEF Selected
<1>6. tr # <<>> => S # {}
  <2>1. tr # <<>> => 1 \in DOMAIN tr
    BY TraceIs
  <2> QED BY <2>1 DEF Range
<1> HIDE DEF S, h, n, c, s
<1>7. h \in Seq(S) /\ Len(h) = n
  BY <1>1
<1>8. k \in 0 .. n /\ (S # {} => k = c)
  <2>1. \E x \in {c, n} : \A y \in {c, n} : x <= y
    BY <1>1, <1>3
  <2>2. k \in {c, n} /\ k <= c /\ k <= n
    BY <1>7, <2>1 DEF Min
  <2> HIDE DEF k
  <2> QED BY <1>1, <1>3, <2>2
<1> HIDE DEF k
<1>9. s = [p \in 1 .. k |-> h[p]]
  BY <1>1, <1>5, <1>7, <1>8
<1>10. s \in Seq(S) /\ Len(s) = k /\ DOMAIN s = 1 .. k /\ \A p \in 1 .. k : p \in 1 .. n /\ s[p] = h[p]
  BY <1>1, <1>8, <1>9
<1>11. IsInjective(s)
  <2> SUFFICES ASSUME NEW p \in 1 .. k, NEW q \in 1 .. k, s[p] = s[q] PROVE p = q
    BY <1>10 DEF IsInjective
  <2>1. ~(p < q) /\ ~(q < p)
    BY <1>1, <1>2, <1>10
  <2> QED BY <1>8, <2>1
<1>12. ASSUME NEW i \in Range(s), NEW j \in S \ Range(s) PROVE Count(tr, i) >= Count(tr, j)
  <2>1. PICK p \in 1 .. k : s[p] = i
    BY <1>10 DEF Range
  <2>2. PICK q \in 1 .. n : h[q] = j
    BY <1>1
  <2>3. ~(q \in 1 .. k)
    BY <1>10, <2>2 DEF Range
  <2>4. p < q
    BY <1>8, <2>3
  <2> QED BY <1>1, <1>2, <1>10, <2>1, <2>2, <2>4
<1> QED BY <1>6, <1>8, <1>10, <1>11, <1>12 DEF S, c, s

\* Every mode selects items of the trace, each once, and a full one all of them.
LEMMA SelectedIs ==
  ASSUME NEW tr \in Seq(Items), NEW m \in Modes
  PROVE  /\ Selected(tr, m) \in Seq(Range(tr)) /\ IsInjective(Selected(tr, m))
         /\ m = "full" => Range(Selected(tr, m)) = Range(tr)
<1>1. CASE m \in DOMAIN Shares
  <2>1. m # "full"
    BY <1>1 DEF Shares
  <2> QED BY <1>1, <2>1, PartIs
<1>2. CASE m = "minimal"
  BY <1>2 DEF Selected, IsInjective
<1>3. CASE m \in {"full", "compressed"}
  <2>1. Selected(tr, m) = FirstSeen(tr)
    BY <1>3 DEF Selected
  <2> QED BY <2>1, FirstSeenIs DEF Enumerates
<1> QED BY <1>1, <1>2, <1>3 DEF Modes
-----------------------------------------------------------------------------
(* A retention run. *)

\* The strengthening: the items of a run are those its mode selects of the trace
\* the program still has, ...
RunSelected ==
  /\ pc = "collect" => retained = <<>>
  /\ pc \in {"preload", "timed", "reported"} => retained = Selected(trace, mode)

\* ... they are loaded in order, all of them by the time the clock starts, ...
Preloaded ==
  /\ pc = "preload" => pass = 0 /\ touched = 0 /\ misses = 0 /\ derived = 0
  /\ pc = "preload" /\ mode # "compressed" =>
       pos <= Len(retained) + 1 /\ held = {retained[q] : q \in 1 .. pos - 1}
  /\ pc = "timed" /\ mode # "compressed" => held = Range(retained)

\* ... and the clock has seen the whole passes and the places of this one.
Missed(n) == {p \in 1 .. n : mode = "compressed" \/ trace[p] \notin Range(retained)}

Clocked ==
  /\ pc = "timed" =>
       /\ pos <= Len(trace) + 1 /\ (pass = iterations => pos = 1)
       /\ touched = pass * Len(trace) + (pos - 1)
       /\ misses = pass * Cardinality(Missed(Len(trace))) + Cardinality(Missed(pos - 1))
  /\ pc = "reported" =>
       /\ result.trace_accesses = Len(trace) /\ touched = iterations * Len(trace)
       /\ misses = iterations * Cardinality(Missed(Len(trace)))

RunInv == TypeOK /\ RunSelected /\ Preloaded /\ Clocked

\* The places missed, one place at a time.
LEMMA MissedIs ==
  /\ Missed(0) = {}
  /\ \A n \in Nat : IsFiniteSet(Missed(n)) /\ Cardinality(Missed(n)) \in Nat
  /\ \A n \in Nat : Cardinality(Missed(n + 1)) =
       IF mode = "compressed" \/ trace[n + 1] \notin Range(retained)
       THEN Cardinality(Missed(n)) + 1 ELSE Cardinality(Missed(n))
<1>1. Missed(0) = {}
  BY DEF Missed
<1>2. ASSUME NEW n \in Nat PROVE IsFiniteSet(Missed(n)) /\ Cardinality(Missed(n)) \in Nat
  <2>1. Missed(n) \in SUBSET (1 .. n) /\ IsFiniteSet(1 .. n)
    BY FS_Interval DEF Missed
  <2> QED BY <2>1, FS_Subset, FS_CardinalityType
<1>3. ASSUME NEW n \in Nat
      PROVE  Cardinality(Missed(n + 1)) =
               IF mode = "compressed" \/ trace[n + 1] \notin Range(retained)
               THEN Cardinality(Missed(n)) + 1 ELSE Cardinality(Missed(n))
  <2>1. 1 .. n + 1 = (1 .. n) \union {n + 1} /\ n + 1 \notin 1 .. n
    OBVIOUS
  <2>2. CASE mode = "compressed" \/ trace[n + 1] \notin Range(retained)
    <3>1. Missed(n + 1) = Missed(n) \union {n + 1} /\ n + 1 \notin Missed(n)
      BY <2>1, <2>2 DEF Missed
    <3> QED BY <1>2, <2>2, <3>1, FS_AddElement
  <2>3. CASE ~(mode = "compressed" \/ trace[n + 1] \notin Range(retained))
    <3>1. Missed(n + 1) = Missed(n)
      BY <2>1, <2>3 DEF Missed
    <3> QED BY <2>3, <3>1
  <2> QED BY <2>2, <2>3
<1> QED BY <1>1, <1>2, <1>3

LEMMA RunInit == Init => RunInv
<1> SUFFICES ASSUME Init PROVE RunInv
  OBVIOUS
<1>1. result \in [DOMAIN NoResult -> Nat]
  BY DEF Init, NoResult
<1>2. "full" \in Modes /\ 0 \in 0 .. MaxIterations /\ 0 \in 0 .. MaxRuns
  BY RetentionAssumption DEF RetentionAssumption, Modes
<1>3. TypeOK
  BY <1>1, <1>2 DEF Init, TypeOK
<1> QED BY <1>3 DEF Init, RunInv, RunSelected, Preloaded, Clocked

\* A run that fails, and a step that leaves it alone.
LEMMA RunSame == RunInv /\ (Throw \/ UNCHANGED vars) => RunInv'
<1> SUFFICES ASSUME RunInv, Throw \/ UNCHANGED vars PROVE RunInv'
  OBVIOUS
<1>1. CASE Throw
  BY <1>1 DEF Throw, run, RunInv, TypeOK, RunSelected, Preloaded, Clocked
<1>2. CASE UNCHANGED vars
  BY <1>2 DEF vars, RunInv, TypeOK, RunSelected, Preloaded, Clocked, Missed
<1> QED BY <1>1, <1>2

\* The trace comes to be.
LEMMA RunCollects == RunInv /\ (Collect \/ Collected \/ Hand) => RunInv'
<1> SUFFICES ASSUME RunInv, Collect \/ Collected \/ Hand PROVE RunInv'
  OBVIOUS
<1>1. /\ pc = "collect" /\ pc' \in {"collect", "ready"} /\ retained = <<>> /\ UNCHANGED run
      /\ TypeOK
  BY DEF Collect, Collecting, Collected, Hand, run, RunInv, RunSelected
<1>2. trace' \in Seq(Items) /\ memo' \subseteq Items
  <2>1. CASE Collect
    <3>1. PICK i, j, k \in Items : trace' = trace \o <<i, j, k>> /\ memo' = memo \union {i, j, k}
      BY <2>1 DEF Collect, Collecting
    <3>2. <<i, j, k>> \in Seq(Items) /\ trace \in Seq(Items) /\ memo \subseteq Items
      BY <1>1 DEF TypeOK
    <3> QED BY <3>1, <3>2
  <2>2. CASE Collected
    BY <1>1, <2>2 DEF Collected, TypeOK
  <2>3. CASE Hand
    BY <1>1, <2>3, RetentionAssumption DEF Hand, TypeOK, RetentionAssumption
  <2> QED BY <2>1, <2>2, <2>3
<1>3. retained' \in Seq(Range(trace'))
  BY <1>1 DEF run
<1>4. TypeOK'
  BY <1>1, <1>2, <1>3 DEF run, TypeOK
<1> QED BY <1>1, <1>4 DEF run, RunInv, RunSelected, Preloaded, Clocked

\* A run begins: its items are selected.
LEMMA RunBegins == RunInv /\ Run => RunInv'
<1> SUFFICES ASSUME RunInv, Run PROVE RunInv'
  OBVIOUS
<1>1. PICK m \in Modes, n \in 1 .. MaxIterations :
        /\ runs < MaxRuns /\ runs' = runs + 1 /\ mode' = m /\ iterations' = n
        /\ retained' = Selected(trace, m) /\ held' = {} /\ pass' = 0 /\ pos' = 1
        /\ touched' = 0 /\ misses' = 0 /\ derived' = 0 /\ result' = NoResult
        /\ pc' = "preload"
        /\ memo' = memo /\ trace' = trace
  BY DEF Run
<1>2. trace \in Seq(Items) /\ retained' \in Seq(Range(trace))
  BY <1>1, SelectedIs DEF RunInv, TypeOK
<1>3. NoResult \in [DOMAIN NoResult -> Nat]
  BY DEF NoResult
<1>4. n \in 0 .. MaxIterations /\ runs' \in 0 .. MaxRuns
  BY <1>1, RetentionAssumption DEF RetentionAssumption, RunInv, TypeOK
<1>5. TypeOK'
  BY <1>1, <1>2, <1>3, <1>4 DEF RunInv, TypeOK
<1>6. RunSelected'
  BY <1>1 DEF RunSelected
<1>7. Preloaded'
  <2>1. Len(retained') \in Nat
    BY <1>2
  <2>2. held' = {retained'[q] : q \in 1 .. pos' - 1} /\ pos' <= Len(retained') + 1
    BY <1>1, <2>1
  <2> QED BY <1>1, <2>2 DEF Preloaded
<1> QED BY <1>1, <1>5, <1>6, <1>7 DEF RunInv, Clocked

\* The retained items are loaded.
LEMMA RunLoads == RunInv /\ (Preload \/ StartClock) => RunInv'
<1> SUFFICES ASSUME RunInv, Preload \/ StartClock PROVE RunInv'
  OBVIOUS
<1>1. /\ TypeOK /\ RunSelected /\ Preloaded /\ Clocked /\ pc = "preload"
      /\ pass = 0 /\ touched = 0 /\ misses = 0 /\ derived = 0
      /\ Len(retained) \in Nat /\ Len(trace) \in Nat
      /\ Range(trace) \subseteq Items /\ DOMAIN retained = 1 .. Len(retained) /\ pos \in Nat \ {0}
  BY TraceIs DEF RunInv, Preload, StartClock, StartAfter, TypeOK, Preloaded
<1>2. CASE Preload
  <2>1. /\ pos \in 1 .. Len(retained) /\ mode # "compressed"
        /\ held' = held \union {retained[pos]} /\ memo' = memo \union {retained[pos]} /\ pos' = pos + 1
        /\ UNCHANGED <<trace, mode, iterations, retained, pc, pass, touched, misses, derived,
                       runs, result>>
    BY <1>1, <1>2 DEF Preload
  <2>2. retained[pos] \in Range(trace)
    BY <1>1, <2>1 DEF TypeOK
  <2>3. TypeOK'
    BY <1>1, <2>1, <2>2 DEF TypeOK
  <2>4. held' = {retained[q] : q \in 1 .. pos' - 1}
    <3>1. held = {retained[q] : q \in 1 .. pos - 1}
      BY <1>1, <2>1 DEF Preloaded
    <3>2. 1 .. pos' - 1 = (1 .. pos - 1) \union {pos}
      BY <1>1, <2>1
    <3> QED BY <2>1, <3>1, <3>2
  <2>5. pos' <= Len(retained) + 1
    BY <1>1, <2>1
  <2>6. Preloaded'
    BY <1>1, <2>1, <2>4, <2>5 DEF Preloaded
  <2> QED BY <1>1, <2>1, <2>3, <2>6 DEF RunInv, RunSelected, Clocked
<1>3. CASE StartClock
  <2>1. /\ (mode = "compressed" \/ pos > Len(retained)) /\ pc' = "timed" /\ pos' = 1
        /\ UNCHANGED <<memo, trace, mode, iterations, retained, held, pass, touched, misses, derived,
                       runs, result>>
    BY <1>3 DEF StartClock, StartAfter
  <2>2. TypeOK'
    BY <1>1, <2>1 DEF TypeOK
  <2>3. mode # "compressed" => held = Range(retained)
    <3> SUFFICES ASSUME mode # "compressed" PROVE held = Range(retained)
      OBVIOUS
    <3>1. pos <= Len(retained) + 1 /\ held = {retained[q] : q \in 1 .. pos - 1} /\ pos > Len(retained)
      BY <1>1, <2>1 DEF Preloaded
    <3>2. 1 .. pos - 1 = DOMAIN retained
      BY <1>1, <3>1
    <3> QED BY <3>1, <3>2 DEF Range
  <2>4. Preloaded'
    BY <1>1, <2>1, <2>3 DEF Preloaded
  <2>5. Clocked'
    <3>1. /\ Missed(pos - 1)' = Missed(0) /\ Missed(Len(trace))' = Missed(Len(trace))
          /\ pos' - 1 = 0 /\ pos' = 1 /\ pass' = 0 /\ touched' = 0 /\ misses' = 0
          /\ Len(trace)' = Len(trace) /\ pc' = "timed"
      BY <1>1, <2>1 DEF Missed
    <3>2. Cardinality(Missed(Len(trace))) \in Nat /\ Cardinality(Missed(0)) = 0
      BY <1>1, MissedIs, FS_EmptySet
    <3>3. 0 = 0 * Len(trace) + 0 /\ 1 <= Len(trace) + 1
      BY <1>1
    <3>4. 0 = 0 * Cardinality(Missed(Len(trace))) + Cardinality(Missed(0))
      BY <3>2
    <3> QED BY <3>1, <3>3, <3>4 DEF Clocked
  <2> QED BY <1>1, <2>1, <2>2, <2>4, <2>5 DEF RunInv, RunSelected
<1> QED BY <1>2, <1>3

\* The trace is replayed against the clock.
LEMMA RunTouches == RunInv /\ (Access \/ NextPass) => RunInv'
<1> SUFFICES ASSUME RunInv, Access \/ NextPass PROVE RunInv'
  OBVIOUS
<1> DEFINE n == Len(trace)  all == Cardinality(Missed(n))  now == Cardinality(Missed(pos - 1))
<1>1. /\ TypeOK /\ RunSelected /\ Preloaded /\ pc = "timed" /\ pass \in Nat /\ pass < iterations
      /\ iterations \in Nat /\ n \in Nat /\ DOMAIN trace = 1 .. n /\ Range(trace) \subseteq Items
      /\ pos \in 1 .. n + 1 /\ touched = pass * n + (pos - 1) /\ misses = pass * all + now
      /\ UNCHANGED <<trace, mode, iterations, retained, held, pc, runs, result>>
  BY TraceIs DEF RunInv, Access, Touching, NextPass, TypeOK, Clocked
<1>2. all \in Nat /\ now \in Nat /\ pos - 1 \in Nat /\ pos \in Nat
  <2>1. n \in Nat /\ pos - 1 \in Nat
    BY <1>1
  <2> HIDE DEF n
  <2> QED BY <1>1, <2>1, MissedIs
<1>3. Missed(Len(trace))' = Missed(n) /\ Missed(pos - 1)' = Missed(pos' - 1) /\ Len(trace)' = n
  BY <1>1 DEF Missed
<1>4. CASE Access
  <2>1. pos \in 1 .. n /\ pos' = pos + 1 /\ pass' = pass
    BY <1>1, <1>4 DEF Access, Touching
  <2>2. trace[pos] \in Range(trace)
    BY <1>1, <2>1 DEF Range
  <2>3. /\ touched' = touched + 1 /\ memo' \subseteq Items
        /\ misses' = IF mode = "compressed" \/ trace[pos] \notin Range(retained)
                     THEN misses + 1 ELSE misses
        /\ derived' = derived \/ (derived' = derived + 1 /\ misses' = misses + 1)
    BY <1>1, <1>4, <2>2 DEF Access, Touching, Preloaded, TypeOK
  <2>4. /\ touched \in Nat /\ misses \in 0 .. touched /\ derived \in 0 .. misses
    BY <1>1 DEF TypeOK
  <2>5. /\ misses' \in 0 .. touched' /\ touched' \in Nat /\ pos' \in Nat \ {0}
        /\ derived' \in 0 .. misses'
    BY <1>2, <2>1, <2>3, <2>4
  <2>6. TypeOK'
    BY <1>1, <2>1, <2>3, <2>5 DEF TypeOK
  <2>7. (pos - 1) + 1 = pos /\ pos' - 1 = pos
    BY <1>2, <2>1
  <2>8. Cardinality(Missed(pos)) = IF mode = "compressed" \/ trace[pos] \notin Range(retained)
                                   THEN now + 1 ELSE now
    BY <1>2, <2>7, MissedIs
  <2> HIDE DEF n, all, now
  <2>9. misses' = pass * all + Cardinality(Missed(pos))
    BY <1>1, <1>2, <2>3, <2>8
  <2>10. touched' = pass * n + pos /\ pos' <= n + 1
    BY <1>1, <1>2, <2>1, <2>3
  <2>11. Clocked'
    BY <1>1, <1>3, <2>1, <2>7, <2>9, <2>10 DEF Clocked, all, n
  <2> QED BY <1>1, <2>6, <2>11 DEF RunInv, RunSelected, Preloaded
<1>5. CASE NextPass
  <2>1. /\ pos = n + 1 /\ pass' = pass + 1 /\ pos' = 1 /\ memo' = memo
        /\ touched' = touched /\ misses' = misses /\ derived' = derived
    BY <1>1, <1>5 DEF NextPass
  <2>2. pass' \in 0 .. iterations
    BY <1>1, <2>1
  <2>3. TypeOK'
    BY <1>1, <2>1, <2>2 DEF TypeOK
  <2>4. pos - 1 = n /\ pos' - 1 = 0
    BY <1>1, <2>1
  <2>5. now = all /\ Cardinality(Missed(0)) = 0
    BY <2>4, MissedIs, FS_EmptySet
  <2> HIDE DEF n, all, now
  <2>6. touched' = pass' * n + 0 /\ misses' = pass' * all + 0 /\ 1 <= n + 1
    <3>1. (pass + 1) * n = pass * n + n /\ (pass + 1) * all = pass * all + all
      BY <1>1, <1>2
    <3>2. pass * n \in Nat /\ pass * all \in Nat
      BY <1>1, <1>2
    <3> QED BY <1>1, <1>2, <2>1, <2>4, <2>5, <3>1, <3>2
  <2>7. Clocked'
    BY <1>1, <1>3, <2>1, <2>4, <2>5, <2>6 DEF Clocked, all, n
  <2> QED BY <1>1, <2>3, <2>7 DEF RunInv, RunSelected, Preloaded
<1> QED BY <1>4, <1>5

\* The clock is read.
LEMMA RunReports == RunInv /\ Report => RunInv'
<1> SUFFICES ASSUME RunInv, Report PROVE RunInv'
  OBVIOUS
<1> DEFINE all == Cardinality(Missed(Len(trace)))
<1>1. /\ TypeOK /\ RunSelected /\ pc = "timed" /\ pc' = "reported" /\ pass = iterations /\ pos = 1
      /\ touched = pass * Len(trace) + (pos - 1)
      /\ misses = pass * all + Cardinality(Missed(pos - 1))
      /\ UNCHANGED <<memo, trace, mode, iterations, retained, held, pass, pos, touched, misses,
                     derived, runs>>
      /\ result' = [trace_accesses |-> Len(trace), unique_items |-> Cardinality(Range(trace)),
                    retained_items |-> Len(retained), resident_items |-> Len(retained)]
  BY DEF RunInv, Report, Clocked
<1>2. Len(trace) \in Nat /\ Len(retained) \in Nat /\ Cardinality(Range(trace)) \in Nat
  BY <1>1, TraceIs, FS_CardinalityType DEF TypeOK
<1>3. result' \in [DOMAIN NoResult -> Nat]
  BY <1>1, <1>2 DEF NoResult
<1>4. TypeOK'
  BY <1>1, <1>3 DEF TypeOK
<1>5. all \in Nat /\ Cardinality(Missed(pos - 1)) = 0 /\ pos - 1 = 0 /\ pass \in Nat
  BY <1>1, <1>2, MissedIs, FS_EmptySet DEF TypeOK
<1>6. Missed(Len(trace))' = Missed(Len(trace))
  BY <1>1 DEF Missed
<1> HIDE DEF all
<1>7. touched' = iterations' * Len(trace)' /\ misses' = iterations' * all
  BY <1>1, <1>2, <1>5
<1>8. result'.trace_accesses = Len(trace)'
  BY <1>1
<1>9. Clocked'
  BY <1>1, <1>6, <1>7, <1>8 DEF Clocked, all
<1> QED BY <1>1, <1>4, <1>9 DEF RunInv, RunSelected, Preloaded

LEMMA RunKeeps == RunInv /\ (Next \/ Throw \/ UNCHANGED vars) => RunInv'
<1>1. Reject \/ OutOfMemory => Throw
  BY DEF Reject, OutOfMemory, Throw
<1> QED BY <1>1, RunSame, RunCollects, RunBegins, RunLoads, RunTouches, RunReports DEF Next

\* What a run keeps and what its clock shows follow from where it is.
LEMMA RunShows == RunInv => HottestKept /\ ClockedExactly
<1> SUFFICES ASSUME RunInv PROVE HottestKept /\ ClockedExactly
  OBVIOUS
<1>1. TypeOK /\ trace \in Seq(Items) /\ mode \in Modes /\ DOMAIN trace = 1 .. Len(trace)
  BY TraceIs DEF RunInv, TypeOK
<1>2. HottestKept
  <2> SUFFICES ASSUME pc \in {"preload", "timed", "reported"}, mode \in DOMAIN Shares
               PROVE  /\ IsInjective(retained)
                      /\ trace # <<>> => Len(retained) = RetainCount(trace, mode)
                      /\ \A i \in Range(retained), j \in Range(trace) \ Range(retained) :
                           Count(trace, i) >= Count(trace, j)
    BY DEF HottestKept
  <2>1. retained = Selected(trace, mode)
    BY DEF RunInv, RunSelected
  <2> QED BY <1>1, <2>1, PartIs
<1>3. ClockedExactly
  <2> SUFFICES ASSUME pc = "reported"
               PROVE  /\ touched = result.trace_accesses * iterations
                      /\ misses = iterations * Cardinality({p \in DOMAIN trace :
                           mode = "compressed" \/ trace[p] \notin Range(retained)})
                      /\ mode = "full" => misses = 0
    BY DEF ClockedExactly
  <2> DEFINE all == Missed(Len(trace))
  <2>1. /\ result.trace_accesses = Len(trace) /\ touched = iterations * Len(trace)
        /\ misses = iterations * Cardinality(all) /\ iterations \in Nat /\ Len(trace) \in Nat
    BY <1>1 DEF RunInv, Clocked, TypeOK
  <2>2. all = {p \in DOMAIN trace : mode = "compressed" \/ trace[p] \notin Range(retained)}
    BY <1>1 DEF Missed
  <2>3. mode = "full" => all = {}
    <3> SUFFICES ASSUME mode = "full" PROVE all = {}
      OBVIOUS
    <3>1. Range(retained) = Range(trace)
      BY <1>1, SelectedIs DEF RunInv, RunSelected
    <3>2. \A p \in DOMAIN trace : trace[p] \in Range(trace)
      BY DEF Range
    <3> QED BY <2>2, <3>1, <3>2
  <2>4. Cardinality({}) = 0
    BY FS_EmptySet
  <2> HIDE DEF all
  <2>5. touched = result.trace_accesses * iterations
    BY <2>1
  <2>6. mode = "full" => misses = 0
    <3> SUFFICES ASSUME mode = "full" PROVE misses = 0
      OBVIOUS
    <3>1. Cardinality(all) = 0
      BY <2>3, <2>4
    <3>2. misses = iterations * 0
      BY <2>1, <3>1
    <3> QED BY <2>1, <3>2
  <2> QED BY <2>1, <2>2, <2>5, <2>6
<1> QED BY <1>2, <1>3

-----------------------------------------------------------------------------
(* What the memo spares a clock. *)

\* The strengthening: the memo has the trace if the program collected it or ran
\* it before, ...
Known ==
  /\ pc \in {"collect", "ready"} => runs = 0
  /\ pc \in {"collect", "reported"} => Range(trace) \subseteq memo
  /\ trace \in Handed \/ Range(trace) \subseteq memo
  /\ pc \in {"preload", "timed", "reported"} => runs = 1 \/ Range(trace) \subseteq memo

\* ... and in a run what was loaded and what was accessed, ...
Kept ==
  /\ pc \in {"preload", "timed"} => iterations > 0 /\ held \subseteq memo
  /\ pc = "timed" =>
       /\ pass > 0 => Range(trace) \subseteq memo
       /\ \A p \in 1 .. pos - 1 : trace[p] \in memo

\* ... so an item that was derived has come to stay.
Unretained == {i \in Range(trace) : mode = "compressed" \/ i \notin Range(retained)}

Derived ==
  pc \in {"timed", "reported"} =>
    /\ derived <= Cardinality(Unretained \intersect memo)
    /\ derived > 0 => trace \in Handed /\ runs = 1

WarmInv == Known /\ Kept /\ Derived

LEMMA WarmInit == Init => WarmInv
<1> SUFFICES ASSUME Init PROVE WarmInv
  OBVIOUS
<1>1. Range(trace) \subseteq memo
  BY DEF Init, Range
<1> QED BY <1>1 DEF Init, WarmInv, Known, Kept, Derived

\* The finite part of them that the memo has.
LEMMA UnretainedIs ==
  ASSUME RunInv, NEW M
  PROVE  IsFiniteSet(Unretained \intersect M) /\ Cardinality(Unretained \intersect M) \in Nat
<1>1. IsFiniteSet(Range(trace)) /\ Unretained \intersect M \in SUBSET Range(trace)
  BY TraceIs DEF RunInv, TypeOK, Unretained
<1> QED BY <1>1, FS_Subset, FS_CardinalityType

\* A run that fails, and a step that leaves it alone.
LEMMA WarmSame == WarmInv /\ (Throw \/ UNCHANGED vars) => WarmInv'
  BY DEF Throw, run, vars, WarmInv, Known, Kept, Derived, Unretained

LEMMA WarmCollects == RunInv /\ WarmInv /\ (Collect \/ Collected \/ Hand) => WarmInv'
<1> SUFFICES ASSUME RunInv, WarmInv, Collect \/ Collected \/ Hand PROVE WarmInv'
  OBVIOUS
<1>1. /\ pc = "collect" /\ pc' \in {"collect", "ready"} /\ runs' = runs /\ runs = 0
      /\ Range(trace) \subseteq memo
  BY DEF Collect, Collecting, Collected, Hand, run, WarmInv, Known
<1>2. /\ pc' = "collect" => Range(trace') \subseteq memo'
      /\ trace' \in Handed \/ Range(trace') \subseteq memo'
  <2>1. CASE Collect
    <3>1. PICK i, j, k \in Items : trace' = trace \o <<i, j, k>> /\ memo' = memo \union {i, j, k}
      BY <2>1 DEF Collect, Collecting
    <3>2. <<i, j, k>> \in Seq(Items) /\ trace \in Seq(Items)
      BY DEF RunInv, TypeOK
    <3>3. Range(trace') \subseteq memo'
      BY <1>1, <3>1, <3>2 DEF Range
    <3> QED BY <3>3
  <2>2. CASE Collected
    BY <1>1, <2>2 DEF Collected
  <2>3. CASE Hand
    BY <2>3 DEF Hand
  <2> QED BY <2>1, <2>2, <2>3
<1> QED BY <1>1, <1>2 DEF WarmInv, Known, Kept, Derived

LEMMA WarmBegins == RunInv /\ WarmInv /\ Run => WarmInv'
<1> SUFFICES ASSUME RunInv, WarmInv, Run PROVE WarmInv'
  OBVIOUS
<1>1. /\ pc \in {"ready", "reported"} /\ pc' = "preload" /\ runs' = runs + 1
      /\ iterations' \in 1 .. MaxIterations /\ held' = {} /\ UNCHANGED <<memo, trace>>
  BY DEF Run
<1>2. runs' = 1 \/ Range(trace) \subseteq memo
  BY <1>1 DEF WarmInv, Known
<1>3. iterations' > 0
  BY <1>1
<1> QED BY <1>1, <1>2, <1>3 DEF WarmInv, Known, Kept, Derived

LEMMA WarmLoads == RunInv /\ WarmInv /\ (Preload \/ StartClock) => WarmInv'
<1> SUFFICES ASSUME RunInv, WarmInv, Preload \/ StartClock PROVE WarmInv'
  OBVIOUS
<1>1. /\ pc = "preload" /\ derived = 0 /\ pass = 0
      /\ UNCHANGED <<trace, mode, iterations, retained, pass, derived, runs>>
  BY DEF RunInv, Preloaded, Preload, StartClock, StartAfter
<1>2. CASE Preload
  BY <1>1, <1>2 DEF Preload, WarmInv, Known, Kept, Derived
<1>3. CASE StartClock
  <2>1. pc' = "timed" /\ pos' = 1 /\ UNCHANGED <<held, memo>>
    BY <1>3 DEF StartClock, StartAfter
  <2>2. Cardinality(Unretained \intersect memo) \in Nat
    BY UnretainedIs
  <2>3. (Unretained \intersect memo)' = Unretained \intersect memo
    BY <1>1, <2>1 DEF Unretained
  <2>4. Known' /\ Kept'
    BY <1>1, <2>1 DEF WarmInv, Known, Kept
  <2>5. 0 <= Cardinality(Unretained \intersect memo) /\ ~(derived > 0)
    BY <1>1, <2>2
  <2>6. Derived'
    BY <1>1, <2>1, <2>3, <2>5 DEF Derived
  <2> QED BY <2>4, <2>6 DEF WarmInv
<1> QED BY <1>2, <1>3

\* An access derives an item only if the memo never had it.
LEMMA WarmTouches == RunInv /\ WarmInv /\ Access => WarmInv'
<1> SUFFICES ASSUME RunInv, WarmInv, Access PROVE WarmInv'
  OBVIOUS
<1> DEFINE i == trace[pos]  D == Unretained \intersect memo
<1>1. /\ TypeOK /\ pc = "timed" /\ pos \in 1 .. Len(trace) /\ pos' = pos + 1
      /\ UNCHANGED <<trace, mode, iterations, retained, held, pc, pass, runs>>
      /\ pc' = "timed" /\ DOMAIN trace = 1 .. Len(trace) /\ Len(trace) \in Nat
  BY TraceIs DEF RunInv, TypeOK, Access, Touching
<1>2. i \in Range(trace)
  BY <1>1 DEF Range
<1>3. memo \subseteq memo' /\ i \in memo'
  BY <1>1 DEF Access, Touching, WarmInv, Kept
<1>4. Known'
  BY <1>1, <1>3 DEF WarmInv, Known
<1>5. \A p \in 1 .. pos' - 1 : trace[p] \in memo'
  <2>1. 1 .. pos' - 1 = (1 .. pos - 1) \union {pos}
    BY <1>1
  <2>2. \A p \in 1 .. pos - 1 : trace[p] \in memo
    BY <1>1 DEF WarmInv, Kept
  <2> QED BY <1>3, <2>1, <2>2
<1>6. Kept'
  BY <1>1, <1>3, <1>5 DEF WarmInv, Kept
<1>7. Unretained' = Unretained
  BY <1>1 DEF Unretained
<1>8. derived \in Nat /\ IsFiniteSet(D) /\ Cardinality(D) \in Nat /\ derived <= Cardinality(D)
  <2>1. derived \in Nat
    BY <1>1 DEF TypeOK
  <2> QED BY <1>1, <2>1, UnretainedIs DEF WarmInv, Derived
<1>9. derived > 0 => trace \in Handed /\ runs = 1
  BY <1>1 DEF WarmInv, Derived
<1>10. CASE derived' = derived
  <2>1. D \in SUBSET (Unretained \intersect memo') /\ IsFiniteSet(Unretained \intersect memo')
    BY <1>3, UnretainedIs
  <2>2. Cardinality(D) <= Cardinality(Unretained \intersect memo')
    BY <2>1, FS_Subset
  <2>3. Cardinality(Unretained \intersect memo') \in Nat
    BY UnretainedIs
  <2> HIDE DEF D
  <2>4. derived' <= Cardinality(Unretained \intersect memo')
    BY <1>8, <1>10, <2>2, <2>3
  <2>5. Derived'
    BY <1>1, <1>7, <1>9, <1>10, <2>4 DEF Derived
  <2> QED BY <1>4, <1>6, <2>5 DEF WarmInv
<1>11. CASE derived' # derived
  <2>1. /\ derived' = derived + 1 /\ i \notin memo /\ memo' = memo \union {i}
        /\ mode = "compressed" \/ i \notin held
    BY <1>1, <1>11 DEF Access, Touching
  <2>2. i \in Unretained
    BY <1>1, <1>2, <2>1 DEF Unretained, RunInv, Preloaded
  <2>3. Unretained \intersect memo' = D \union {i} /\ i \notin D
    BY <2>1, <2>2
  <2>4. Cardinality(Unretained \intersect memo') = Cardinality(D) + 1
    BY <1>8, <2>3, FS_AddElement
  <2>5. trace \in Handed /\ runs = 1
    BY <1>1, <1>2, <2>1 DEF WarmInv, Known
  <2> HIDE DEF D
  <2>6. derived' <= Cardinality(Unretained \intersect memo')
    BY <1>8, <2>1, <2>4
  <2>7. Derived'
    BY <1>1, <1>7, <2>5, <2>6 DEF Derived
  <2> QED BY <1>4, <1>6, <2>7 DEF WarmInv
<1> QED BY <1>10, <1>11

LEMMA WarmPasses == RunInv /\ WarmInv /\ (NextPass \/ Report) => WarmInv'
<1> SUFFICES ASSUME RunInv, WarmInv, NextPass \/ Report PROVE WarmInv'
  OBVIOUS
<1>1. /\ pc = "timed" /\ pc' \in {"timed", "reported"}
      /\ UNCHANGED <<memo, trace, mode, iterations, retained, held, derived, runs>>
  BY DEF NextPass, Report
<1>2. /\ trace \in Seq(Items) /\ DOMAIN trace = 1 .. Len(trace) /\ Len(trace) \in Nat
      /\ pass \in Nat /\ pos \in Nat /\ iterations \in Nat
  BY TraceIs DEF RunInv, TypeOK
<1>3. Range(trace) \subseteq memo
  <2>1. CASE NextPass
    <3>1. DOMAIN trace \subseteq 1 .. pos - 1
      BY <1>2, <2>1 DEF NextPass
    <3>2. \A p \in DOMAIN trace : trace[p] \in memo
      BY <1>1, <3>1 DEF WarmInv, Kept
    <3> QED BY <3>2 DEF Range
  <2>2. CASE Report
    BY <1>1, <1>2, <2>2 DEF Report, WarmInv, Kept
  <2> QED BY <2>1, <2>2
<1>4. pc' = "timed" => pos' = 1
  BY DEF NextPass, Report
<1>5. Known' /\ Kept'
  BY <1>1, <1>3, <1>4 DEF WarmInv, Known, Kept
<1>6. (Unretained \intersect memo)' = Unretained \intersect memo
  BY <1>1 DEF Unretained
<1>7. Derived'
  BY <1>1, <1>6 DEF WarmInv, Derived
<1> QED BY <1>5, <1>7 DEF WarmInv

LEMMA WarmKeeps == RunInv /\ WarmInv /\ (Next \/ Throw \/ UNCHANGED vars) => WarmInv'
<1>1. Reject \/ OutOfMemory => Throw
  BY DEF Reject, OutOfMemory, Throw
<1> QED BY <1>1, WarmSame, WarmCollects, WarmBegins, WarmLoads, WarmTouches, WarmPasses DEF Next

-----------------------------------------------------------------------------
(* The other benchmarks. *)

\* The strengthening: what a call holds and what its clock has seen, by its place.
CallInv ==
  /\ call \in {"input", "verify", "rebuild", "rebuilt"} =>
       wanted \in 1 .. MaxIterations /\ done \in 0 .. wanted
  /\ call = "input" => done = 0 /\ caches = 0 /\ built = 0 /\ verified = 0
  /\ call = "verify" => caches = 1 /\ built = 0 /\ verified = done
  /\ call = "rebuild" => caches = 0 /\ built = done /\ verified = 0
  /\ call = "rebuilt" => done < wanted /\ caches = 1 /\ built = done + 1 /\ verified = 0
  /\ call = "none" => caches = 0
  /\ CallsClockedExactly

\* The rest of the types, of what is not a retention run's.
CallsTyped ==
  /\ call \in {"none", "input", "verify", "rebuild", "rebuilt"}
  /\ target \in Targets
  /\ wanted \in 0 .. MaxIterations /\ done \in 0 .. wanted
  /\ caches \in Nat /\ built \in 0 .. wanted /\ verified \in 0 .. wanted
  /\ calls \in 0 .. MaxCalls
  /\ report \in [benchmark : {"none", "verifier", "cache_rebuild"}, iterations : 0 .. MaxIterations,
                 built : Nat, verified : Nat]

BenchInv == RunInv /\ CallsTyped /\ CallInv

LEMMA BenchInitInv == BenchInit => BenchInv
<1> SUFFICES ASSUME BenchInit PROVE BenchInv
  OBVIOUS
<1>1. CallsTyped
  BY BenchmarksAssumption, RetentionAssumption
  DEF BenchInit, CallsTyped, Targets, NoReport, BenchmarksAssumption, RetentionAssumption
<1>2. CallInv
  BY DEF BenchInit, CallInv, NoReport, CallsClockedExactly
<1> QED BY <1>1, <1>2, RunInit DEF BenchInit, BenchInv

\* A step of a call leaves the retention run alone or ends the program.
LEMMA CallsApart ==
  BenchNext => (Retain /\ UNCHANGED bench_vars) \/ UNCHANGED vars \/ Throw
  BY DEF BenchNext, Retain, RejectCall, RunVerifier, Started, BuildInput, BuildCounting, Verify,
         ReportVerifier, Returned, RunRebuild, Rebuild, DropCache, Dropping, ReportRebuild, CallOutOfMemory

\* A call is made.
LEMMA CallBegins ==
  CallsTyped /\ CallInv /\ (RejectCall \/ RunVerifier \/ RunRebuild) => CallsTyped' /\ CallInv'
<1> SUFFICES ASSUME CallsTyped, CallInv, RejectCall \/ RunVerifier \/ RunRebuild
             PROVE  CallsTyped' /\ CallInv'
  OBVIOUS
<1>1. CASE RejectCall
  BY <1>1 DEF RejectCall, bench_vars, CallsTyped, CallInv, CallsClockedExactly
<1>2. CASE RunVerifier \/ RunRebuild
  <2>1. PICK n \in 1 .. MaxIterations, c \in {"input", "rebuild"} : Between /\ Started(c, n)
    BY <1>2 DEF RunVerifier, RunRebuild
  <2>2. /\ call = "none" /\ calls < MaxCalls /\ call' = c /\ wanted' = n /\ done' = 0 /\ built' = 0
        /\ verified' = 0 /\ calls' = calls + 1 /\ report' = NoReport /\ caches' = 0
    BY <2>1 DEF Between, Started, CallInv
  <2>3. target' \in Targets
    BY <1>2 DEF RunVerifier, RunRebuild, CallsTyped
  <2>4. n \in 0 .. MaxIterations /\ calls' \in 0 .. MaxCalls /\ 0 \in 0 .. n /\ MaxIterations \in Nat
    BY <2>2, BenchmarksAssumption, RetentionAssumption
    DEF CallsTyped, BenchmarksAssumption, RetentionAssumption
  <2>5. NoReport \in [benchmark : {"none", "verifier", "cache_rebuild"},
                      iterations : 0 .. MaxIterations, built : Nat, verified : Nat]
    BY <2>4 DEF NoReport
  <2>6. CallsTyped'
    BY <2>2, <2>3, <2>4, <2>5 DEF CallsTyped
  <2>7. CallInv'
    BY <2>2, <2>4 DEF CallInv, CallsClockedExactly, NoReport
  <2> QED BY <2>6, <2>7
<1> QED BY <1>1, <1>2

\* A call goes on, or fails.
LEMMA CallGoesOn ==
  CallsTyped /\ CallInv /\ (BuildInput \/ Verify \/ Rebuild \/ DropCache \/ CallOutOfMemory)
    => CallsTyped' /\ CallInv'
<1> SUFFICES ASSUME CallsTyped, CallInv,
                    BuildInput \/ Verify \/ Rebuild \/ DropCache \/ CallOutOfMemory
             PROVE  CallsTyped' /\ CallInv'
  OBVIOUS
<1>1. /\ wanted' = wanted /\ calls' = calls /\ report' = report /\ target' = target
      /\ CallsClockedExactly'
  BY DEF BuildInput, BuildCounting, Verify, Rebuild, DropCache, Dropping, CallOutOfMemory,
         CallInv, CallsClockedExactly
<1>2. CASE BuildInput
  BY <1>1, <1>2 DEF BuildInput, BuildCounting, CallsTyped, CallInv
<1>3. CASE Verify
  BY <1>1, <1>3 DEF Verify, CallsTyped, CallInv
<1>4. CASE Rebuild
  BY <1>1, <1>4 DEF Rebuild, CallsTyped, CallInv
<1>5. CASE DropCache
  BY <1>1, <1>5 DEF DropCache, Dropping, CallsTyped, CallInv
<1>6. CASE CallOutOfMemory
  BY <1>1, <1>6 DEF CallOutOfMemory, CallsTyped, CallInv
<1> QED BY <1>2, <1>3, <1>4, <1>5, <1>6

\* A call reports.
LEMMA CallReports ==
  CallsTyped /\ CallInv /\ (ReportVerifier \/ ReportRebuild) => CallsTyped' /\ CallInv'
<1> SUFFICES ASSUME CallsTyped, CallInv, ReportVerifier \/ ReportRebuild
             PROVE  CallsTyped' /\ CallInv'
  OBVIOUS
<1>1. PICK name \in {"verifier", "cache_rebuild"} :
        /\ Returned(name)
        /\ name = "verifier" => call = "verify"
        /\ name = "cache_rebuild" => call = "rebuild"
  BY DEF ReportVerifier, ReportRebuild
<1>2. /\ done = wanted /\ call' = "none" /\ caches' = 0
      /\ report' = [benchmark |-> name, iterations |-> wanted, built |-> built, verified |-> verified]
      /\ UNCHANGED <<target, wanted, done, built, verified, calls>>
  BY <1>1 DEF Returned
<1>3. /\ wanted \in 0 .. MaxIterations /\ built \in Nat /\ verified \in Nat
      /\ name = "verifier" => built = 0 /\ verified = wanted
      /\ name = "cache_rebuild" => built = wanted /\ verified = 0
  BY <1>1, <1>2 DEF CallInv, CallsTyped
<1>4. report' \in [benchmark : {"none", "verifier", "cache_rebuild"}, iterations : 0 .. MaxIterations,
                   built : Nat, verified : Nat]
  BY <1>2, <1>3
<1>5. CallsTyped'
  BY <1>2, <1>4 DEF CallsTyped
<1>6. CallsClockedExactly'
  BY <1>2, <1>3 DEF CallsClockedExactly
<1> QED BY <1>2, <1>5, <1>6 DEF CallInv

LEMMA BenchInductive == BenchSpec => []BenchInv
<1>1. BenchInv /\ [BenchNext]_all_vars => BenchInv'
  <2> SUFFICES ASSUME BenchInv, [BenchNext]_all_vars PROVE BenchInv'
    OBVIOUS
  <2>1. RunInv'
    BY CallsApart, RunKeeps DEF BenchInv, Retain, all_vars
  <2>2. CASE UNCHANGED bench_vars
    BY <2>1, <2>2 DEF bench_vars, BenchInv, CallsTyped, CallInv, CallsClockedExactly
  <2> QED BY <2>1, <2>2, CallBegins, CallGoesOn, CallReports DEF BenchInv, BenchNext, Retain, all_vars
<1> QED BY <1>1, BenchInitInv, PTL DEF BenchSpec

\* Every variable of the three benchmarks has the type the code gives it.
THEOREM TypeCorrect == BenchSpec => []BenchTypeOK
<1>1. BenchInv => BenchTypeOK
  BY DEF BenchInv, RunInv, CallsTyped, BenchTypeOK
<1> QED BY <1>1, BenchInductive, PTL

\* A partial retention keeps its share of the distinct items, each once, and no
\* item it leaves out is accessed more often than one it keeps.
THEOREM HottestAreKept == BenchSpec => []HottestKept
  BY RunShows, BenchInductive, PTL DEF BenchInv

\* A retention run's clock has seen every access of every iteration, and get_item
\* for exactly those to an item that is not retained.
THEOREM RunsAreClockedExactly == BenchSpec => []ClockedExactly
  BY RunShows, BenchInductive, PTL DEF BenchInv

\* What is derived under a retention run's clock is an item that no collection,
\* run or iteration of the program asked for before.
THEOREM ItemsAreDerivedOnce == BenchSpec => []DerivedOnce
<1>1. BenchInit => WarmInv
  BY WarmInit DEF BenchInit
<1>2. BenchInv /\ WarmInv /\ [BenchNext]_all_vars => WarmInv'
  BY CallsApart, WarmKeeps DEF BenchInv, Retain, all_vars
<1>3. BenchInv /\ WarmInv => DerivedOnce
  <2> SUFFICES ASSUME BenchInv, WarmInv, pc = "reported"
               PROVE  /\ derived > 0 => trace \in Handed /\ runs = 1
                      /\ derived <= Cardinality(Unretained)
    BY DEF DerivedOnce, Unretained
  <2>1. Unretained \intersect memo = Unretained
    BY DEF WarmInv, Known, Unretained
  <2> QED BY <2>1 DEF WarmInv, Derived
<1> QED BY <1>1, <1>2, <1>3, BenchInductive, PTL DEF BenchSpec

\* A verifier's clock has seen verifications alone and a rebuild's caches alone,
\* as many as the iterations reported.
THEOREM CallsAreClockedExactly == BenchSpec => []CallsClockedExactly
  BY BenchInductive, PTL DEF BenchInv, CallInv

\* A call holds one cache at most, and a call that ends or throws none.
THEOREM OneCacheIsHeld == BenchSpec => []OneCacheHeld
<1>1. BenchInv => OneCacheHeld
  BY DEF BenchInv, CallsTyped, CallInv, OneCacheHeld
<1> QED BY <1>1, BenchInductive, PTL
==============================================================================
