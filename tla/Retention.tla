----------------------------- MODULE Retention -----------------------------
(***************************************************************************)
(* bench/bench_common.cpp: a benchmark program collects the trace of items *)
(* one nonce reads, picks the items to retain, loads them, and replays the *)
(* trace against a clock, asking get_item for what it did not retain.      *)
(* get_item keeps every item it is asked for in the memo of the process    *)
(* (Dataset); one profile and epoch seed are in use.                       *)
(***************************************************************************)
EXTENDS Integers, Sequences, FiniteSetsExt

CONSTANTS Items,           \* item indices
          Rounds,          \* lanes * rounds of the nonce collected
          Handed,          \* traces a test hands in
          MaxIterations,   \* bound: iterations asked for
          MaxRuns          \* bound: benchmark runs of one program

ASSUME RetentionAssumption ==
  /\ Items \subseteq Nat
  /\ Handed \subseteq Seq(Items)
  /\ Rounds \in Nat /\ MaxIterations \in Nat /\ MaxRuns \in Nat

Shares == [half |-> 2, quarter |-> 4, hotset_10 |-> 10, hotset_25 |-> 4]
Modes == {"full", "minimal", "compressed"} \union DOMAIN Shares

VARIABLES memo,       \* item indices the item memo holds
          trace,      \* what the program replays
          mode, iterations, retained,   \* of the run, retained_indices in order
          held,       \* item indices retained_items holds
          pc,         \* "collect", "ready", "preload", "timed", "reported" or "threw"
          pass, pos,  \* iterations done, and the place in the loop
          touched,    \* accesses since the clock started
          misses,     \* calls of get_item since the clock started
          derived,    \* those of them that did not find the item in the memo
          runs, result

vars == <<memo, trace, mode, iterations, retained, held, pc, pass, pos, touched, misses, derived,
          runs, result>>
run == <<mode, iterations, retained, held, pass, pos, touched, misses, derived, runs, result>>

NoResult == [trace_accesses |-> 0, unique_items |-> 0, retained_items |-> 0, resident_items |-> 0]

Count(tr, i) == Cardinality({p \in DOMAIN tr : tr[p] = i})

FirstAt(tr, i) == Min({p \in DOMAIN tr : tr[p] = i})

\* The members of S, the one that R puts after p - 1 others at place p.
Sorted(S, R) ==
  [p \in 1 .. Cardinality(S) |-> CHOOSE i \in S : Cardinality({j \in S : <<j, i>> \in R}) = p - 1]

FirstSeen(tr) ==
  Sorted(Range(tr), {q \in Range(tr) \X Range(tr) : FirstAt(tr, q[1]) < FirstAt(tr, q[2])})

\* Mutant: least accessed first.
ColdItems(tr) ==
  Sorted(Range(tr), {q \in Range(tr) \X Range(tr) :
    \/ Count(tr, q[1]) < Count(tr, q[2])
    \/ Count(tr, q[1]) = Count(tr, q[2]) /\ q[1] < q[2]})

\* Most accessed first, equal ones by index.
HotItems(tr) ==
  Sorted(Range(tr), {q \in Range(tr) \X Range(tr) :
    \/ Count(tr, q[1]) > Count(tr, q[2])
    \/ Count(tr, q[1]) = Count(tr, q[2]) /\ q[1] < q[2]})

RetainCount(tr, m) ==
  LET n == Cardinality(Range(tr)) \div Shares[m] IN IF n > 1 THEN n ELSE 1

Selected(tr, m) ==
  IF m = "minimal" THEN <<>>
  ELSE IF m \in {"full", "compressed"} THEN FirstSeen(tr)
  ELSE SubSeq(HotItems(tr), 1, Min({RetainCount(tr, m), Len(HotItems(tr))}))

Init ==
  /\ memo = {} /\ trace = <<>> /\ pc = "collect"
  /\ mode = "full" /\ iterations = 0 /\ retained = <<>> /\ held = {}
  /\ pass = 0 /\ pos = 1 /\ touched = 0 /\ misses = 0 /\ derived = 0
  /\ runs = 0 /\ result = NoResult

Collecting(memoizes) ==
  /\ pc = "collect" /\ Len(trace) < 3 * Rounds
  /\ \E i, j, k \in Items :
       /\ trace' = trace \o <<i, j, k>>
       /\ memo' = IF memoizes THEN memo \union {i, j, k} ELSE memo
  /\ UNCHANGED <<pc, run>>

\* Mutant: the round goes by the memo.
CollectPastMemo == Collecting(FALSE)

\* One round of collect_nonce_item_trace: execute_round gets three items.
Collect == Collecting(TRUE)

Collected ==
  /\ pc = "collect" /\ Len(trace) = 3 * Rounds
  /\ pc' = "ready"
  /\ UNCHANGED <<memo, trace, run>>

\* tests/test_benchmarks.cpp has a trace of its own.
Hand ==
  /\ pc = "collect" /\ trace = <<>>
  /\ trace' \in Handed
  /\ pc' = "ready"
  /\ UNCHANGED <<memo, run>>

\* run_retention_benchmark, which wants at least one iteration.
Reject ==
  /\ pc \in {"ready", "reported"} /\ runs < MaxRuns
  /\ pc' = "threw"
  /\ UNCHANGED <<memo, trace, run>>

Run == \E m \in Modes, n \in 1 .. MaxIterations :
  /\ pc \in {"ready", "reported"} /\ runs < MaxRuns
  /\ runs' = runs + 1
  /\ mode' = m /\ iterations' = n
  /\ retained' = Selected(trace, m) /\ held' = {}
  /\ pass' = 0 /\ pos' = 1 /\ touched' = 0 /\ misses' = 0 /\ derived' = 0
  /\ result' = NoResult
  /\ pc' = "preload"
  /\ UNCHANGED <<memo, trace>>

Preload ==
  /\ pc = "preload" /\ mode # "compressed" /\ pos <= Len(retained)
  /\ held' = held \union {retained[pos]}
  /\ memo' = memo \union {retained[pos]}
  /\ pos' = pos + 1
  /\ UNCHANGED <<trace, mode, iterations, retained, pc, pass, touched, misses, derived, runs, result>>

StartAfter(n) ==
  /\ pc = "preload" /\ (mode = "compressed" \/ pos > n)
  /\ pc' = "timed" /\ pos' = 1
  /\ UNCHANGED <<memo, trace, mode, iterations, retained, held, pass, touched, misses, derived,
                 runs, result>>

\* Mutant: the last retained item is not loaded.
StartClockEarly == StartAfter(Len(retained) - 1)

StartClock == StartAfter(Len(retained))

Touching(missed) ==
  LET i == trace[pos] IN
  /\ pc = "timed" /\ pass < iterations /\ pos <= Len(trace)
  /\ IF mode # "compressed" /\ i \in held
     THEN touched' = touched + 1 /\ UNCHANGED <<memo, misses, derived>>
     ELSE /\ memo' = memo \union {i}
          /\ misses' = misses + 1 /\ touched' = touched + missed
          /\ derived' = IF i \in memo THEN derived ELSE derived + 1
  /\ pos' = pos + 1
  /\ UNCHANGED <<trace, mode, iterations, retained, held, pc, pass, runs, result>>

\* Mutant: an item that was missed is not touched.
AccessUntouched == Touching(0)

Access == Touching(1)

NextPass ==
  /\ pc = "timed" /\ pass < iterations /\ pos > Len(trace)
  /\ pass' = pass + 1 /\ pos' = 1
  /\ UNCHANGED <<memo, trace, mode, iterations, retained, held, pc, touched, misses, derived,
                 runs, result>>

Report ==
  /\ pc = "timed" /\ pass = iterations
  /\ pc' = "reported"
  /\ result' = [trace_accesses |-> Len(trace), unique_items |-> Cardinality(Range(trace)),
                retained_items |-> Len(retained), resident_items |-> Len(retained)]
  /\ UNCHANGED <<memo, trace, mode, iterations, retained, held, pass, pos, touched, misses, derived,
                 runs>>

\* An allocation fails: nothing catches it, and the program ends.
OutOfMemory ==
  /\ pc \in {"collect", "preload", "timed"}
  /\ pc' = "threw"
  /\ UNCHANGED <<memo, trace, run>>

Next ==
  \/ Collect \/ Collected \/ Hand \/ Reject \/ Run \/ Preload \/ StartClock \/ Access
  \/ NextPass \/ Report \/ OutOfMemory

Spec == Init /\ [][Next]_vars

----------------------------------------------------------------------------
(* Properties *)

TypeOK ==
  /\ memo \subseteq Items /\ held \subseteq Items
  /\ trace \in Seq(Items) /\ retained \in Seq(Range(trace))
  /\ mode \in Modes /\ iterations \in 0 .. MaxIterations
  /\ pc \in {"collect", "ready", "preload", "timed", "reported", "threw"}
  /\ pass \in 0 .. iterations /\ pos \in Nat \ {0}
  /\ touched \in Nat /\ misses \in 0 .. touched /\ derived \in 0 .. misses
  /\ runs \in 0 .. MaxRuns
  /\ result \in [DOMAIN NoResult -> Nat]

\* A partial retention keeps its share of the distinct items, one at least, and
\* nothing it leaves out is accessed more often than anything it keeps
\* (bench_common.cpp:68-104; the hotset of spec.md 18.3).
HottestKept ==
  pc \in {"preload", "timed", "reported"} /\ mode \in DOMAIN Shares =>
    /\ IsInjective(retained)
    /\ trace # <<>> => Len(retained) = RetainCount(trace, mode)
    /\ \A i \in Range(retained), j \in Range(trace) \ Range(retained) :
         Count(trace, i) >= Count(trace, j)

\* What the clock has seen when it is read: every access of every iteration, and
\* one call of get_item for each access to an item that is not retained, none in
\* a full retention (bench_common.cpp:174-187).
ClockedExactly ==
  pc = "reported" =>
    /\ touched = result.trace_accesses * iterations
    /\ misses = iterations * Cardinality({p \in DOMAIN trace :
         mode = "compressed" \/ trace[p] \notin Range(retained)})
    /\ mode = "full" => misses = 0

\* What a clock sees of the derivation of items: none in a program that collected
\* its trace, and none after its first run; at most one for each item that a run
\* does not retain, whatever the iterations.  The memo is warm wherever the mode
\* says the item is not kept (bench_common.cpp:143, 180-185; get_item.cpp:107, 177).
DerivedOnce ==
  pc = "reported" =>
    /\ derived > 0 => trace \in Handed /\ runs = 1
    /\ derived <= Cardinality({i \in Range(trace) :
                      mode = "compressed" \/ i \notin Range(retained)})
=============================================================================
