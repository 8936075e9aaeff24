----------------------------- MODULE Benchmarks -----------------------------
(***************************************************************************)
(* bench/bench_common.cpp: the verifier and the cache rebuild benchmark,   *)
(* called between the retention runs of a program (Retention).  What a     *)
(* call holds and what its clock sees are the epoch caches it builds and   *)
(* the verifications it makes; verify_pow (Replay) is one step, which      *)
(* under its override touches neither memo (EpochCache, Dataset).          *)
(***************************************************************************)
EXTENDS Retention

CONSTANT MaxCalls    \* bound: calls of the two benchmarks in one program

ASSUME BenchmarksAssumption == MaxCalls \in Nat

\* A target by what the code asks of it: is its first byte 0xff, does the hash meet it.
Targets == [first_ff : BOOLEAN, met : BOOLEAN]

VARIABLES call,       \* "none", "input", "verify", "rebuild" or "rebuilt"
          target, wanted, done,   \* arguments, and iterations done
          caches,     \* EpochCache objects the call holds
          built, verified,   \* caches built and verifications since the clock started
          calls, report

bench_vars == <<call, target, wanted, done, caches, built, verified, calls, report>>
all_vars == <<vars, bench_vars>>

NoReport == [benchmark |-> "none", iterations |-> 0, built |-> 0, verified |-> 0]

BenchInit ==
  /\ Init
  /\ call = "none" /\ target = [first_ff |-> TRUE, met |-> TRUE]
  /\ wanted = 0 /\ done = 0 /\ caches = 0 /\ built = 0 /\ verified = 0
  /\ calls = 0 /\ report = NoReport

\* The program is between calls.
Between == call = "none" /\ calls < MaxCalls
             /\ (pc \in {"ready", "reported"} \/ (pc = "collect" /\ trace = <<>>))

Started(c, n) ==
  /\ call' = c /\ wanted' = n /\ done' = 0 /\ built' = 0 /\ verified' = 0
  /\ calls' = calls + 1 /\ report' = NoReport
  /\ UNCHANGED <<vars, caches>>

Throw == pc' = "threw" /\ UNCHANGED <<memo, trace, run>>

\* Either wants at least one iteration.
RejectCall == Between /\ Throw /\ UNCHANGED bench_vars

RunVerifier == \E n \in 1 .. MaxIterations, t \in Targets :
  Between /\ Started("input", n) /\ target' = t

BuildCounting(n) ==
  /\ call = "input" /\ call' = "verify"
  /\ caches' = caches + 1 /\ built' = built + n
  /\ UNCHANGED <<vars, target, wanted, done, verified, calls, report>>

\* Mutant: the clock is running while the input's cache is built.
BuildInputClocked == BuildCounting(1)

\* The clock starts after the input's cache is built.
BuildInput == BuildCounting(0)

\* A target that looks permissive and is not met ends the benchmark.
Verify ==
  /\ call = "verify" /\ done < wanted
  /\ verified' = verified + 1
  /\ IF target.first_ff /\ ~target.met
     THEN Throw /\ call' = "none" /\ caches' = 0 /\ UNCHANGED done
     ELSE done' = done + 1 /\ UNCHANGED <<vars, call, caches>>
  /\ UNCHANGED <<target, wanted, built, calls, report>>

Returned(name) ==
  /\ done = wanted
  /\ call' = "none" /\ caches' = 0
  /\ report' = [benchmark |-> name, iterations |-> wanted, built |-> built, verified |-> verified]
  /\ UNCHANGED <<vars, target, wanted, done, built, verified, calls>>

ReportVerifier == call = "verify" /\ Returned("verifier")

RunRebuild == \E n \in 1 .. MaxIterations :
  Between /\ Started("rebuild", n) /\ UNCHANGED target

\* A cache is built from nothing ...
Rebuild ==
  /\ call = "rebuild" /\ done < wanted
  /\ call' = "rebuilt" /\ caches' = caches + 1 /\ built' = built + 1
  /\ UNCHANGED <<vars, target, wanted, done, verified, calls, report>>

Dropping(n) ==
  /\ call = "rebuilt"
  /\ call' = "rebuild" /\ caches' = caches - n /\ done' = done + 1
  /\ UNCHANGED <<vars, target, wanted, built, verified, calls, report>>

\* Mutant: it is kept for the next iteration.
KeepCache == Dropping(0)

\* ... and goes at the end of the iteration.
DropCache == Dropping(1)

ReportRebuild == call = "rebuild" /\ Returned("cache_rebuild")

CallOutOfMemory ==
  /\ call \in {"input", "verify", "rebuild"}
  /\ Throw /\ call' = "none" /\ caches' = 0
  /\ UNCHANGED <<target, wanted, done, built, verified, calls, report>>

Retain == call = "none" /\ Next /\ UNCHANGED bench_vars

BenchNext ==
  \/ Retain \/ RejectCall \/ RunVerifier \/ BuildInput \/ Verify \/ ReportVerifier
  \/ RunRebuild \/ Rebuild \/ DropCache \/ ReportRebuild \/ CallOutOfMemory

BenchSpec == BenchInit /\ [][BenchNext]_all_vars

----------------------------------------------------------------------------
(* Properties *)

BenchTypeOK ==
  /\ TypeOK
  /\ call \in {"none", "input", "verify", "rebuild", "rebuilt"}
  /\ target \in Targets
  /\ wanted \in 0 .. MaxIterations /\ done \in 0 .. wanted
  /\ caches \in Nat /\ built \in 0 .. wanted /\ verified \in 0 .. wanted
  /\ calls \in 0 .. MaxCalls
  /\ report \in [benchmark : {"none", "verifier", "cache_rebuild"}, iterations : 0 .. MaxIterations,
                 built : Nat, verified : Nat]

\* What the elapsed time of a report is divided by is what happened in it: a
\* verifier's latency is that of verifications alone, no cache among them, and a
\* rebuild's that of caches built from nothing (bench_common.cpp:223-232, 254-259;
\* IMPLEMENTATION_PLAN.md:352-354 lists the two apart).
CallsClockedExactly ==
  /\ report.benchmark = "verifier" => report.verified = report.iterations /\ report.built = 0
  /\ report.benchmark = "cache_rebuild" => report.built = report.iterations /\ report.verified = 0

\* A verifier's benchmark holds the one cache whose size it reports as resident, a
\* rebuild frees each cache before the next, and no call leaves one behind, not
\* even one that throws (bench_common.cpp:223, 238, 256).
OneCacheHeld ==
  /\ caches <= 1
  /\ call = "verify" => caches = 1
  /\ call = "none" => caches = 0
=============================================================================
