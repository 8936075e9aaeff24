\* Two retention runs of a program, as bench_hotset_retention has them, two calls
\* of the other benchmarks, as bench_verifier has them, and two iterations.
CONSTANTS
  Items = {0, 1, 2, 3, 4}
  Rounds = 1
  Handed <- MCHanded
  MaxIterations = 2
  MaxRuns = 2
  MaxCalls = 2
SPECIFICATION BenchSpec
INVARIANTS BenchTypeOK HottestKept ClockedExactly DerivedOnce CallsClockedExactly OneCacheHeld
\* A program ends after its runs, or with an exception.
CHECK_DEADLOCK FALSE
