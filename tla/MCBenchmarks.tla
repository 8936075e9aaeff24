---------------------------- MODULE MCBenchmarks ----------------------------
(***************************************************************************)
(* Small instance of Benchmarks: every trace of one round over five items, *)
(* the trace of tests/test_benchmarks.cpp, and one whose halves and        *)
(* quarters are of several items.                                          *)
(***************************************************************************)
EXTENDS Benchmarks

MCHanded == {<<1, 2, 1, 3, 2, 1>>, <<4, 4, 1, 2, 3, 0, 1>>}
=============================================================================
