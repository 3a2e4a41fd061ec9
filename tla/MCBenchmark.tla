---------------------------- MODULE MCBenchmark -----------------------------
(* Benchmark over every list of up to three files.                         *)
EXTENDS Benchmark

CONSTANTS a, b, c

MCLists == {<<>>, <<a>>, <<a, b>>, <<a, b, c>>}
=============================================================================
