---------------------------- MODULE MCBenchmark ----------------------------
(***************************************************************************)
(* The benchmark's own sizes for TLC, followed at the words around the     *)
(* ends of the tests and of the DPU program's buffer.                      *)
(***************************************************************************)
EXTENDS Benchmark

\* 1 KB, 2 KB, ... in words; the largest under test is 8 MB.
KB(k)      == 128 * k
MCUpTo4MB  == {KB(2 ^ k) : k \in 0 .. 12}
MCUpTo8MB  == {KB(2 ^ k) : k \in 0 .. 13}
MCWords    == {0, 1, 127, 128, 255, 256, 524032, 524287, 524288,
               818432, 818433, 818688, 1048575}
=============================================================================
