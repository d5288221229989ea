----------------------------- MODULE MCUpmemPIM -----------------------------
(***************************************************************************)
(* Two ranks for TLC, the last DPU of the first missing, so that buffer 1  *)
(* is of the second.                                                       *)
(***************************************************************************)
EXTENDS UpmemPIM

CONSTANTS a, b

MCEnabled == [r \in 0 .. 1 |-> IF r = 0 THEN {0} ELSE {0, 1}]
MCFills   == {[k \in 0 .. 2 |-> IF k = 1 THEN a ELSE b]}
MCProgram == [v \in {a, b} |-> IF v = a THEN b ELSE a]
=============================================================================
