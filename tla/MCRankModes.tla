----------------------------- MODULE MCRankModes -----------------------------
(***************************************************************************)
(* An instance of RankMRAM in which the three nests of loops differ: two   *)
(* values of dpu_id, two words and two groups, so eight lines, with every  *)
(* pair of access modes and no unasked fetches.                            *)
(***************************************************************************)
EXTENDS RankMRAM

CONSTANTS a, b, garbage, none

MCWords   == {2047, 2048}                   \* both sides of a 16 KB boundary
MCEnabled == {0, 5}                         \* dpu_id 0 group 0, dpu_id 1 group 1
MCFills   == {[s \in MCEnabled |-> [i \in 0 .. 1 |-> IF s = 5 /\ i = 0 THEN a ELSE b]]}
MCCalls   == {[base |-> 2047, n |-> 2]}
MCProgram == [v \in {a, b, garbage} |-> IF v = garbage THEN garbage ELSE b]
=============================================================================
