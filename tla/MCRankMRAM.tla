----------------------------- MODULE MCRankMRAM -----------------------------
(***************************************************************************)
(* An instance of RankMRAM for TLC: one dpu_id, so two banks; two lanes,   *)
(* the slots of the first line's second lane and of the second line's      *)
(* first lane empty; two words on both sides of an 8 KB boundary of MRAM,  *)
(* where FastPath stops being consecutive.                                 *)
(***************************************************************************)
EXTENDS RankMRAM

CONSTANTS a, b, garbage, none

MCWords   == {1023, 1024}
MCValues  == {a, b}
MCEnabled == {0, 12}
MCFills   == {[s \in MCEnabled |-> [i \in 0 .. 1 |-> IF (s = 12) = (i = 0) THEN a ELSE b]],
              [s \in MCEnabled |-> [i \in 0 .. 1 |-> IF s = 12 THEN a ELSE b]]}
MCCalls   == {[base |-> 1023, n |-> 2], [base |-> 1024, n |-> 1],
              [base |-> 1023, n |-> 0], [base |-> 8388607, n |-> 2]}
MCProgram == [v \in {a, b, garbage} |-> IF v = a THEN b ELSE IF v = b THEN a ELSE garbage]

\* The processor fetches and drops on its own the lines of the first word.
MCSpeculative == {HostLine(1023, 0, 1)}
=============================================================================
