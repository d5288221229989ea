--------------------------- MODULE MCWramReceive ---------------------------
(***************************************************************************)
(* Two control interfaces of three DPUs for TLC, with every subset of the  *)
(* six enabled, requests inside, at the end of and beyond WRAM, and an     *)
(* empty one.                                                              *)
(***************************************************************************)
EXTENDS WramReceive

MCCalls == {[offset |-> 1, n |-> 2], [offset |-> 2, n |-> 2],
            [offset |-> 3, n |-> 2], [offset |-> 4, n |-> 0]}
=============================================================================
