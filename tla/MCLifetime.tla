----------------------------- MODULE MCLifetime -----------------------------
(***************************************************************************)
(* Three sets for TLC: of two ranks, of two ranks with a DPU missing, and  *)
(* of one rank.                                                            *)
(***************************************************************************)
EXTENDS Lifetime

CONSTANTS whole, holed, small, null

MCRankSizes == [s \in Sets |-> CASE s = whole -> <<2, 2>> [] s = holed -> <<2, 1>> [] s = small -> <<2>>]
=============================================================================
