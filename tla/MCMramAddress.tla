--------------------------- MODULE MCMramAddress ---------------------------
(***************************************************************************)
(* Transfers that start shortly before or at each address where some bit   *)
(* of the translation changes.                                             *)
(***************************************************************************)
EXTENDS MramWalk

\* The translation changes at 8 KB, 16 KB, 32 KB and 4 MB; then the two ends.
Edges    == {0, W8K, W16K, W16K + W8K, W32K, 127 * W32K, W4M, 15 * W4M, MRAM_WORDS}
MCStarts == {e + k : e \in Edges, k \in -3 .. 0} \cap MramWord
=============================================================================
