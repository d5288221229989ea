----------------------------- MODULE MCExample -----------------------------
(* Two DPUs, a test of one word and one of three, in chunks of two. *)
EXTENDS Example

MCSizes == <<1, 3>>
=============================================================================
