--------------------------- MODULE ByteInterleave ---------------------------
(***************************************************************************)
(* byte_interleave_avx512: the three vector instructions that spread the   *)
(* eight words of a gathered line over the eight chips of a bank, byte by  *)
(* byte, and put them together again on a receive.                         *)
(***************************************************************************)
EXTENDS Integers, Sequences

Bytes == 0 .. 63

\* Operands of the instructions, first element for the lowest lane.
vindex == <<0, 2, 4, 6, 8, 10, 12, 14, 1, 3, 5, 7, 9, 11, 13, 15>>
mask   == <<0, 4, 8, 12, 1, 5, 9, 13, 2, 6, 10, 14, 3, 7, 11, 15>>
perm   == <<0, 4, 1, 5, 2, 6, 3, 7, 8, 12, 9, 13, 10, 14, 11, 15>>

\* permutexvar_epi32: dword k of the result is dword index[k] of the operand.
PermuteDwords(index, p) == 4 * index[(p \div 4) + 1] + (p % 4)

\* shuffle_epi8: byte k of each 16-byte lane is byte mask[k] of the same lane.
ShuffleBytes(p) == 16 * (p \div 16) + mask[(p % 16) + 1]

\* The byte of the line given that byte p of the line returned is taken from:
\* back through LEVEL 2, LEVEL 1 and LEVEL 0.
InterleavedNoLast(p) == PermuteDwords(vindex, ShuffleBytes(p))    \* a slip: no LEVEL 2
Interleaved(p)       == PermuteDwords(vindex, ShuffleBytes(PermuteDwords(perm, p)))
=============================================================================
