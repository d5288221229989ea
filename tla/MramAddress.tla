---------------------------- MODULE MramAddress ----------------------------
(***************************************************************************)
(* Where the 64 DPUs of a rank keep their MRAM in the region the host has  *)
(* mapped (DirectPIMInterface::GetCorrectOffsetMRAM), and how the eight    *)
(* byte lanes of a cache line are matched with the buffers of the caller.  *)
(*                                                                         *)
(* Units.  A transfer is asserted to be 8-byte aligned and a cache line is *)
(* 64 bytes, so an MRAM address is counted in 8-byte words and an offset   *)
(* in the region in 64-byte lines: the shift by 7 of a byte address into a *)
(* byte offset becomes a factor 16 from words to lines, and so on.  The    *)
(* numbers stay below 2^27, where those of the code need 33 bits.          *)
(***************************************************************************)
EXTENDS Integers

\* Sizes in words of MRAM: 8 KB, 16 KB, 32 KB and 4 MB.
W8K  == 1024
W16K == 2048
W32K == 4096
W4M  == 524288

MRAM_WORDS   == 8388608                \* MRAM_SIZE: 64 MB a DPU
REGION_LINES == 134217728              \* 8 GB of mapped region a rank

MramWord == 0 .. MRAM_WORDS - 1
DpuIds   == 0 .. 3                     \* dpu_id of the loops
Groups   == 0 .. 1                     \* dpu_id_group is 4 * group
CIs      == 0 .. 7                     \* control interfaces: the byte lanes

(***************************************************************************)
(* FastPath.  A mask keeps a range of bits, that is a quotient modulo a    *)
(* size; the masked values and dpu_id << 18 share no bit, so that the      *)
(* `|' between them is a sum: FastPathIsMasks of MramWalk states it of the *)
(* masks themselves.                                                       *)
(***************************************************************************)
FastPathSplit13(w, dpu_id) ==          \* a slip: bit 13 moved with bits 21..15
    16 * W4M * (w \div W4M) + 8 * W8K * ((w \div W8K) % 2)
      + 8 * W32K * ((w \div W32K) % 128)
      + 2048 * W16K * ((w \div W16K) % 2)
      + 2 * (w % W8K)
      + 4096 * dpu_id

FastPath(w, dpu_id) ==
    16 * W4M * (w \div W4M)                    \* 31..22  << 7
      + 16 * W8K * ((w \div W8K) % 2)          \* 13      << 7
      + 8 * W32K * ((w \div W32K) % 128)       \* 21..15  << 6
      + 2048 * W16K * ((w \div W16K) % 2)      \* 14      << 14
      + 2 * (w % W8K)                          \* 12..0   << 4
      + 4096 * dpu_id                          \* dpu_id  << 18

\* The line the host touches for word w of the DPUs (dpu_id, group): the
\* second group of four DPUs is one line (0x40 bytes) further.
HostLineOneGroup(w, dpu_id, group) == FastPath(w, dpu_id)   \* a slip: no + 0x40

HostLine(w, dpu_id, group) == FastPath(w, dpu_id) + group

(***************************************************************************)
(* OraclePath, which the code keeps beside FastPath as its definition of   *)
(* the hardware's layout: member is the position of the DPU on its control *)
(* interface, 0..7.                                                        *)
(***************************************************************************)
OraclePath(w, member) ==
    LET below4M  == w % W4M
        below16K == below4M % W16K
        below8K  == below16K % W8K
    IN  8388608 * (w \div W4M)
          + (IF (below4M \div W16K) % 2 = 1 THEN 4194304 ELSE 0)
          + 32768 * (below4M \div W32K)
          + (IF (below16K \div W8K) % 2 = 1 THEN 16384 ELSE 0)
          + 2 * below8K
          + 4096 * (member % 4)
          + (IF member >= 4 THEN 1 ELSE 0)

\* Position in the table of the rank's buffers of the DPU that is member
\* dpu_id + 4 * group of control interface j.
Slot(j, dpu_id, group) == 8 * j + dpu_id + 4 * group

\* The three coordinates of a slot: what a DPU's place in its rank says of
\* the lane it answers on and of the bank it belongs to.
LaneOf(s)  == s \div 8
DpuIdOf(s) == s % 4
GroupOf(s) == (s % 8) \div 4

\* The line that holds word w of the DPU in slot s, in the hardware's layout.
DpuLine(s, w) == OraclePath(w, s % 8)
============================================================================
