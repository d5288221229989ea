------------------------------ MODULE MramWalk ------------------------------
(***************************************************************************)
(* The addresses of one transfer: the loops of the mode Sequential of      *)
(* ReceiveFromRankMRAM (and of SendToRankMRAM), which finish one of the    *)
(* eight banks after the other, word by word, and what the line computed   *)
(* for each of these words has to be.                                      *)
(***************************************************************************)
EXTENDS MramAddress, ByteInterleave

CONSTANTS Starts,      \* symbol_offset, in words
          Length       \* n_words

VARIABLES start, at, bank      \* bank is <<dpu_id, group>>

walkVars == <<start, at, bank>>

ASSUME WalkAssumption == Starts \subseteq MramWord /\ Length \in Nat \ {0}

\* The assert on MRAM_SIZE at the head of the function.
WalkInit ==
    /\ start \in Starts /\ start + Length <= MRAM_WORDS
    /\ at = 0
    /\ bank = <<0, 0>>

NextWord ==
    /\ at + 1 < Length
    /\ at' = at + 1
    /\ UNCHANGED <<start, bank>>

\* The next bank, with the loop over i started again.
NextBank ==
    /\ at + 1 = Length
    /\ at' = 0
    /\ \/ bank[2] = 0 /\ bank' = <<bank[1], 1>>
       \/ bank[2] = 1 /\ bank[1] < 3 /\ bank' = <<bank[1] + 1, 0>>
    /\ start' = start

WalkNext == NextWord \/ NextBank

WalkSpec == WalkInit /\ [][WalkNext]_walkVars

word == start + at

\* Every word that a transfer from one of these places could touch.
TouchedWords == MramWord \cap UNION {s .. s + Length - 1 : s \in Starts}

(***************************************************************************)
(* The expression of FastPath, bit by bit, in words (bytes over 8) and in  *)
(* lines.                                                                  *)
(***************************************************************************)
Bit(x, n) == (x \div 2 ^ n) % 2

mask_move_7  == (2 ^ 29 - 2 ^ 19) + 2 ^ 10        \* 31..22, 13
mask_move_6  == 2 ^ 19 - 2 ^ 12                   \* 21..15
mask_move_14 == 2 ^ 11                            \* 14
mask_move_4  == 2 ^ 10 - 1                        \* 12..0

\* Is bit n of (w & mask) << shift set?
Moved(w, mask_move, shift, n) ==
    n >= shift /\ Bit(w, n - shift) = 1 /\ Bit(mask_move, n - shift) = 1

\* Is bit n of the `or' of the four fields and dpu_id << 18 set?
FastPathBit(w, dpu_id, n) ==
    \/ Moved(w, mask_move_7, 4, n) \/ Moved(w, mask_move_6, 3, n)
    \/ Moved(w, mask_move_14, 11, n) \/ Moved(w, mask_move_4, 1, n)
    \/ n >= 12 /\ Bit(dpu_id, n - 12) = 1

(***************************************************************************)
(* Properties.                                                             *)
(***************************************************************************)
\* FastPath as quotients and remainders is what the masks, shifts and `or's of
\* GetCorrectOffsetMRAM compute, in each of the 27 bits of a line's number: the
\* shifted fields share no bit.
FastPathIsMasks ==
    /\ FastPath(word, bank[1]) \in 0 .. REGION_LINES - 1
    /\ \A n \in 0 .. 26 :
          Bit(FastPath(word, bank[1]), n) = 1 <=> FastPathBit(word, bank[1], n)

\* Each DPU finds its words: byte b of the word of a lane is stored on the line of
\* the word as the hardware has it, in byte `lane' of its b-th group of eight, that
\* is, in the chip of that DPU; and since this exchanges lane and b, a load undoes it.
\* For the lines it is the assert commented out at
\* lines 148-150 of direct_interface.hpp.
BytesReachDpu ==
    /\ HostLine(word, bank[1], bank[2]) = OraclePath(word, bank[1] + 4 * bank[2])
    /\ \A lane, b \in 0 .. 7 : Interleaved(8 * b + lane) = 8 * lane + b

\* No other word of these, nor this word of another bank, has the same line: a
\* transfer never stores over what it stored before.
LinesApart ==
    \A w \in TouchedWords, d \in DpuIds, g \in Groups :
        HostLine(w, d, g) = HostLine(word, bank[1], bank[2]) =>
            w = word /\ bank = <<d, g>>
=============================================================================
