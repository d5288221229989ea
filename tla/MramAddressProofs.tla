------------------------- MODULE MramAddressProofs -------------------------
(***************************************************************************)
(* What the address translation of the direct interface guarantees, for    *)
(* every word of the 64 MB of MRAM and every DPU of a rank.                *)
(*                                                                         *)
(* A word address is written in the mixed radix 1024, 2, 2, 128, the       *)
(* fields the masks of FastPath cut out of it; both translations are then  *)
(* sums of multiples of the digits, and they are compared digit by digit.  *)
(* The bytes of a line follow from their positions' binary digits, and     *)
(* both together say where the loops of a transfer put each byte.          *)
(***************************************************************************)
EXTENDS MramWalk, TLAPS

Digits(w, hi, f, b14, b13, lo) ==
    /\ hi \in Nat /\ hi < 16
    /\ f \in Nat /\ f < 128
    /\ b14 \in Nat /\ b14 < 2
    /\ b13 \in Nat /\ b13 < 2
    /\ lo \in Nat /\ lo < 1024
    /\ w = 524288 * hi + 4096 * f + 2048 * b14 + 1024 * b13 + lo

\* The bounds of a word address, as inequalities.
LEMMA WordBounds ==
  ASSUME NEW w \in MramWord
  PROVE  w \in Nat /\ w < 8388608
<1>1. MRAM_WORDS \in Int
  BY SMT DEF MRAM_WORDS
<1>2. w \in Int /\ 0 <= w /\ w <= MRAM_WORDS - 1
  BY SMT, <1>1 DEF MramWord
<1> QED
  BY SMT, <1>2 DEF MRAM_WORDS

\* Every word address has digits: the fields FastPath masks out.
LEMMA WordDigits ==
  ASSUME NEW w \in MramWord
  PROVE  Digits(w, w \div 524288, (w \div 4096) % 128, (w \div 2048) % 2,
                (w \div 1024) % 2, w % 1024)
<1>1. w \in Nat /\ w < 8388608
  BY SMT, WordBounds
<1>2. w = 1024 * (w \div 1024) + (w % 1024) /\ w % 1024 \in Nat /\ w % 1024 < 1024
  BY SMT, <1>1
<1>3. w \div 1024 \in Nat /\ w \div 1024 = 2 * (w \div 2048) + ((w \div 1024) % 2)
  BY SMT, <1>1
<1>4. w \div 2048 \in Nat /\ w \div 2048 = 2 * (w \div 4096) + ((w \div 2048) % 2)
  BY SMT, <1>1
<1>5. w \div 4096 \in Nat /\ w \div 4096 = 128 * (w \div 524288) + ((w \div 4096) % 128)
  BY SMT, <1>1
<1>6. w \div 524288 \in Nat /\ w \div 524288 < 16
  BY SMT, <1>1
<1> QED
  BY SMT, <1>1, <1>2, <1>3, <1>4, <1>5, <1>6 DEF Digits

\* The digits are unique: they are what the divisions compute.
LEMMA DigitsQuotients ==
  ASSUME NEW w, NEW hi, NEW f, NEW b14, NEW b13, NEW lo,
         Digits(w, hi, f, b14, b13, lo)
  PROVE  /\ w \in Nat
         /\ w \div 524288 = hi
         /\ (w \div 4096) % 128 = f
         /\ (w \div 2048) % 2 = b14
         /\ (w \div 1024) % 2 = b13
         /\ w % 1024 = lo
<1>0. w \in Nat /\ hi \in Nat /\ f \in Nat /\ b14 \in Nat /\ b13 \in Nat /\ lo \in Nat
  BY SMT DEF Digits
<1>1. w % 1024 = lo /\ w \div 1024 = 512 * hi + 4 * f + 2 * b14 + b13
  BY SMT DEF Digits
<1>2. (w \div 1024) % 2 = b13
  BY SMT, <1>1 DEF Digits
<1>3. w \div 2048 = 256 * hi + 2 * f + b14 /\ (w \div 2048) % 2 = b14
  BY SMT DEF Digits
<1>4. w \div 4096 = 128 * hi + f /\ (w \div 4096) % 128 = f
  BY SMT DEF Digits
<1>5. w \div 524288 = hi
  BY SMT DEF Digits
<1> QED
  BY SMT, <1>0, <1>1, <1>2, <1>3, <1>4, <1>5

\* FastPath in terms of the digits.
LEMMA FastPathDigits ==
  ASSUME NEW w, NEW hi, NEW f, NEW b14, NEW b13, NEW lo,
         Digits(w, hi, f, b14, b13, lo), NEW dpu_id \in DpuIds
  PROVE  FastPath(w, dpu_id) =
            8388608 * hi + 4194304 * b14 + 32768 * f + 16384 * b13 + 4096 * dpu_id + 2 * lo
<1>1. /\ w \div 524288 = hi
      /\ (w \div 4096) % 128 = f
      /\ (w \div 2048) % 2 = b14
      /\ (w \div 1024) % 2 = b13
      /\ w % 1024 = lo
  BY SMT, DigitsQuotients
<1> QED
  BY SMT, <1>1 DEF FastPath, W8K, W16K, W32K, W4M, DpuIds, Digits

\* OraclePath in terms of the digits.
LEMMA OraclePathDigits ==
  ASSUME NEW w, NEW hi, NEW f, NEW b14, NEW b13, NEW lo,
         Digits(w, hi, f, b14, b13, lo), NEW dpu_id \in DpuIds, NEW group \in Groups
  PROVE  OraclePath(w, dpu_id + 4 * group) =
            8388608 * hi + 4194304 * b14 + 32768 * f + 16384 * b13
              + 4096 * dpu_id + 2 * lo + group
<1>1. w \div 524288 = hi /\ w % 524288 = 4096 * f + 2048 * b14 + 1024 * b13 + lo
  BY SMT DEF Digits
<1>2. (w % 524288) \div 4096 = f
  BY SMT, <1>1 DEF Digits
<1>3. (w % 524288) \div 2048 = 2 * f + b14 /\ (w % 524288) % 2048 = 1024 * b13 + lo
  BY SMT, <1>1 DEF Digits
<1>4. ((w % 524288) \div 2048) % 2 = b14
  BY SMT, <1>3 DEF Digits
<1>5. ((w % 524288) % 2048) \div 1024 = b13 /\ ((w % 524288) % 2048) % 1024 = lo
  BY SMT, <1>3 DEF Digits
<1>6. (((w % 524288) % 2048) \div 1024) % 2 = b13
  BY SMT, <1>5 DEF Digits
<1>7. (dpu_id + 4 * group) % 4 = dpu_id /\ (dpu_id + 4 * group >= 4 <=> group = 1)
  BY SMT DEF DpuIds, Groups
<1>8. /\ hi \in Nat /\ f \in Nat /\ lo \in Nat /\ b14 \in {0, 1} /\ b13 \in {0, 1}
      /\ dpu_id \in Int /\ group \in {0, 1}
  BY SMT DEF Digits, DpuIds, Groups
<1>9. OraclePath(w, dpu_id + 4 * group) =
         8388608 * hi + (IF b14 = 1 THEN 4194304 ELSE 0) + 32768 * f
           + (IF b13 = 1 THEN 16384 ELSE 0) + 2 * lo + 4096 * dpu_id
           + (IF group = 1 THEN 1 ELSE 0)
  BY SMT, <1>1, <1>2, <1>4, <1>5, <1>6, <1>7 DEF OraclePath, W8K, W16K, W32K, W4M
<1> QED
  BY SMT, <1>8, <1>9

(***************************************************************************)
(* The translation the transfers use agrees with the layout the code keeps *)
(* as its oracle, for every word of MRAM and all eight DPUs of a control   *)
(* interface (the assert of lines 148-150 of direct_interface.hpp, which   *)
(* is commented out there).                                                *)
(***************************************************************************)
THEOREM HostLineIsDpuLine ==
  ASSUME NEW w \in MramWord, NEW dpu_id \in DpuIds, NEW group \in Groups
  PROVE  HostLine(w, dpu_id, group) = OraclePath(w, dpu_id + 4 * group)
<1>1. PICK hi, f, b14, b13, lo : Digits(w, hi, f, b14, b13, lo)
  BY SMT, WordDigits
<1>2. FastPath(w, dpu_id) =
         8388608 * hi + 4194304 * b14 + 32768 * f + 16384 * b13 + 4096 * dpu_id + 2 * lo
  BY SMT, <1>1, FastPathDigits
<1>3. OraclePath(w, dpu_id + 4 * group) =
         8388608 * hi + 4194304 * b14 + 32768 * f + 16384 * b13
           + 4096 * dpu_id + 2 * lo + group
  BY SMT, <1>1, OraclePathDigits
<1> QED
  BY SMT, <1>2, <1>3 DEF HostLine

(***************************************************************************)
(* Two words, or one word of two banks, never share a line of the region:  *)
(* no store of a transfer overwrites another one.                          *)
(***************************************************************************)
THEOREM HostLineInjective ==
  ASSUME NEW w1 \in MramWord, NEW d1 \in DpuIds, NEW g1 \in Groups,
         NEW w2 \in MramWord, NEW d2 \in DpuIds, NEW g2 \in Groups,
         HostLine(w1, d1, g1) = HostLine(w2, d2, g2)
  PROVE  w1 = w2 /\ d1 = d2 /\ g1 = g2
<1>1. PICK h1, f1, a1, b1, l1 : Digits(w1, h1, f1, a1, b1, l1)
  BY SMT, WordDigits
<1>2. PICK h2, f2, a2, b2, l2 : Digits(w2, h2, f2, a2, b2, l2)
  BY SMT, WordDigits
<1>3. FastPath(w1, d1) =
         8388608 * h1 + 4194304 * a1 + 32768 * f1 + 16384 * b1 + 4096 * d1 + 2 * l1
  BY SMT, <1>1, FastPathDigits
<1>4. FastPath(w2, d2) =
         8388608 * h2 + 4194304 * a2 + 32768 * f2 + 16384 * b2 + 4096 * d2 + 2 * l2
  BY SMT, <1>2, FastPathDigits
<1>5. 8388608 * h1 + 4194304 * a1 + 32768 * f1 + 16384 * b1 + 4096 * d1 + 2 * l1 + g1
        = 8388608 * h2 + 4194304 * a2 + 32768 * f2 + 16384 * b2 + 4096 * d2 + 2 * l2 + g2
  BY SMT, <1>3, <1>4 DEF HostLine
<1>6. /\ d1 \in Nat /\ d1 < 4 /\ g1 \in Nat /\ g1 < 2
      /\ d2 \in Nat /\ d2 < 4 /\ g2 \in Nat /\ g2 < 2
  BY SMT DEF DpuIds, Groups
<1>7. h1 = h2 /\ a1 = a2 /\ f1 = f2 /\ b1 = b2 /\ d1 = d2 /\ l1 = l2 /\ g1 = g2
  BY SMT, <1>1, <1>2, <1>5, <1>6 DEF Digits
<1> QED
  BY SMT, <1>1, <1>2, <1>7 DEF Digits

(***************************************************************************)
(* Every line a transfer touches lies in the 8 GB the rank is mapped on.   *)
(***************************************************************************)
THEOREM HostLineInRegion ==
  ASSUME NEW w \in MramWord, NEW dpu_id \in DpuIds, NEW group \in Groups
  PROVE  HostLine(w, dpu_id, group) \in Nat /\ HostLine(w, dpu_id, group) < REGION_LINES
<1>1. PICK hi, f, b14, b13, lo : Digits(w, hi, f, b14, b13, lo)
  BY SMT, WordDigits
<1>2. FastPath(w, dpu_id) =
         8388608 * hi + 4194304 * b14 + 32768 * f + 16384 * b13 + 4096 * dpu_id + 2 * lo
  BY SMT, <1>1, FastPathDigits
<1>3. dpu_id \in Nat /\ dpu_id < 4 /\ group \in Nat /\ group < 2
  BY SMT DEF DpuIds, Groups
<1> QED
  BY SMT, <1>1, <1>2, <1>3 DEF HostLine, REGION_LINES, Digits

(***************************************************************************)
(* The slot of a lane and a bank has that lane and that bank, and each     *)
(* slot is the slot of its own coordinates: the indices 8 * j + dpu_id +   *)
(* dpu_id_group of the loops of LoadAndScatter and GatherAndStore are the  *)
(* 64 entries of the table, each once.                                     *)
(***************************************************************************)
THEOREM SlotBijection ==
  /\ \A j \in CIs, d \in DpuIds, g \in Groups :
        /\ Slot(j, d, g) \in 0 .. 63
        /\ LaneOf(Slot(j, d, g)) = j
        /\ DpuIdOf(Slot(j, d, g)) = d
        /\ GroupOf(Slot(j, d, g)) = g
  /\ \A s \in 0 .. 63 :
        /\ LaneOf(s) \in CIs /\ DpuIdOf(s) \in DpuIds /\ GroupOf(s) \in Groups
        /\ s = Slot(LaneOf(s), DpuIdOf(s), GroupOf(s))
<1>1. ASSUME NEW j \in CIs, NEW d \in DpuIds, NEW g \in Groups
      PROVE  /\ Slot(j, d, g) \in 0 .. 63
             /\ LaneOf(Slot(j, d, g)) = j
             /\ DpuIdOf(Slot(j, d, g)) = d
             /\ GroupOf(Slot(j, d, g)) = g
  BY SMT DEF Slot, LaneOf, DpuIdOf, GroupOf, CIs, DpuIds, Groups
<1>2. ASSUME NEW s \in 0 .. 63
      PROVE  /\ LaneOf(s) \in CIs /\ DpuIdOf(s) \in DpuIds /\ GroupOf(s) \in Groups
             /\ s = Slot(LaneOf(s), DpuIdOf(s), GroupOf(s))
  BY SMT DEF Slot, LaneOf, DpuIdOf, GroupOf, CIs, DpuIds, Groups
<1> QED
  BY <1>1, <1>2

(***************************************************************************)
(* The line the host reads or writes for (dpu_id, group) is the line that  *)
(* holds the word of each of the eight DPUs it serves.                     *)
(***************************************************************************)
THEOREM SlotHostLine ==
  ASSUME NEW s \in 0 .. 63, NEW w \in MramWord
  PROVE  DpuLine(s, w) = HostLine(w, DpuIdOf(s), GroupOf(s))
<1>1. DpuIdOf(s) \in DpuIds /\ GroupOf(s) \in Groups
  BY SlotBijection
<1>2. s % 8 = DpuIdOf(s) + 4 * GroupOf(s)
  BY SMT DEF DpuIdOf, GroupOf
<1> QED
  BY SMT, <1>1, <1>2, HostLineIsDpuLine DEF DpuLine

(***************************************************************************)
(* The bytes of a line.  Each operand of the vector instructions is a      *)
(* permutation of the binary digits of a position, and so is what the      *)
(* three of them do together: it exchanges the upper and the lower three.  *)
(***************************************************************************)
LEMMA Operands ==
  ASSUME NEW k \in 0 .. 15
  PROVE  /\ perm[k + 1] = 8 * (k \div 8) + 4 * (k % 2) + ((k % 8) \div 2)
         /\ mask[k + 1] = 4 * (k % 4) + (k \div 4)
         /\ vindex[k + 1] = 2 * (k % 8) + (k \div 8)
<1>1. perm[k + 1] = 8 * (k \div 8) + 4 * (k % 2) + ((k % 8) \div 2)
  BY SMT DEF perm
<1>2. mask[k + 1] = 4 * (k % 4) + (k \div 4)
  BY SMT DEF mask
<1>3. vindex[k + 1] = 2 * (k % 8) + (k \div 8)
  BY SMT DEF vindex
<1> QED
  BY <1>1, <1>2, <1>3

\* Byte b of lane's word comes from byte lane of the b-th word and goes back there:
\* byte_interleave_avx512 transposes the line, and is its own inverse.
THEOREM InterleaveTransposes ==
  \A lane, b \in 0 .. 7 : Interleaved(8 * b + lane) = 8 * lane + b
<1> SUFFICES ASSUME NEW lane \in 0 .. 7, NEW b \in 0 .. 7
             PROVE  Interleaved(8 * b + lane) = 8 * lane + b
  OBVIOUS
<1> DEFINE h == lane \div 4
           l == lane % 4
           u == b \div 4
           c == b % 4
           q == 32 * u + 16 * h + 4 * c + l
           r == 32 * u + 16 * h + 4 * l + c
<1>1. h \in 0 .. 1 /\ l \in 0 .. 3 /\ u \in 0 .. 1 /\ c \in 0 .. 3
  BY SMT
<1>2. lane = 4 * h + l /\ b = 4 * u + c
  BY SMT
<1> HIDE DEF h, l, u, c
<1>3. PermuteDwords(perm, 8 * b + lane) = q
  <2> DEFINE k == 8 * u + 2 * c + h
  <2>1. k \in 0 .. 15 /\ (8 * b + lane) \div 4 = k /\ (8 * b + lane) % 4 = l
    BY SMT, <1>1, <1>2
  <2>2. k \div 8 = u /\ k % 2 = h /\ (k % 8) \div 2 = c
    BY SMT, <1>1
  <2> HIDE DEF k
  <2>3. perm[k + 1] = 8 * u + 4 * h + c
    BY <2>1, <2>2, Operands
  <2> QED
    BY SMT, <1>1, <2>1, <2>3 DEF PermuteDwords
<1>4. ShuffleBytes(q) = r
  <2> DEFINE k == 4 * c + l
  <2>1. k \in 0 .. 15 /\ q \div 16 = 2 * u + h /\ q % 16 = k
    BY SMT, <1>1
  <2>2. k % 4 = l /\ k \div 4 = c
    BY SMT, <1>1
  <2> HIDE DEF k, q
  <2>3. mask[k + 1] = 4 * l + c
    BY <2>1, <2>2, Operands
  <2> QED
    BY SMT, <1>1, <2>1, <2>3 DEF ShuffleBytes
<1>5. PermuteDwords(vindex, r) = 8 * lane + b
  <2> DEFINE k == 8 * u + 4 * h + l
  <2>1. k \in 0 .. 15 /\ r \div 4 = k /\ r % 4 = c
    BY SMT, <1>1
  <2>2. k % 8 = 4 * h + l /\ k \div 8 = u
    BY SMT, <1>1
  <2> HIDE DEF k, r
  <2>3. vindex[k + 1] = 2 * (4 * h + l) + u
    BY <2>1, <2>2, Operands
  <2> QED
    BY SMT, <1>1, <1>2, <2>1, <2>3 DEF PermuteDwords
<1> QED
  BY <1>3, <1>4, <1>5 DEF Interleaved

(***************************************************************************)
(* The addresses of a transfer.                                            *)
(***************************************************************************)
\* The walk stays in MRAM and among the eight banks.
InBounds ==
    /\ start \in MramWord /\ start + Length <= MRAM_WORDS
    /\ at \in 0 .. Length - 1
    /\ bank \in DpuIds \X Groups

LEMMA WordInMram == InBounds => word \in MramWord
<1>1. MRAM_WORDS \in Int /\ Length \in Int
  BY SMT, WalkAssumption DEF MRAM_WORDS
<1> QED
  BY SMT, <1>1 DEF InBounds, MramWord, word

LEMMA BankOf ==
  ASSUME bank \in DpuIds \X Groups
  PROVE  bank[1] \in DpuIds /\ bank[2] \in Groups /\ bank = <<bank[1], bank[2]>>
OBVIOUS

LEMMA WalkInBounds == WalkSpec => []InBounds
<1>1. WalkInit => InBounds
  <2> SUFFICES ASSUME WalkInit PROVE InBounds
    OBVIOUS
  <2>1. start \in MramWord /\ Length \in Nat \ {0}
    BY WalkAssumption DEF WalkInit
  <2>2. at \in 0 .. Length - 1
    BY <2>1 DEF WalkInit
  <2>3. <<0, 0>> \in DpuIds \X Groups
    BY DEF DpuIds, Groups
  <2> QED
    BY <2>1, <2>2, <2>3 DEF WalkInit, InBounds
<1>2. InBounds /\ [WalkNext]_walkVars => InBounds'
  <2> SUFFICES ASSUME InBounds, [WalkNext]_walkVars PROVE InBounds'
    OBVIOUS
  <2>1. Length \in Nat \ {0}
    BY WalkAssumption
  <2>2. CASE NextWord
    <3>1. at' \in 0 .. Length - 1
      BY <2>1, <2>2 DEF NextWord, InBounds
    <3> QED
      BY <2>2, <3>1 DEF NextWord, InBounds
  <2>3. CASE NextBank
    <3>1. at' \in 0 .. Length - 1
      BY <2>1, <2>3 DEF NextBank
    <3>2. bank[1] \in DpuIds /\ bank[2] \in Groups
      BY BankOf DEF InBounds
    <3>3. bank' \in DpuIds \X Groups
      BY <2>3, <3>2 DEF NextBank, DpuIds, Groups
    <3> QED
      BY <2>3, <3>1, <3>3 DEF NextBank, InBounds
  <2>4. CASE UNCHANGED walkVars
    BY <2>4 DEF walkVars, InBounds
  <2> QED
    BY <2>2, <2>3, <2>4 DEF WalkNext
<1> QED
  BY <1>1, <1>2, PTL DEF WalkSpec

(***************************************************************************)
(* For any place and length within MRAM, every word of every bank that the *)
(* loops come to is stored on, and loaded from, the line on which the      *)
(* hardware keeps it, and its bytes in the chip of its DPU.                *)
(***************************************************************************)
THEOREM EveryByteReachesDpu == WalkSpec => []BytesReachDpu
<1>1. InBounds => BytesReachDpu
  <2> SUFFICES ASSUME InBounds PROVE BytesReachDpu
    OBVIOUS
  <2>1. word \in MramWord /\ bank[1] \in DpuIds /\ bank[2] \in Groups
    BY WordInMram, BankOf DEF InBounds
  <2>2. HostLine(word, bank[1], bank[2]) = OraclePath(word, bank[1] + 4 * bank[2])
    BY <2>1, HostLineIsDpuLine
  <2> QED
    BY <2>2, InterleaveTransposes DEF BytesReachDpu
<1> QED
  BY <1>1, WalkInBounds, PTL

(***************************************************************************)
(* For any set of places and any length, the line of a word and a bank is  *)
(* the line of no other word or bank of any of these transfers.            *)
(***************************************************************************)
THEOREM WordsHaveOwnLines == WalkSpec => []LinesApart
<1>1. InBounds => LinesApart
  <2> SUFFICES ASSUME InBounds, NEW w \in TouchedWords, NEW d \in DpuIds, NEW g \in Groups,
                      HostLine(w, d, g) = HostLine(word, bank[1], bank[2])
               PROVE  w = word /\ bank = <<d, g>>
    BY Zenon DEF LinesApart
  <2>1. w \in MramWord
    BY DEF TouchedWords
  <2>2. word \in MramWord /\ bank[1] \in DpuIds /\ bank[2] \in Groups
    BY WordInMram, BankOf DEF InBounds
  <2>3. w = word /\ d = bank[1] /\ g = bank[2]
    BY <2>1, <2>2, HostLineInjective
  <2>4. bank = <<bank[1], bank[2]>>
    BY BankOf DEF InBounds
  <2> QED
    BY <2>3, <2>4
<1> QED
  BY <1>1, WalkInBounds, PTL

(***************************************************************************)
(* The bits of FastPath.                                                   *)
(***************************************************************************)
LEMMA BitIs ==
  ASSUME NEW x
  PROVE  /\ Bit(x, 0) = (x \div 1) % 2 /\ Bit(x, 1) = (x \div 2) % 2
         /\ Bit(x, 2) = (x \div 4) % 2 /\ Bit(x, 3) = (x \div 8) % 2
         /\ Bit(x, 4) = (x \div 16) % 2 /\ Bit(x, 5) = (x \div 32) % 2
         /\ Bit(x, 6) = (x \div 64) % 2 /\ Bit(x, 7) = (x \div 128) % 2
         /\ Bit(x, 8) = (x \div 256) % 2 /\ Bit(x, 9) = (x \div 512) % 2
         /\ Bit(x, 10) = (x \div 1024) % 2 /\ Bit(x, 11) = (x \div 2048) % 2
         /\ Bit(x, 12) = (x \div 4096) % 2 /\ Bit(x, 13) = (x \div 8192) % 2
         /\ Bit(x, 14) = (x \div 16384) % 2 /\ Bit(x, 15) = (x \div 32768) % 2
         /\ Bit(x, 16) = (x \div 65536) % 2 /\ Bit(x, 17) = (x \div 131072) % 2
         /\ Bit(x, 18) = (x \div 262144) % 2 /\ Bit(x, 19) = (x \div 524288) % 2
         /\ Bit(x, 20) = (x \div 1048576) % 2 /\ Bit(x, 21) = (x \div 2097152) % 2
         /\ Bit(x, 22) = (x \div 4194304) % 2 /\ Bit(x, 23) = (x \div 8388608) % 2
         /\ Bit(x, 24) = (x \div 16777216) % 2 /\ Bit(x, 25) = (x \div 33554432) % 2
         /\ Bit(x, 26) = (x \div 67108864) % 2
BY DEF Bit

\* The bits the masks keep.
LEMMA MaskBits ==
  ASSUME NEW k \in 0 .. 26
  PROVE  /\ Bit(mask_move_7, k) = 1 <=> k = 10 \/ k >= 19
         /\ Bit(mask_move_6, k) = 1 <=> k \in 12 .. 18
         /\ Bit(mask_move_14, k) = 1 <=> k = 11
         /\ Bit(mask_move_4, k) = 1 <=> k <= 9
<1>1. Bit(mask_move_7, k) = 1 <=> k = 10 \/ k >= 19
  BY SMT, BitIs DEF mask_move_7
<1>2. Bit(mask_move_6, k) = 1 <=> k \in 12 .. 18
  BY SMT, BitIs DEF mask_move_6
<1>3. Bit(mask_move_14, k) = 1 <=> k = 11
  BY SMT, BitIs DEF mask_move_14
<1>4. Bit(mask_move_4, k) = 1 <=> k <= 9
  BY SMT, BitIs DEF mask_move_4
<1> QED
  BY <1>1, <1>2, <1>3, <1>4

\* The bits of a number above a place, and those below one.
LEMMA BitsAbove ==
  ASSUME NEW x \in Nat
  PROVE  /\ \A k \in 0 .. 9 : Bit(x, 1 + k) = Bit(x \div 2, k)
         /\ \A k \in 0 .. 6 : Bit(x, 12 + k) = Bit(x \div 4096, k)
         /\ \A k \in 0 .. 6 : Bit(x, 15 + k) = Bit(x \div 32768, k)
         /\ \A k \in 0 .. 3 : Bit(x, 19 + k) = Bit(x \div 524288, k)
         /\ \A k \in 0 .. 3 : Bit(x, 23 + k) = Bit(x \div 8388608, k)
<1>1. \A k \in 0 .. 9 : Bit(x, 1 + k) = Bit(x \div 2, k)
  <2>1. /\ Bit(x, 1) = Bit(x \div 2, 0) /\ Bit(x, 2) = Bit(x \div 2, 1)
        /\ Bit(x, 3) = Bit(x \div 2, 2) /\ Bit(x, 4) = Bit(x \div 2, 3)
    BY SMT DEF Bit
  <2>2. /\ Bit(x, 5) = Bit(x \div 2, 4) /\ Bit(x, 6) = Bit(x \div 2, 5)
        /\ Bit(x, 7) = Bit(x \div 2, 6) /\ Bit(x, 8) = Bit(x \div 2, 7)
    BY SMT DEF Bit
  <2>3. /\ Bit(x, 9) = Bit(x \div 2, 8) /\ Bit(x, 10) = Bit(x \div 2, 9)
    BY SMT DEF Bit
  <2> QED
    BY SMT, <2>1, <2>2, <2>3
<1>2. \A k \in 0 .. 6 : Bit(x, 12 + k) = Bit(x \div 4096, k)
  <2>1. /\ Bit(x, 12) = Bit(x \div 4096, 0) /\ Bit(x, 13) = Bit(x \div 4096, 1)
        /\ Bit(x, 14) = Bit(x \div 4096, 2) /\ Bit(x, 15) = Bit(x \div 4096, 3)
    BY SMT DEF Bit
  <2>2. /\ Bit(x, 16) = Bit(x \div 4096, 4) /\ Bit(x, 17) = Bit(x \div 4096, 5)
        /\ Bit(x, 18) = Bit(x \div 4096, 6)
    BY SMT DEF Bit
  <2> QED
    BY SMT, <2>1, <2>2
<1>3. \A k \in 0 .. 6 : Bit(x, 15 + k) = Bit(x \div 32768, k)
  <2>1. /\ Bit(x, 15) = Bit(x \div 32768, 0) /\ Bit(x, 16) = Bit(x \div 32768, 1)
        /\ Bit(x, 17) = Bit(x \div 32768, 2) /\ Bit(x, 18) = Bit(x \div 32768, 3)
    BY SMT DEF Bit
  <2>2. /\ Bit(x, 19) = Bit(x \div 32768, 4) /\ Bit(x, 20) = Bit(x \div 32768, 5)
        /\ Bit(x, 21) = Bit(x \div 32768, 6)
    BY SMT DEF Bit
  <2> QED
    BY SMT, <2>1, <2>2
<1>4. \A k \in 0 .. 3 : Bit(x, 19 + k) = Bit(x \div 524288, k)
  <2>1. /\ Bit(x, 19) = Bit(x \div 524288, 0) /\ Bit(x, 20) = Bit(x \div 524288, 1)
        /\ Bit(x, 21) = Bit(x \div 524288, 2) /\ Bit(x, 22) = Bit(x \div 524288, 3)
    BY SMT DEF Bit
  <2> QED
    BY SMT, <2>1
<1>5. \A k \in 0 .. 3 : Bit(x, 23 + k) = Bit(x \div 8388608, k)
  <2>1. /\ Bit(x, 23) = Bit(x \div 8388608, 0) /\ Bit(x, 24) = Bit(x \div 8388608, 1)
        /\ Bit(x, 25) = Bit(x \div 8388608, 2) /\ Bit(x, 26) = Bit(x \div 8388608, 3)
    BY SMT DEF Bit
  <2> QED
    BY SMT, <2>1
<1> QED
  BY SMT, <1>1, <1>2, <1>3, <1>4, <1>5

LEMMA BitsBelow ==
  ASSUME NEW q \in Nat, NEW r \in Nat
  PROVE  /\ \A k \in 0 .. 9 : Bit(1024 * q + r, k) = Bit(r, k)
         /\ \A k \in 0 .. 6 : Bit(128 * q + r, k) = Bit(r, k)
<1>1. \A k \in 0 .. 9 : Bit(1024 * q + r, k) = Bit(r, k)
  <2>1. /\ Bit(1024 * q + r, 0) = Bit(r, 0) /\ Bit(1024 * q + r, 1) = Bit(r, 1)
        /\ Bit(1024 * q + r, 2) = Bit(r, 2) /\ Bit(1024 * q + r, 3) = Bit(r, 3)
    BY SMT DEF Bit
  <2>2. /\ Bit(1024 * q + r, 4) = Bit(r, 4) /\ Bit(1024 * q + r, 5) = Bit(r, 5)
        /\ Bit(1024 * q + r, 6) = Bit(r, 6) /\ Bit(1024 * q + r, 7) = Bit(r, 7)
    BY SMT DEF Bit
  <2>3. /\ Bit(1024 * q + r, 8) = Bit(r, 8) /\ Bit(1024 * q + r, 9) = Bit(r, 9)
    BY SMT DEF Bit
  <2> QED
    BY SMT, <2>1, <2>2, <2>3
<1>2. \A k \in 0 .. 6 : Bit(128 * q + r, k) = Bit(r, k)
  <2>1. /\ Bit(128 * q + r, 0) = Bit(r, 0) /\ Bit(128 * q + r, 1) = Bit(r, 1)
        /\ Bit(128 * q + r, 2) = Bit(r, 2) /\ Bit(128 * q + r, 3) = Bit(r, 3)
    BY SMT DEF Bit
  <2>2. /\ Bit(128 * q + r, 4) = Bit(r, 4) /\ Bit(128 * q + r, 5) = Bit(r, 5)
        /\ Bit(128 * q + r, 6) = Bit(r, 6)
    BY SMT DEF Bit
  <2> QED
    BY SMT, <2>1, <2>2
<1> QED
  BY SMT, <1>1, <1>2

\* The bits of a word address are those of its digits.
LEMMA WordBits ==
  ASSUME NEW w, NEW hi, NEW f, NEW b14, NEW b13, NEW lo,
         Digits(w, hi, f, b14, b13, lo)
  PROVE  /\ \A k \in 0 .. 9 : Bit(w, k) = Bit(lo, k)
         /\ Bit(w, 10) = b13 /\ Bit(w, 11) = b14
         /\ \A k \in 0 .. 6 : Bit(w, 12 + k) = Bit(f, k)
         /\ \A k \in 0 .. 3 : Bit(w, 19 + k) = Bit(hi, k)
<1> DEFINE q == 512 * hi + 4 * f + 2 * b14 + b13
<1>1. /\ w \in Nat /\ q \in Nat /\ hi \in Nat /\ f \in Nat /\ lo \in Nat
      /\ w = 1024 * q + lo
  BY SMT DEF Digits
<1> HIDE DEF q
<1>2. \A k \in 0 .. 9 : Bit(w, k) = Bit(lo, k)
  BY SMT, <1>1, BitsBelow
<1>3. Bit(w, 10) = b13 /\ Bit(w, 11) = b14
  BY SMT DEF Bit, Digits
<1>4. w \div 4096 = 128 * hi + f /\ w \div 524288 = hi
  BY SMT DEF Digits
<1>5. \A k \in 0 .. 6 : Bit(w, 12 + k) = Bit(f, k)
  <2>1. \A k \in 0 .. 6 : Bit(w, 12 + k) = Bit(w \div 4096, k)
    BY SMT, <1>1, BitsAbove
  <2>2. \A k \in 0 .. 6 : Bit(128 * hi + f, k) = Bit(f, k)
    BY SMT, <1>1, BitsBelow
  <2> QED
    BY SMT, <1>4, <2>1, <2>2
<1>6. \A k \in 0 .. 3 : Bit(w, 19 + k) = Bit(hi, k)
  BY SMT, <1>1, <1>4, BitsAbove
<1> QED
  BY SMT, <1>2, <1>3, <1>5, <1>6

\* The same bits, moved as FastPath moves them.
LEMMA LineBits ==
  ASSUME NEW w, NEW hi, NEW f, NEW b14, NEW b13, NEW lo,
         Digits(w, hi, f, b14, b13, lo), NEW dpu_id \in DpuIds,
         NEW line, line = FastPath(w, dpu_id)
  PROVE  /\ Bit(line, 0) = 0 /\ Bit(line, 11) = 0
         /\ \A k \in 0 .. 9 : Bit(line, 1 + k) = Bit(lo, k)
         /\ Bit(line, 12) = Bit(dpu_id, 0) /\ Bit(line, 13) = Bit(dpu_id, 1)
         /\ Bit(line, 14) = b13 /\ Bit(line, 22) = b14
         /\ \A k \in 0 .. 6 : Bit(line, 15 + k) = Bit(f, k)
         /\ \A k \in 0 .. 3 : Bit(line, 23 + k) = Bit(hi, k)
<1> DEFINE q == 4096 * hi + 2048 * b14 + 16 * f + 8 * b13 + 2 * dpu_id
           p == 2 * hi + b14
<1>1. line = 8388608 * hi + 4194304 * b14 + 32768 * f + 16384 * b13 + 4096 * dpu_id + 2 * lo
  BY SMT, FastPathDigits
<1>2. /\ hi \in Nat /\ f \in Nat /\ f < 128 /\ lo \in Nat /\ lo < 1024
      /\ b13 \in {0, 1} /\ b14 \in {0, 1} /\ dpu_id \in Nat /\ dpu_id < 4
  BY SMT DEF Digits, DpuIds
<1>3. line \in Nat /\ q \in Nat /\ line \div 2 = 1024 * q + lo
  BY SMT, <1>1, <1>2
<1> HIDE DEF q
<1>4. Bit(line, 0) = 0 /\ Bit(line, 11) = 0
  BY SMT, <1>1, <1>2 DEF Bit
<1>5. \A k \in 0 .. 9 : Bit(line, 1 + k) = Bit(lo, k)
  <2>1. \A k \in 0 .. 9 : Bit(line, 1 + k) = Bit(line \div 2, k)
    BY SMT, <1>3, BitsAbove
  <2>2. \A k \in 0 .. 9 : Bit(1024 * q + lo, k) = Bit(lo, k)
    BY SMT, <1>2, <1>3, BitsBelow
  <2> QED
    BY SMT, <1>3, <2>1, <2>2
<1>6. Bit(line, 12) = Bit(dpu_id, 0) /\ Bit(line, 13) = Bit(dpu_id, 1)
  BY SMT, <1>1, <1>2 DEF Bit
<1>7. Bit(line, 14) = b13 /\ Bit(line, 22) = b14
  <2>1. /\ line \div 16384 = 2 * (256 * hi + 128 * b14 + f) + b13
        /\ line \div 4194304 = 2 * hi + b14
    BY SMT, <1>1, <1>2
  <2>2. /\ Bit(line, 14) = (line \div 16384) % 2
        /\ Bit(line, 22) = (line \div 4194304) % 2
    BY SMT DEF Bit
  <2> QED
    BY SMT, <1>2, <2>1, <2>2
<1>8. line \div 32768 = 128 * p + f /\ p \in Nat /\ line \div 8388608 = hi
  BY SMT, <1>1, <1>2
<1> HIDE DEF p
<1>9. \A k \in 0 .. 6 : Bit(line, 15 + k) = Bit(f, k)
  <2>1. \A k \in 0 .. 6 : Bit(line, 15 + k) = Bit(line \div 32768, k)
    BY SMT, <1>3, BitsAbove
  <2>2. \A k \in 0 .. 6 : Bit(128 * p + f, k) = Bit(f, k)
    BY SMT, <1>2, <1>8, BitsBelow
  <2> QED
    BY SMT, <1>8, <2>1, <2>2
<1>10. \A k \in 0 .. 3 : Bit(line, 23 + k) = Bit(hi, k)
  BY SMT, <1>3, <1>8, BitsAbove
<1> QED
  BY SMT, <1>4, <1>5, <1>6, <1>7, <1>9, <1>10

\* Each bit of a line's number is that of the expression: no two fields meet.
LEMMA FieldsAreMasks ==
  ASSUME NEW w \in MramWord, NEW dpu_id \in DpuIds, NEW n \in 0 .. 26
  PROVE  Bit(FastPath(w, dpu_id), n) = 1 <=> FastPathBit(w, dpu_id, n)
<1>1. PICK hi, f, b14, b13, lo : Digits(w, hi, f, b14, b13, lo)
  BY SMT, WordDigits
<1> DEFINE line == FastPath(w, dpu_id)
<1>2. /\ Bit(line, 0) = 0 /\ Bit(line, 11) = 0
      /\ \A k \in 0 .. 9 : Bit(line, 1 + k) = Bit(lo, k)
      /\ Bit(line, 12) = Bit(dpu_id, 0) /\ Bit(line, 13) = Bit(dpu_id, 1)
      /\ Bit(line, 14) = b13 /\ Bit(line, 22) = b14
      /\ \A k \in 0 .. 6 : Bit(line, 15 + k) = Bit(f, k)
      /\ \A k \in 0 .. 3 : Bit(line, 23 + k) = Bit(hi, k)
  BY SMT, <1>1, LineBits
<1> HIDE DEF line
<1>3. /\ \A k \in 0 .. 9 : Bit(w, k) = Bit(lo, k)
      /\ Bit(w, 10) = b13 /\ Bit(w, 11) = b14
      /\ \A k \in 0 .. 6 : Bit(w, 12 + k) = Bit(f, k)
      /\ \A k \in 0 .. 3 : Bit(w, 19 + k) = Bit(hi, k)
  BY SMT, <1>1, WordBits
<1>4. \A k \in 2 .. 14 : Bit(dpu_id, k) = 0
  <2>1. dpu_id \in Nat /\ dpu_id < 4
    BY SMT DEF DpuIds
  <2>2. /\ Bit(dpu_id, 2) = 0 /\ Bit(dpu_id, 3) = 0 /\ Bit(dpu_id, 4) = 0
        /\ Bit(dpu_id, 5) = 0 /\ Bit(dpu_id, 6) = 0 /\ Bit(dpu_id, 7) = 0
        /\ Bit(dpu_id, 8) = 0 /\ Bit(dpu_id, 9) = 0 /\ Bit(dpu_id, 10) = 0
        /\ Bit(dpu_id, 11) = 0 /\ Bit(dpu_id, 12) = 0 /\ Bit(dpu_id, 13) = 0
        /\ Bit(dpu_id, 14) = 0
    BY SMT, <2>1 DEF Bit
  <2> QED
    BY SMT, <2>2
<1>5. \A m \in 0 .. 26 : /\ Bit(mask_move_7, m) = 1 <=> m = 10 \/ m >= 19
                         /\ Bit(mask_move_6, m) = 1 <=> m \in 12 .. 18
                         /\ Bit(mask_move_14, m) = 1 <=> m = 11
                         /\ Bit(mask_move_4, m) = 1 <=> m <= 9
  BY SMT, MaskBits
<1>6. Bit(line, n) = 1 <=> FastPathBit(w, dpu_id, n)
  BY SMT, <1>2, <1>3, <1>4, <1>5 DEF FastPathBit, Moved
<1> QED
  BY SMT, <1>6 DEF line

(***************************************************************************)
(* For any place and length within MRAM, the quotients and remainders that *)
(* FastPath is written with here are the masks, shifts and `or's of the    *)
(* code, in every bit of the number of every line the loops come to.       *)
(***************************************************************************)
THEOREM QuotientsAreMasks == WalkSpec => []FastPathIsMasks
<1>1. InBounds => FastPathIsMasks
  <2> SUFFICES ASSUME InBounds PROVE FastPathIsMasks
    OBVIOUS
  <2>1. word \in MramWord /\ bank[1] \in DpuIds /\ 0 \in Groups
    BY WordInMram, BankOf DEF InBounds, Groups
  <2>2. HostLine(word, bank[1], 0) \in Nat /\ HostLine(word, bank[1], 0) < REGION_LINES
    BY <2>1, HostLineInRegion, Zenon
  <2>3. FastPath(word, bank[1]) \in Int
    BY SMT, <2>1, WordBounds DEF FastPath, DpuIds, W4M, W8K, W16K, W32K
  <2>4. FastPath(word, bank[1]) \in 0 .. REGION_LINES - 1
    <3>1. REGION_LINES \in Int
      BY SMT DEF REGION_LINES
    <3>2. HostLine(word, bank[1], 0) = FastPath(word, bank[1])
      BY SMT, <2>3 DEF HostLine
    <3> QED
      BY SMT, <2>2, <3>1, <3>2
  <2> QED
    BY SMT, <2>1, <2>4, FieldsAreMasks DEF FastPathIsMasks
<1> QED
  BY <1>1, WalkInBounds, PTL
=============================================================================
