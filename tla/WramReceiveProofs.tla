------------------------- MODULE WramReceiveProofs -------------------------
(***************************************************************************)
(* For any number of control interfaces and positions, any DPUs enabled,   *)
(* any request and failures anywhere: no buffer ever holds words of        *)
(* another DPU, and a call that returns has filled them all.               *)
(***************************************************************************)
EXTENDS WramReceive, TLAPS

(***************************************************************************)
(* The table of buffers: a position and an interface name one slot, and    *)
(* each slot has one position and interface.                               *)
(***************************************************************************)
Slot(ci, m) == get_transfer_matrix_index(m, ci)

\* Fewer whole rows make a smaller index.
LEMMA RowsApart ==
  ASSUME NEW a \in Nat, NEW b \in Nat, NEW m \in Members, NEW n \in Members, a < b
  PROVE  a * NrMembers + m < b * NrMembers + n
<1>1. NrMembers \in Nat /\ m \in Nat /\ n \in Nat /\ m < NrMembers
  BY WramAssumption DEF Members
<1>2. PICK k \in Nat : b = a + 1 + k
  <2>1. b - a - 1 \in Nat /\ b = a + 1 + (b - a - 1)
    OBVIOUS
  <2> QED
    BY <2>1
<1>3. b * NrMembers = a * NrMembers + NrMembers + k * NrMembers
  BY <1>1, <1>2
<1>4. a * NrMembers \in Nat /\ k * NrMembers \in Nat /\ b * NrMembers \in Nat
  BY <1>1
<1> QED
  BY <1>1, <1>3, <1>4

LEMMA SlotInjective ==
  ASSUME NEW c \in CIs, NEW d \in CIs, NEW m \in Members, NEW n \in Members,
         Slot(c, m) = Slot(d, n)
  PROVE  c = d /\ m = n
<1>1. c \in Nat /\ d \in Nat /\ m \in Nat /\ n \in Nat /\ NrMembers \in Nat
  BY WramAssumption DEF CIs, Members
<1>2. c * NrMembers \in Nat /\ d * NrMembers \in Nat
  BY <1>1
<1>3. c * NrMembers + m = d * NrMembers + n
  BY DEF Slot, get_transfer_matrix_index
<1>4. ASSUME c < d PROVE FALSE
  <2>1. c * NrMembers + m < d * NrMembers + n
    BY <1>1, <1>4, RowsApart
  <2> QED
    BY <2>1, <1>1, <1>2, <1>3
<1>5. ASSUME d < c PROVE FALSE
  <2>1. d * NrMembers + n < c * NrMembers + m
    BY <1>1, <1>5, RowsApart
  <2> QED
    BY <2>1, <1>1, <1>2, <1>3
<1>6. c = d
  BY <1>1, <1>4, <1>5
<1> QED
  BY <1>1, <1>2, <1>3, <1>6

LEMMA SlotType ==
  ASSUME NEW c \in CIs, NEW m \in Members
  PROVE  Slot(c, m) \in Slots
<1>1. c \in Nat /\ m \in Nat /\ m < NrMembers /\ NrMembers \in Nat /\ NrCIs \in Nat /\ c < NrCIs
  BY WramAssumption DEF CIs, Members
<1>2. PICK k \in Nat : NrCIs = c + 1 + k
  <2>1. NrCIs - c - 1 \in Nat /\ NrCIs = c + 1 + (NrCIs - c - 1)
    BY <1>1
  <2> QED
    BY <2>1
<1>3. NrCIs * NrMembers = c * NrMembers + NrMembers + k * NrMembers
  BY <1>1, <1>2
<1>4. c * NrMembers \in Nat /\ k * NrMembers \in Nat /\ NrCIs * NrMembers \in Nat
  BY <1>1
<1> QED
  BY <1>1, <1>3, <1>4 DEF Slot, Slots, get_transfer_matrix_index

LEMMA SlotDigits ==
  ASSUME NEW s \in Slots
  PROVE  /\ s \div NrMembers \in CIs /\ s % NrMembers \in Members
         /\ s = Slot(s \div NrMembers, s % NrMembers)
<1> DEFINE q == s \div NrMembers
           r == s % NrMembers
<1>1. NrMembers \in Nat /\ NrMembers > 0 /\ NrCIs \in Nat /\ s \in Nat /\ NrCIs * NrMembers \in Nat
  BY WramAssumption DEF Slots
<1>2. r \in Members /\ q \in Int /\ s = q * NrMembers + r
  BY <1>1 DEF Members
<1>3. q \in Nat
  BY <1>1, <1>2 DEF Members
<1>4. s < NrCIs * NrMembers
  BY <1>1 DEF Slots
<1>5. ~(NrCIs <= q)
  <2>1. SUFFICES ASSUME NrCIs <= q PROVE FALSE
    OBVIOUS
  <2>2. PICK k \in Nat : q = NrCIs + k
    <3>1. q - NrCIs \in Nat /\ q = NrCIs + (q - NrCIs)
      BY <1>1, <1>3, <2>1
    <3> QED
      BY <3>1
  <2>3. q * NrMembers = NrCIs * NrMembers + k * NrMembers /\ k * NrMembers \in Nat
    BY <1>1, <2>2
  <2> QED
    BY <1>1, <1>2, <1>4, <2>3 DEF Members
<1> QED
  BY <1>1, <1>2, <1>3, <1>5 DEF CIs, Slot, get_transfer_matrix_index

LEMMA DigitsOfSlot ==
  ASSUME NEW c \in CIs, NEW m \in Members
  PROVE  Slot(c, m) \div NrMembers = c /\ Slot(c, m) % NrMembers = m
<1> DEFINE s == Slot(c, m)
<1>1. s \in Slots
  BY SlotType
<1>2. s \div NrMembers \in CIs /\ s % NrMembers \in Members
      /\ s = Slot(s \div NrMembers, s % NrMembers)
  BY <1>1, SlotDigits
<1> HIDE DEF s
<1>3. Slot(c, m) = Slot(s \div NrMembers, s % NrMembers)
  BY <1>2 DEF s
<1>4. c = s \div NrMembers /\ m = s % NrMembers
  BY <1>2, <1>3, SlotInjective
<1> QED
  BY <1>4 DEF s

(***************************************************************************)
(* The invariant.  What is about to be read is known: mask are the DPUs of *)
(* this iteration that have a buffer, wram_array points to these buffers,  *)
(* and the DPUs are the ones selected; those of earlier iterations have    *)
(* their words.                                                            *)
(***************************************************************************)
Aimed ==
    /\ pc \in {"select", "read"} =>
          More /\ mask = Here /\ \A ci \in mask : wram_array[ci] = Slot(ci, each_dpu)
    /\ pc = "read" => \A ci \in mask : selected[ci] = each_dpu

ReadSoFar ==
    /\ pc = "start" => each_dpu = 0
    /\ pc \in {"scan", "select", "read"} =>
          \A s \in present : s % NrMembers < each_dpu => bufs[s] = OwnWords(s)

IInv == TypeOK /\ Aimed /\ ReadSoFar /\ OwnWordsOnly /\ ReadComplete

LEMMA BoundsOfLoop == NrMembers \in Nat /\ NrCIs \in Nat /\ (TypeOK => each_dpu \in Nat)
BY WramAssumption DEF TypeOK

LEMMA InitHolds == Init => IInv
<1> SUFFICES ASSUME Init PROVE IInv
  OBVIOUS
<1>1. TypeOK
  <2>1. 0 \in 0 .. NrMembers
    BY WramAssumption
  <2>2. bufs \in [Slots -> [Indices -> [ci : CIs, member : Members, word : Nat] \cup {Untouched}]]
    BY DEF Init
  <2> QED
    BY <2>1, <2>2 DEF Init, TypeOK
<1>2. OwnWordsOnly
  BY DEF Init, OwnWordsOnly, Empty
<1> QED
  BY <1>1, <1>2 DEF Init, IInv, Aimed, ReadSoFar, ReadComplete

\* What reading the DPUs on some of the interfaces of mask does to a buffer.
LEMMA Served ==
  ASSUME IInv, pc = "read", NEW cis \in SUBSET mask, NEW s \in Slots
  PROVE  Filled(cis)[s] = IF \E ci \in cis : s = Slot(ci, each_dpu) THEN OwnWords(s) ELSE bufs[s]
<1>1. /\ each_dpu \in Members /\ mask \subseteq CIs
      /\ \A ci \in mask : wram_array[ci] = Slot(ci, each_dpu) /\ selected[ci] = each_dpu
  BY BoundsOfLoop DEF IInv, TypeOK, Aimed, More, Members
<1>2. bufs[s] = [i \in Indices |-> bufs[s][i]]
  BY DEF IInv, TypeOK
<1>3. CASE ~ \E ci \in cis : s = Slot(ci, each_dpu)
  <2>1. ~ \E ci \in cis : wram_array[ci] = s
    BY <1>1, <1>3
  <2>2. Filled(cis)[s] = [i \in Indices |-> bufs[s][i]]
    BY <2>1 DEF Filled
  <2> QED
    BY <1>2, <1>3, <2>2
<1>4. CASE \E ci \in cis : s = Slot(ci, each_dpu)
  <2>1. \E ci \in cis : wram_array[ci] = s
    BY <1>1, <1>4
  <2> DEFINE c == CHOOSE ci \in cis : wram_array[ci] = s
  <2>2. c \in cis /\ wram_array[c] = s
    BY <2>1
  <2>3. s = Slot(c, each_dpu) /\ selected[c] = each_dpu /\ c \in CIs
    BY <2>2, <1>1
  <2>4. c = s \div NrMembers /\ selected[c] = s % NrMembers
    BY <2>3, <1>1, DigitsOfSlot
  <2>5. Filled(cis)[s] = [i \in Indices |->
            IF i < request.n THEN WramWord(c, selected[c], request.offset + i) ELSE bufs[s][i]]
    BY <2>1 DEF Filled
  <2> HIDE DEF c
  <2>6. \A i \in Indices : ~(i < request.n) => bufs[s][i] = Untouched
    BY DEF IInv, OwnWordsOnly, OwnWords, Empty
  <2>7. Filled(cis)[s] = OwnWords(s)
    BY <2>4, <2>5, <2>6 DEF OwnWords
  <2> QED
    BY <2>7, <1>4
<1> QED
  BY <1>3, <1>4

\* The buffers of the DPUs read belong to enabled DPUs.
LEMMA ServedPresent ==
  ASSUME IInv, pc = "read", NEW ci \in mask
  PROVE  Slot(ci, each_dpu) \in present
BY DEF IInv, Aimed, Here, Slot

LEMMA OwnWordsType ==
  ASSUME TypeOK, NEW s \in Slots
  PROVE  OwnWords(s) \in [Indices -> [ci : CIs, member : Members, word : Nat] \cup {Untouched}]
<1>1. s \div NrMembers \in CIs /\ s % NrMembers \in Members
  BY SlotDigits
<1>2. request.offset \in Nat
  BY WramAssumption DEF TypeOK
<1>3. \A i \in Indices : i \in Nat
  BY WramAssumption DEF Indices
<1> QED
  BY <1>1, <1>2, <1>3 DEF OwnWords, WramWord

LEMMA FilledHolds ==
  ASSUME IInv, pc = "read", NEW cis \in SUBSET mask
  PROVE  /\ Filled(cis) \in [Slots -> [Indices -> [ci : CIs, member : Members, word : Nat] \cup {Untouched}]]
         /\ \A s \in Slots : Filled(cis)[s] = Empty \/ (s \in present /\ Filled(cis)[s] = OwnWords(s))
<1>1. ASSUME NEW s \in Slots
      PROVE  /\ Filled(cis)[s] \in [Indices -> [ci : CIs, member : Members, word : Nat] \cup {Untouched}]
             /\ Filled(cis)[s] = Empty \/ (s \in present /\ Filled(cis)[s] = OwnWords(s))
  <2>1. bufs[s] \in [Indices -> [ci : CIs, member : Members, word : Nat] \cup {Untouched}]
    BY DEF IInv, TypeOK
  <2>2. bufs[s] = Empty \/ (s \in present /\ bufs[s] = OwnWords(s))
    BY DEF IInv, OwnWordsOnly
  <2>3. TypeOK
    BY DEF IInv
  <2>4. (\E ci \in cis : s = Slot(ci, each_dpu)) => s \in present
    BY ServedPresent
  <2> QED
    BY <2>1, <2>2, <2>3, <2>4, Served, OwnWordsType
<1>2. Filled(cis) = [s \in Slots |-> Filled(cis)[s]]
  BY DEF Filled
<1> QED
  BY <1>1, <1>2

(***************************************************************************)
(* The steps.                                                              *)
(***************************************************************************)
LEMMA ScanHolds == IInv /\ Scan => IInv'
<1> SUFFICES ASSUME IInv, Scan PROVE IInv'
  OBVIOUS
<1>1. /\ TypeOK /\ OwnWordsOnly /\ More /\ mask' = Here
      /\ UNCHANGED <<present, request, selected, bufs>>
      /\ each_dpu \in Members
  BY BoundsOfLoop DEF IInv, Scan, MaskNow, More, TypeOK, Members
<1>2. \A ci \in CIs : wram_array'[ci] = IF ci \in Here THEN Slot(ci, each_dpu) ELSE wram_array[ci]
  BY DEF Scan, Slot
<1>3. \A ci \in CIs : Slot(ci, each_dpu) \in Slots
  BY <1>1, SlotType
<1>4. wram_array' \in [CIs -> Slots \cup {Null}]
  BY <1>1, <1>3 DEF Scan, Slot, TypeOK
<1>5. Here \subseteq CIs
  BY DEF Here
<1>6. each_dpu + 1 \in 0 .. NrMembers
  BY <1>1, BoundsOfLoop DEF More, TypeOK
<1>7. TypeOK'
  BY <1>1, <1>4, <1>5, <1>6 DEF TypeOK, Scan
<1>8. OwnWordsOnly'
  BY <1>1 DEF OwnWordsOnly, OwnWords, Empty
<1>9. CASE Here # {} /\ pc' = "select" /\ each_dpu' = each_dpu
  <2>1. Here' = Here /\ More'
    BY <1>1, <1>9 DEF Here, More
  <2>2. Aimed'
    BY <1>1, <1>2, <1>5, <1>9, <2>1 DEF Aimed
  <2>3. ReadSoFar'
    BY <1>1, <1>9 DEF IInv, ReadSoFar, OwnWords, Scan
  <2> QED
    BY <1>7, <1>8, <1>9, <2>2, <2>3 DEF IInv, ReadComplete
<1>10. CASE Here = {} /\ pc' = "scan" /\ each_dpu' = each_dpu + 1
  <2>1. ASSUME NEW s \in present, s % NrMembers < each_dpu + 1
        PROVE  s % NrMembers < each_dpu
    <3>1. s \in Slots
      BY <1>1 DEF TypeOK
    <3>2. s \div NrMembers \in CIs /\ s % NrMembers \in Members
          /\ s = Slot(s \div NrMembers, s % NrMembers)
      BY <3>1, SlotDigits
    <3>3. s % NrMembers # each_dpu
      BY <3>2, <1>10 DEF Here, Slot
    <3> QED
      BY <2>1, <3>2, <3>3, BoundsOfLoop, <1>1 DEF Members
  <2>2. ReadSoFar'
    BY <1>1, <1>10, <2>1 DEF IInv, ReadSoFar, OwnWords, Scan
  <2> QED
    BY <1>7, <1>8, <1>10, <2>2 DEF IInv, Aimed, ReadComplete
<1> QED
  BY <1>9, <1>10 DEF Scan, MaskNow

LEMMA ReadHolds == IInv /\ Read => IInv'
<1> SUFFICES ASSUME IInv, Read PROVE IInv'
  OBVIOUS
<1>1. /\ pc = "read" /\ pc' = "scan" /\ bufs' = Filled(mask) /\ each_dpu' = each_dpu + 1
      /\ UNCHANGED <<present, request, mask, wram_array, selected>>
      /\ TypeOK /\ More /\ mask = Here /\ each_dpu \in Nat
  BY BoundsOfLoop DEF IInv, Read, Aimed
<1>2. /\ bufs' \in [Slots -> [Indices -> [ci : CIs, member : Members, word : Nat] \cup {Untouched}]]
      /\ \A s \in Slots : bufs'[s] = Empty \/ (s \in present /\ bufs'[s] = OwnWords(s))
  BY <1>1, FilledHolds
<1>3. each_dpu + 1 \in 0 .. NrMembers
  BY <1>1, BoundsOfLoop DEF More
<1>4. TypeOK'
  BY <1>1, <1>2, <1>3 DEF TypeOK
<1>5. OwnWordsOnly'
  BY <1>1, <1>2 DEF OwnWordsOnly, OwnWords, Empty
<1>6. ASSUME NEW s \in present, s % NrMembers < each_dpu + 1
      PROVE  bufs'[s] = OwnWords(s)
  <2>1. s \in Slots
    BY <1>1 DEF TypeOK
  <2>2. s \div NrMembers \in CIs /\ s % NrMembers \in Members
        /\ s = Slot(s \div NrMembers, s % NrMembers)
    BY <2>1, SlotDigits
  <2>3. bufs'[s] = IF \E ci \in mask : s = Slot(ci, each_dpu) THEN OwnWords(s) ELSE bufs[s]
    BY <1>1, <2>1, Served
  <2>4. CASE s % NrMembers = each_dpu
    <3>1. s \div NrMembers \in mask
      BY <1>1, <2>2, <2>4 DEF Here, Slot
    <3> QED
      BY <2>2, <2>3, <2>4, <3>1
  <2>5. CASE s % NrMembers # each_dpu
    <3>1. s % NrMembers < each_dpu
      BY <1>1, <1>6, <2>2, <2>5, BoundsOfLoop DEF Members
    <3>2. bufs[s] = OwnWords(s)
      BY <1>1, <3>1 DEF IInv, ReadSoFar
    <3> QED
      BY <2>3, <3>2
  <2> QED
    BY <2>4, <2>5
<1>7. ReadSoFar'
  BY <1>1, <1>6 DEF ReadSoFar, OwnWords
<1> QED
  BY <1>1, <1>4, <1>5, <1>7 DEF IInv, Aimed, ReadComplete

LEMMA FailsHolds == IInv /\ Fails => IInv'
<1> SUFFICES ASSUME IInv, Fails PROVE IInv'
  OBVIOUS
<1>1. pc' = "exited" /\ UNCHANGED <<present, request, each_dpu, mask, wram_array, selected>>
  BY DEF Fails
<1>2. PICK cis \in SUBSET mask : bufs' = IF pc = "read" THEN Filled(cis) ELSE bufs
  BY DEF Fails
<1>3. /\ bufs' \in [Slots -> [Indices -> [ci : CIs, member : Members, word : Nat] \cup {Untouched}]]
      /\ \A s \in Slots : bufs'[s] = Empty \/ (s \in present /\ bufs'[s] = OwnWords(s))
  BY <1>2, FilledHolds DEF IInv, TypeOK, OwnWordsOnly
<1>4. TypeOK'
  BY <1>1, <1>3 DEF IInv, TypeOK
<1>5. OwnWordsOnly'
  BY <1>1, <1>3 DEF OwnWordsOnly, OwnWords, Empty
<1> QED
  BY <1>1, <1>4, <1>5 DEF IInv, Aimed, ReadSoFar, ReadComplete

LEMMA ReturnHolds == IInv /\ Return => IInv'
<1> SUFFICES ASSUME IInv, Return PROVE IInv'
  OBVIOUS
<1>1. /\ pc = "scan" /\ ~More /\ pc' = "returned"
      /\ UNCHANGED <<present, request, each_dpu, mask, wram_array, selected, bufs>>
  BY DEF Return
<1>2. ASSUME NEW s \in present PROVE bufs[s] = OwnWords(s)
  <2>1. s % NrMembers \in Members
    BY SlotDigits DEF IInv, TypeOK
  <2>2. s % NrMembers < each_dpu
    BY <1>1, <2>1, BoundsOfLoop DEF IInv, More, Members
  <2> QED
    BY <1>1, <2>2 DEF IInv, ReadSoFar
<1> QED
  BY <1>1, <1>2 DEF IInv, TypeOK, Aimed, ReadSoFar, OwnWordsOnly, ReadComplete, OwnWords, Empty

LEMMA NothingToReadHolds == IInv /\ NothingToRead => IInv'
<1> SUFFICES ASSUME IInv, NothingToRead PROVE IInv'
  OBVIOUS
<1>1. /\ pc = "start" /\ request.n = 0 /\ pc' = "returned"
      /\ UNCHANGED <<present, request, each_dpu, mask, wram_array, selected, bufs>>
  BY DEF NothingToRead
<1>2. \A i \in Indices : ~(i < 0)
  BY WramAssumption DEF Indices
<1>3. ASSUME NEW s \in present PROVE bufs[s] = OwnWords(s)
  <2>1. OwnWords(s) = Empty
    BY <1>1, <1>2 DEF OwnWords, Empty
  <2> QED
    BY <2>1 DEF IInv, TypeOK, OwnWordsOnly
<1> QED
  BY <1>1, <1>3 DEF IInv, TypeOK, Aimed, ReadSoFar, OwnWordsOnly, ReadComplete, OwnWords, Empty

LEMMA StepHolds == IInv /\ [Next]_vars => IInv'
<1> SUFFICES ASSUME IInv, [Next]_vars PROVE IInv'
  OBVIOUS
<1>1. CASE Verify
  <2>1. /\ pc = "start" /\ pc' \in {"aborted", "scan"}
        /\ UNCHANGED <<present, request, each_dpu, mask, wram_array, selected, bufs>>
    BY <1>1 DEF Verify
  <2>2. \A s \in present : ~(s % NrMembers < each_dpu)
    <3>1. \A s \in present : s % NrMembers \in Members
      BY SlotDigits DEF IInv, TypeOK
    <3> QED
      BY <2>1, <3>1, BoundsOfLoop DEF IInv, ReadSoFar, Members
  <2> QED
    BY <2>1, <2>2 DEF IInv, TypeOK, Aimed, ReadSoFar, OwnWordsOnly, ReadComplete, OwnWords, Empty
<1>2. CASE Select
  <2>1. /\ pc = "select" /\ pc' = "read"
        /\ UNCHANGED <<present, request, each_dpu, mask, wram_array, bufs>>
        /\ selected' = [ci \in CIs |-> IF ci \in mask THEN each_dpu ELSE selected[ci]]
    BY <1>2 DEF Select
  <2>2. each_dpu \in Members /\ mask \subseteq CIs
    BY <2>1, BoundsOfLoop DEF IInv, TypeOK, Aimed, More, Members
  <2>3. selected' \in [CIs -> Members \cup {Null}]
    BY <2>1, <2>2 DEF IInv, TypeOK
  <2>4. TypeOK'
    BY <2>1, <2>3 DEF IInv, TypeOK
  <2>5. Aimed'
    BY <2>1, <2>2 DEF IInv, Aimed, More, Here
  <2> QED
    BY <2>1, <2>4, <2>5 DEF IInv, ReadSoFar, OwnWordsOnly, ReadComplete, OwnWords, Empty
<1>3. CASE UNCHANGED vars
  BY <1>3 DEF vars, IInv, TypeOK, Aimed, More, Here, ReadSoFar, OwnWordsOnly, ReadComplete,
              OwnWords, Empty
<1>4. CASE Ended
  BY <1>3, <1>4 DEF Ended
<1> QED
  BY <1>1, <1>2, <1>3, <1>4, NothingToReadHolds, ScanHolds, ReadHolds, FailsHolds, ReturnHolds
     DEF Next

(***************************************************************************)
(* The theorems.                                                           *)
(***************************************************************************)
LEMMA Invariance == Spec => []IInv
BY InitHolds, StepHolds, PTL DEF Spec

\* The type invariant: every entry of wram_array is one of the table or null.
THEOREM TypeCorrect == Spec => []TypeOK
<1>1. IInv => TypeOK
  BY DEF IInv
<1> QED
  BY <1>1, Invariance, PTL

\* A buffer holds the words of its own DPU or nothing, however the call ends.
THEOREM NoForeignWords == Spec => []OwnWordsOnly
<1>1. IInv => OwnWordsOnly
  BY DEF IInv
<1> QED
  BY <1>1, Invariance, PTL

\* A call that returns has filled the buffer of every enabled DPU.
THEOREM ReadIsComplete == Spec => []ReadComplete
<1>1. IInv => ReadComplete
  BY DEF IInv
<1> QED
  BY <1>1, Invariance, PTL
=============================================================================
