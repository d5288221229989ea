-------------------------- MODULE RankMRAMProofs --------------------------
(***************************************************************************)
(* What the worker of one rank guarantees, for every set of words, lanes   *)
(* and DPUs, every length of transfer, every access mode, every program of *)
(* the DPUs and every order in which the hardware moves lines.             *)
(***************************************************************************)
EXTENDS RankMRAM, MramAddressProofs

(***************************************************************************)
(* The geometry: cells of a transfer, slots of the table, lines.           *)
(***************************************************************************)
\* An enabled slot is the slot of its own lane, dpu_id and group, and these are
\* modelled ones.
LEMMA EnabledSlot ==
  ASSUME NEW s \in Enabled
  PROVE  /\ s \in 0 .. 63
         /\ LaneOf(s) \in Lanes /\ DpuIdOf(s) \in Ids /\ GroupOf(s) \in Groups
         /\ s = Slot(LaneOf(s), DpuIdOf(s), GroupOf(s))
<1>1. PICK j \in Lanes, d \in Ids, g \in Groups : s = Slot(j, d, g)
  BY RankAssumption
<1>2. j \in CIs /\ d \in DpuIds
  BY MemoryAssumption
<1> QED
  BY <1>1, <1>2, SlotBijection

\* The host and a DPU agree on the line of a word, and it is a modelled line.
LEMMA EnabledLine ==
  ASSUME NEW s \in Enabled, NEW w \in Words
  PROVE  /\ DpuLine(s, w) = HostLine(w, DpuIdOf(s), GroupOf(s))
         /\ DpuLine(s, w) \in Lines
<1>1. w \in MramWord
  BY MemoryAssumption
<1>2. DpuLine(s, w) = HostLine(w, DpuIdOf(s), GroupOf(s))
  BY <1>1, EnabledSlot, SlotHostLine
<1> QED
  BY <1>2, EnabledSlot DEF Lines

\* A cell of a legal transfer has a modelled word and a modelled line.
LEMMA CellLine ==
  ASSUME request \in Calls, InMram(request), NEW c \in Cells(request.n)
  PROVE  /\ c[1] \in Ids /\ c[2] \in 0 .. request.n - 1 /\ c[3] \in Groups
         /\ c = <<c[1], c[2], c[3]>>
         /\ request.base + c[2] \in Words
         /\ LineOf(c) \in Lines
<1>1. c[1] \in Ids /\ c[2] \in 0 .. request.n - 1 /\ c[3] \in Groups /\ c = <<c[1], c[2], c[3]>>
  BY DEF Cells
<1>2. request.base + c[2] \in Words
  BY <1>1, RankAssumption
<1> QED
  BY <1>1, <1>2 DEF LineOf, Lines

\* A cell's index is an index of the caller's buffers.
LEMMA CellIndex ==
  ASSUME request \in Calls
  PROVE  /\ request.n \in Nat /\ request.base \in Nat
         /\ \A i \in 0 .. request.n - 1 : i \in Indices
<1>1. request.n \in Nat /\ request.base \in Nat /\ request.n <= MaxWords /\ MaxWords \in Nat
  BY RankAssumption
<1> QED
  BY <1>1 DEF Indices

\* Two cells of a transfer, or a cell and a word of a DPU, share a line only if
\* they are the same.
LEMMA LineOfCell ==
  ASSUME request \in Calls, InMram(request), NEW c \in Cells(request.n),
         NEW s \in Enabled, NEW w \in Words, DpuLine(s, w) = LineOf(c)
  PROVE  w = request.base + c[2] /\ DpuIdOf(s) = c[1] /\ GroupOf(s) = c[3]
<1>1. HostLine(w, DpuIdOf(s), GroupOf(s)) = HostLine(request.base + c[2], c[1], c[3])
  BY EnabledLine DEF LineOf
<1>2. w \in MramWord /\ request.base + c[2] \in MramWord
  BY CellLine, MemoryAssumption
<1>3. DpuIdOf(s) \in DpuIds /\ c[1] \in DpuIds /\ GroupOf(s) \in Groups /\ c[3] \in Groups
  BY CellLine, EnabledSlot, MemoryAssumption
<1> QED
  BY <1>1, <1>2, <1>3, HostLineInjective

\* The cell of word i of a DPU is a cell of the transfer, on that word's line.
LEMMA LineOfSlot ==
  ASSUME request \in Calls, InMram(request), NEW s \in Enabled,
         NEW i \in 0 .. request.n - 1
  PROVE  /\ CellOf(s, i) \in Cells(request.n)
         /\ request.base + i \in Words
         /\ LineOf(CellOf(s, i)) = DpuLine(s, request.base + i)
         /\ SlotAt(LaneOf(s), CellOf(s, i)) = s
<1>1. request.base + i \in Words
  BY RankAssumption
<1> QED
  BY <1>1, EnabledSlot, EnabledLine DEF CellOf, Cells, LineOf, SlotAt

(***************************************************************************)
(* Type correctness.                                                       *)
(***************************************************************************)
\* A line of the region as a gather, a fetch or a load makes it is well typed.
LEMMA LoadedType ==
  ASSUME MemTypeOK, NEW l \in Lines
  PROVE  Fetched(l) \in Content /\ Loaded(l) \in Content
<1>1. Fetched(l) \in Content
  BY DEF MemTypeOK, Fetched, Content, Val
<1> QED
  BY <1>1 DEF MemTypeOK, Loaded

LEMMA GatheredType ==
  ASSUME TypeOK, InMram(request), NEW c \in Cells(request.n)
  PROVE  Gathered(c) \in Content
<1>1. c[2] \in Indices
  BY CellLine, CellIndex DEF TypeOK
<1> QED
  BY <1>1 DEF TypeOK, Gathered, Content, Buffers

LEMMA InitType == Init => TypeOK
<1> SUFFICES ASSUME Init PROVE TypeOK
  OBVIOUS
<1>1. MemTypeOK
  BY MemoryAssumption DEF Init, MemInit, MemTypeOK, Content, Val
<1> QED
  BY <1>1, RankAssumption DEF Init, TypeOK, Phases, Val

\* The hardware's own steps keep the types of the memory.
LEMMA HardwareType ==
  ASSUME MemTypeOK, Hardware
  PROVE  MemTypeOK'
<1>1. ASSUME NEW l \in Lines, Prefetch(l) PROVE MemTypeOK'
  BY <1>1, LoadedType DEF Prefetch, MemTypeOK
<1>2. ASSUME NEW l \in Lines, Evict(l) PROVE MemTypeOK'
  BY <1>2 DEF Evict, MemTypeOK
<1>3. ASSUME NEW l \in Lines, Drain(l) PROVE MemTypeOK'
  BY <1>3 DEF Drain, MemTypeOK
<1>4. ASSUME NEW l \in Lines, PerformFlush(l) PROVE MemTypeOK'
  BY <1>4 DEF PerformFlush, MemTypeOK
<1> QED
  BY <1>1, <1>2, <1>3, <1>4, MemoryAssumption DEF Hardware

\* Each nest of loops, of either direction, comes to every word of every bank, once:
\* the body's cell and the loop counters determine each other.
THEOREM NestsVisitAll ==
  ASSUME NEW mode \in AccessMode, NEW n \in Nat
  PROVE  /\ ToVisit(mode, SendNest(mode, n)) = Cells(n)
         /\ ToVisit(mode, RecvNest(mode, n)) = Cells(n)
         /\ \A k \in SendNest(mode, n) \cup RecvNest(mode, n) : CountersOf(mode, CellAt(mode, k)) = k
<1> DEFINE I == 0 .. n - 1
<1>0. Cells(n) = Ids \X I \X Groups
  BY DEF Cells
<1>1. CASE mode = "Original"
  <2>1. \A k : CellAt(mode, k) = k /\ CountersOf(mode, k) = k
    BY <1>1 DEF CellAt, CountersOf
  <2>2. SendNest(mode, n) = Cells(n) /\ RecvNest(mode, n) = Cells(n)
    BY <1>0, <1>1 DEF SendNest, RecvNest
  <2> QED
    BY <2>1, <2>2 DEF ToVisit
<1>2. CASE mode = "RoundRobin"
  <2>1. \A k : CellAt(mode, k) = <<k[2], k[1], k[3]>> /\ CountersOf(mode, k) = <<k[2], k[1], k[3]>>
    BY <1>2 DEF CellAt, CountersOf
  <2>2. SendNest(mode, n) = I \X Ids \X Groups /\ RecvNest(mode, n) = I \X Ids \X Groups
    BY <1>2 DEF SendNest, RecvNest
  <2>3. {<<k[2], k[1], k[3]>> : k \in I \X Ids \X Groups} = Ids \X I \X Groups
    <3> HIDE DEF I
    <3>1. ASSUME NEW k \in I \X Ids \X Groups PROVE <<k[2], k[1], k[3]>> \in Ids \X I \X Groups
      OBVIOUS
    <3>2. ASSUME NEW c \in Ids \X I \X Groups
          PROVE  \E k \in I \X Ids \X Groups : c = <<k[2], k[1], k[3]>>
      <4>1. <<c[2], c[1], c[3]>> \in I \X Ids \X Groups /\ c = <<c[1], c[2], c[3]>>
        OBVIOUS
      <4> QED
        BY <4>1
    <3> QED
      BY <3>1, <3>2
  <2>4. \A k \in I \X Ids \X Groups : <<<<k[2], k[1], k[3]>>[2], <<k[2], k[1], k[3]>>[1], <<k[2], k[1], k[3]>>[3]>> = k
    <3> HIDE DEF I
    <3> QED
      OBVIOUS
  <2> HIDE DEF I
  <2>5. {CellAt(mode, k) : k \in I \X Ids \X Groups} = {<<k[2], k[1], k[3]>> : k \in I \X Ids \X Groups}
    BY <2>1
  <2>6. ASSUME NEW k \in I \X Ids \X Groups PROVE CountersOf(mode, CellAt(mode, k)) = k
    <3> DEFINE c == <<k[2], k[1], k[3]>>
    <3>1. CellAt(mode, k) = c /\ CountersOf(mode, c) = <<c[2], c[1], c[3]>>
      BY <2>1, Zenon
    <3>2. <<c[2], c[1], c[3]>> = k
      BY <2>4, Zenon
    <3> QED
      BY <3>1, <3>2, Zenon
  <2>7. ToVisit(mode, I \X Ids \X Groups) = Cells(n)
    BY <1>0, <2>3, <2>5 DEF ToVisit
  <2> QED
    BY <2>2, <2>6, <2>7
<1>3. CASE mode = "Sequential"
  <2>1. \A k : CellAt(mode, k) = <<k[1], k[3], k[2]>> /\ CountersOf(mode, k) = <<k[1], k[3], k[2]>>
    BY <1>3 DEF CellAt, CountersOf
  <2>2. SendNest(mode, n) = Ids \X Groups \X I /\ RecvNest(mode, n) = Ids \X Groups \X I
    BY <1>3 DEF SendNest, RecvNest
  <2>3. {<<k[1], k[3], k[2]>> : k \in Ids \X Groups \X I} = Ids \X I \X Groups
    <3> HIDE DEF I
    <3>1. ASSUME NEW k \in Ids \X Groups \X I PROVE <<k[1], k[3], k[2]>> \in Ids \X I \X Groups
      OBVIOUS
    <3>2. ASSUME NEW c \in Ids \X I \X Groups
          PROVE  \E k \in Ids \X Groups \X I : c = <<k[1], k[3], k[2]>>
      <4>1. <<c[1], c[3], c[2]>> \in Ids \X Groups \X I /\ c = <<c[1], c[2], c[3]>>
        OBVIOUS
      <4> QED
        BY <4>1
    <3> QED
      BY <3>1, <3>2
  <2>4. \A k \in Ids \X Groups \X I : <<k[1], <<k[1], k[3], k[2]>>[3], <<k[1], k[3], k[2]>>[2]>> = k
    <3> HIDE DEF I
    <3> QED
      OBVIOUS
  <2> HIDE DEF I
  <2>5. {CellAt(mode, k) : k \in Ids \X Groups \X I} = {<<k[1], k[3], k[2]>> : k \in Ids \X Groups \X I}
    BY <2>1
  <2>6. \A k \in Ids \X Groups \X I : CountersOf(mode, CellAt(mode, k)) = k
    BY <2>1, <2>4
  <2>7. ToVisit(mode, Ids \X Groups \X I) = Cells(n)
    BY <1>0, <2>3, <2>5 DEF ToVisit
  <2> QED
    BY <2>2, <2>6, <2>7
<1> QED
  BY <1>1, <1>2, <1>3 DEF AccessMode

LEMMA CallVisitsAll ==
  ASSUME TypeOK, Call
  PROVE  /\ request' \in Calls /\ todo' = Cells(request'.n)
         /\ pc = "idle" /\ pc' \in {"send_mux", "recv_mux"}
         /\ UNCHANGED <<memVars, cache_line, bufs, send_mode, recv_mode>>
<1>1. request' \in Calls /\ request'.n \in Nat /\ send_mode \in AccessMode /\ recv_mode \in AccessMode
  BY RankAssumption DEF Call, TypeOK
<1> QED
  BY <1>1, NestsVisitAll DEF Call

LEMMA StepType ==
  ASSUME TypeOK, Positions, [Next]_vars
  PROVE  TypeOK'
<1>1. CASE Fill
  BY <1>1, RankAssumption DEF Fill, TypeOK, MemTypeOK, memVars
<1>2. ASSUME NEW mode \in Modes, SetSendMode(mode) \/ SetRecvMode(mode) PROVE TypeOK'
  BY <1>2, RankAssumption DEF SetSendMode, SetRecvMode, TypeOK, MemTypeOK, memVars
<1>3. CASE Call
  BY <1>3, CallVisitsAll DEF TypeOK, MemTypeOK, memVars, Phases
<1>4. CASE SwitchMux
  BY <1>4 DEF SwitchMux, TypeOK, MemTypeOK, Phases
<1>5. CASE MuxFails
  BY <1>5 DEF MuxFails, TypeOK, MemTypeOK, memVars, Phases
<1>6. ASSUME NEW c \in todo, GatherAndStore(c) PROVE TypeOK'
  <2>1. c \in Cells(request.n) /\ InMram(request)
    BY <1>6 DEF TypeOK, Positions, GatherAndStore
  <2>2. Gathered(c) \in Content
    BY <2>1, GatheredType
  <2> QED
    BY <1>6, <2>2 DEF GatherAndStore, TypeOK, MemTypeOK, Content
<1>7. CASE SendFence
  BY <1>7 DEF SendFence, TypeOK, MemTypeOK, memVars, Phases, Val
<1>8. CASE PreFlush \/ PostFlush
  <2>1. InMram(request)
    BY <1>8 DEF PreFlush, PostFlush, Positions
  <2>2. Window \subseteq Lines
    BY <2>1, CellLine DEF Window, TypeOK
  <2> QED
    BY <1>8, <2>2 DEF PreFlush, PostFlush, TypeOK, MemTypeOK, Phases
<1>9. CASE PreFence \/ PostFence
  BY <1>9 DEF PreFence, PostFence, TypeOK, MemTypeOK, memVars, Phases
<1>10. ASSUME NEW c \in todo, LoadAndScatter(c) PROVE TypeOK'
  <2>1. c \in Cells(request.n) /\ InMram(request)
    BY <1>10 DEF TypeOK, Positions, LoadAndScatter
  <2>2. LineOf(c) \in Lines
    BY <2>1, CellLine DEF TypeOK
  <2>3. Loaded(LineOf(c)) \in Content
    BY <2>2, LoadedType DEF TypeOK
  <2>4. MemTypeOK'
    BY <1>10, <2>3 DEF LoadAndScatter, TypeOK, MemTypeOK
  <2>5. bufs' \in Buffers
    BY <1>10, <2>3, EnabledSlot DEF LoadAndScatter, TypeOK, Buffers, Content
  <2> QED
    BY <1>10, <2>4, <2>5 DEF LoadAndScatter, TypeOK
<1>11. CASE Launch
  BY <1>11 DEF Launch, TypeOK, MemTypeOK, Phases
<1>12. CASE Run
  <2>1. mram' \in [Lines -> Content]
    BY <1>12, RankAssumption DEF Run, TypeOK, MemTypeOK, Content
  <2> QED
    BY <1>12, <2>1 DEF Run, TypeOK, MemTypeOK, Phases
<1>13. CASE Memory
  <2>1. MemTypeOK'
    BY <1>13, HardwareType DEF Memory, TypeOK
  <2> QED
    BY <1>13, <2>1 DEF Memory, TypeOK
<1>14. CASE Ended \/ UNCHANGED vars
  BY <1>14 DEF Ended, TypeOK, MemTypeOK, vars
<1> QED
  BY <1>1, <1>2, <1>3, <1>4, <1>5, <1>6, <1>7, <1>8, <1>9, <1>10, <1>11, <1>12,
     <1>13, <1>14 DEF Next, Worker

(***************************************************************************)
(* The inductive invariant.                                                *)
(***************************************************************************)
LEMMA InitInv == Init => Inv
<1> SUFFICES ASSUME Init PROVE Inv
  OBVIOUS
<1> QED
  BY DEF Init, MemInit, Inv, NoStoreInFlight, FreshWhileReading, StaleAreFlushing,
         MovedSoFar, Positions

\* The part of the invariant about where the worker is.
LEMMA StepPositions ==
  ASSUME TypeOK, Inv, [Next]_vars
  PROVE  Positions'
<1> USE DEF Inv, Positions
<1>1. CASE Fill
  BY <1>1 DEF Fill, memVars, InMram
<1>2. ASSUME NEW mode \in Modes, SetSendMode(mode) \/ SetRecvMode(mode) PROVE Positions'
  BY <1>2 DEF SetSendMode, SetRecvMode, memVars, InMram
<1>3. CASE Call
  BY <1>3, CallVisitsAll DEF memVars, InMram
<1>4. CASE SwitchMux
  <2>1. request \in Calls
    BY DEF TypeOK
  <2> QED
    BY <1>4, <2>1, RankAssumption DEF SwitchMux, InMram
<1>5. CASE MuxFails
  BY <1>5 DEF MuxFails, memVars, InMram
<1>6. ASSUME NEW c \in todo, GatherAndStore(c) PROVE Positions'
  BY <1>6 DEF GatherAndStore, InMram
<1>7. CASE SendFence
  BY <1>7 DEF SendFence, memVars, InMram
<1>8. CASE PreFlush \/ PostFlush
  BY <1>8 DEF PreFlush, PostFlush, InMram
<1>9. CASE PreFence \/ PostFence
  BY <1>9 DEF PreFence, PostFence, memVars, InMram
<1>10. ASSUME NEW c \in todo, LoadAndScatter(c) PROVE Positions'
  BY <1>10 DEF LoadAndScatter, InMram
<1>11. CASE Launch
  BY <1>11 DEF Launch, InMram
<1>12. CASE Run
  BY <1>12 DEF Run, InMram
<1>13. CASE Memory
  <2>1. flushing' \subseteq flushing /\ mux' = mux
    BY <1>13 DEF Memory, Hardware, Prefetch, Evict, Drain, PerformFlush
  <2> QED
    BY <1>13, <2>1 DEF Memory, InMram
<1>14. CASE Ended \/ UNCHANGED vars
  BY <1>14 DEF Ended, vars, InMram
<1> QED
  BY <1>1, <1>2, <1>3, <1>4, <1>5, <1>6, <1>7, <1>8, <1>9, <1>10, <1>11, <1>12,
     <1>13, <1>14 DEF Next, Worker

\* The part about stores in flight.
LEMMA StepNoStore ==
  ASSUME TypeOK, Inv, [Next]_vars
  PROVE  NoStoreInFlight'
<1> USE DEF NoStoreInFlight
<1>0. NoStoreInFlight /\ Positions
  BY DEF Inv
<1>1. CASE Fill \/ PreFlush \/ PostFlush \/ PreFence \/ PostFence \/ Launch \/ Run
  BY <1>0, <1>1 DEF Fill, PreFlush, PostFlush, PreFence, PostFence, Launch, Run, memVars
<1>2. ASSUME NEW mode \in Modes, SetSendMode(mode) \/ SetRecvMode(mode)
      PROVE NoStoreInFlight'
  BY <1>0, <1>2 DEF SetSendMode, SetRecvMode, memVars
<1>3. CASE Call \/ SwitchMux \/ MuxFails
  BY <1>0, <1>3 DEF Call, SwitchMux, MuxFails, memVars
<1>4. ASSUME NEW c \in todo, GatherAndStore(c) PROVE NoStoreInFlight'
  BY <1>0, <1>4 DEF GatherAndStore, Positions
<1>5. CASE SendFence
  BY <1>5 DEF SendFence, memVars
<1>6. ASSUME NEW c \in todo, LoadAndScatter(c) PROVE NoStoreInFlight'
  BY <1>0, <1>6 DEF LoadAndScatter
<1>7. CASE Memory
  <2>1. mux' = mux /\ \A l \in Lines : wc'[l] # None => wc[l] # None
    BY <1>7, MemoryAssumption DEF Memory, Hardware, Prefetch, Evict, Drain, PerformFlush,
       TypeOK, MemTypeOK
  <2> QED
    BY <1>0, <1>7, <2>1 DEF Memory
<1>8. CASE Ended \/ UNCHANGED vars
  BY <1>0, <1>8 DEF Ended, vars
<1> QED
  BY <1>1, <1>2, <1>3, <1>4, <1>5, <1>6, <1>7, <1>8 DEF Next, Worker

\* The part about fresh copies.  The window is the same before and after every
\* step within a call.
LEMMA StepFresh ==
  ASSUME TypeOK, Inv, [Next]_vars
  PROVE  StaleAreFlushing' /\ FreshWhileReading'
<1>0. StaleAreFlushing /\ FreshWhileReading /\ Positions /\ NoStoreInFlight
  BY DEF Inv
<1>w. request' = request => Window' = Window
  BY DEF Window, LineOf
<1>1. CASE pc' \notin {"prefence", "read"}
  BY <1>1 DEF StaleAreFlushing, FreshWhileReading
<1>2. ASSUME NEW c \in todo, LoadAndScatter(c)
      PROVE  StaleAreFlushing' /\ FreshWhileReading'
  <2>1. c \in Cells(request.n) /\ InMram(request) /\ pc = "read" /\ pc' = "read" /\ mux = "host"
    BY <1>2 DEF TypeOK, Inv, Positions, LoadAndScatter
  <2>2. LineOf(c) \in Lines /\ LineOf(c) \in Window
    BY <2>1, CellLine DEF TypeOK, Window
  <2>3. Loaded(LineOf(c)) = mram[LineOf(c)]
    BY <1>0, <2>1, <2>2 DEF FreshWhileReading, Loaded, Fetched
  <2>4. \A l \in Window : cache'[l] \in {None, mram[l]}
    <3>1. Window \subseteq Lines
      BY <2>1, CellLine DEF TypeOK, Window
    <3> QED
      BY <1>0, <1>2, <2>1, <2>3, <3>1 DEF LoadAndScatter, FreshWhileReading, TypeOK, MemTypeOK
  <2> QED
    BY <1>2, <1>w, <2>1, <2>4 DEF LoadAndScatter, StaleAreFlushing, FreshWhileReading
<1>3. CASE PreFlush
  BY <1>3, <1>w DEF PreFlush, StaleAreFlushing, FreshWhileReading
<1>4. CASE PreFence
  BY <1>0, <1>4, <1>w DEF PreFence, memVars, StaleAreFlushing, FreshWhileReading
<1>5. CASE Memory
  <2>1. CASE pc \in {"prefence", "read"}
    <3>1. mux = "host" /\ \A l \in Lines : wc[l] = None
      BY <1>0, <2>1 DEF Positions, NoStoreInFlight
    <3>2. Window \subseteq Lines
      BY <1>0, <2>1, CellLine DEF TypeOK, Window, Positions
    <3> DEFINE Kept == \A l \in Lines :
                  \/ cache'[l] \in {None, mram[l]}
                  \/ cache'[l] = cache[l] /\ (l \in flushing => l \in flushing')
    <3>3. Kept
      <4>1. ASSUME NEW k \in Lines, Prefetch(k) PROVE Kept
        BY <3>1, <4>1 DEF Prefetch, Fetched, TypeOK, MemTypeOK
      <4>2. ASSUME NEW k \in Lines, Evict(k) PROVE Kept
        BY <4>2 DEF Evict, TypeOK, MemTypeOK
      <4>3. ASSUME NEW k \in Lines, PerformFlush(k) PROVE Kept
        BY <4>3 DEF PerformFlush, TypeOK, MemTypeOK
      <4> QED
        BY <1>5, <3>1, <4>1, <4>2, <4>3, MemoryAssumption DEF Memory, Hardware, Drain
    <3>4. mram' = mram
      BY <1>5, <3>1 DEF Memory, Hardware, Prefetch, Evict, Drain, PerformFlush
    <3> QED
      BY <1>0, <1>5, <1>w, <3>2, <3>3, <3>4 DEF Memory, StaleAreFlushing, FreshWhileReading
  <2>2. CASE pc \notin {"prefence", "read"}
    BY <1>5, <2>2 DEF Memory, StaleAreFlushing, FreshWhileReading
  <2> QED
    BY <2>1, <2>2
<1>6. CASE Ended \/ UNCHANGED vars
  BY <1>0, <1>6, <1>w DEF Ended, vars, StaleAreFlushing, FreshWhileReading
<1>7. CASE Fill \/ Call \/ SwitchMux \/ MuxFails
           \/ SendFence \/ PostFlush \/ PostFence \/ Launch \/ Run
  BY <1>1, <1>7 DEF Fill, Call, SwitchMux, MuxFails, SendFence, PostFlush, PostFence, Launch, Run
<1>8. ASSUME NEW mode \in Modes, SetSendMode(mode) \/ SetRecvMode(mode)
      PROVE  StaleAreFlushing' /\ FreshWhileReading'
  BY <1>1, <1>8 DEF SetSendMode, SetRecvMode
<1>9. ASSUME NEW c \in todo, GatherAndStore(c)
      PROVE  StaleAreFlushing' /\ FreshWhileReading'
  BY <1>1, <1>9 DEF GatherAndStore
<1> QED
  BY <1>2, <1>3, <1>4, <1>5, <1>6, <1>7, <1>8, <1>9 DEF Next, Worker

(***************************************************************************)
(* What each step does to the words of the DPUs, seen through the stores   *)
(* still in flight.                                                        *)
(***************************************************************************)
\* A store moves one word of each DPU of its bank and no other word.
LEMMA StoreEffect ==
  ASSUME TypeOK, Inv, NEW c \in todo, GatherAndStore(c),
         NEW s \in Enabled, NEW w \in Words
  PROVE  WordOf(s, w)' = IF CellOf(s, w - request.base) = c
                         THEN bufs[s][w - request.base] ELSE WordOf(s, w)
<1>1. c \in Cells(request.n) /\ InMram(request) /\ request \in Calls
  BY DEF TypeOK, Inv, Positions, GatherAndStore
<1>2. LineOf(c) \in Lines /\ DpuLine(s, w) \in Lines
  BY <1>1, CellLine, EnabledLine
<1>3. Gathered(c) \in Content /\ Gathered(c) # None
  BY <1>1, GatheredType, MemoryAssumption
<1>4. /\ wc' = [wc EXCEPT ![LineOf(c)] = Gathered(c)] /\ mram' = mram
      /\ wc \in [Lines -> Content \cup {None}]
  BY DEF GatherAndStore, TypeOK, MemTypeOK
<1>5. c = <<c[1], c[2], c[3]>> /\ c[2] \in 0 .. request.n - 1
  BY <1>1, CellLine
<1>6. w \in Int /\ request.base \in Int /\ c[2] \in Int
  BY <1>1, <1>5, CellIndex, MemoryAssumption DEF MramWord
<1>7. CASE DpuLine(s, w) = LineOf(c)
  <2>1. w = request.base + c[2] /\ DpuIdOf(s) = c[1] /\ GroupOf(s) = c[3]
    BY <1>1, <1>7, LineOfCell
  <2>2. w - request.base = c[2]
    BY <1>6, <2>1
  <2>3. CellOf(s, w - request.base) = c
    BY <1>5, <2>1, <2>2 DEF CellOf
  <2>4. SlotAt(LaneOf(s), c) = s /\ LaneOf(s) \in Lanes
    BY <2>1, EnabledSlot DEF SlotAt
  <2>5. Gathered(c)[LaneOf(s)] = bufs[s][c[2]]
    BY <2>4 DEF Gathered
  <2>6. WordOf(s, w)' = Gathered(c)[LaneOf(s)]
    BY <1>2, <1>3, <1>4, <1>7 DEF WordOf, Settled
  <2> QED
    BY <2>2, <2>3, <2>5, <2>6
<1>8. CASE DpuLine(s, w) # LineOf(c)
  <2>1. CellOf(s, w - request.base) # c
    <3> SUFFICES ASSUME CellOf(s, w - request.base) = c PROVE FALSE
      OBVIOUS
    <3>1. w - request.base = c[2] /\ DpuIdOf(s) = c[1] /\ GroupOf(s) = c[3]
      BY DEF CellOf
    <3>2. w = request.base + c[2]
      BY <1>6, <3>1
    <3> QED
      BY <1>8, <3>1, <3>2, EnabledLine DEF LineOf
  <2>2. WordOf(s, w)' = WordOf(s, w)
    BY <1>2, <1>4, <1>8 DEF WordOf, Settled
  <2> QED
    BY <2>1, <2>2
<1> QED
  BY <1>7, <1>8

\* A load moves one word of each DPU of its bank into that DPU's buffer, the
\* word the bank holds, and changes no word of a DPU.
LEMMA LoadEffect ==
  ASSUME TypeOK, Inv, NEW c \in todo, LoadAndScatter(c), NEW s \in Enabled
  PROVE  /\ \A w \in Words : WordOf(s, w)' = WordOf(s, w)
         /\ \A i \in Indices :
              bufs'[s][i] = IF CellOf(s, i) = c THEN WordOf(s, request.base + i) ELSE bufs[s][i]
<1>1. c \in Cells(request.n) /\ InMram(request) /\ request \in Calls /\ pc = "read" /\ mux = "host"
  BY DEF TypeOK, Inv, Positions, LoadAndScatter
<1>2. LineOf(c) \in Window /\ LineOf(c) \in Lines
  BY <1>1, CellLine DEF Window
<1>3. Loaded(LineOf(c)) = mram[LineOf(c)] /\ wc[LineOf(c)] = None
  BY <1>1, <1>2 DEF Inv, FreshWhileReading, NoStoreInFlight, Loaded, Fetched
<1>4. \A w \in Words : WordOf(s, w)' = WordOf(s, w)
  BY DEF LoadAndScatter, WordOf, Settled
<1>5. ASSUME NEW i \in Indices
      PROVE  bufs'[s][i] = IF CellOf(s, i) = c THEN WordOf(s, request.base + i) ELSE bufs[s][i]
  <2>1. c = <<c[1], c[2], c[3]>>
    BY <1>1, CellLine
  <2>2. bufs'[s][i] = IF i = c[2] /\ \E j \in Lanes : s = SlotAt(j, c)
                      THEN Loaded(LineOf(c))[LaneOf(s)] ELSE bufs[s][i]
    BY DEF LoadAndScatter
  <2>3. (\E j \in Lanes : s = SlotAt(j, c)) <=> DpuIdOf(s) = c[1] /\ GroupOf(s) = c[3]
    <3>1. c[1] \in DpuIds /\ c[3] \in Groups /\ \A j \in Lanes : j \in CIs
      BY <1>1, CellLine, MemoryAssumption
    <3>2. ASSUME NEW j \in Lanes, s = SlotAt(j, c)
          PROVE  DpuIdOf(s) = c[1] /\ GroupOf(s) = c[3]
      BY <3>1, <3>2, SlotBijection DEF SlotAt
    <3>3. ASSUME DpuIdOf(s) = c[1], GroupOf(s) = c[3]
          PROVE  LaneOf(s) \in Lanes /\ s = SlotAt(LaneOf(s), c)
      BY <3>3, EnabledSlot DEF SlotAt
    <3> QED
      BY <3>2, <3>3
  <2>4. CellOf(s, i) = c <=> i = c[2] /\ DpuIdOf(s) = c[1] /\ GroupOf(s) = c[3]
    BY <2>1 DEF CellOf
  <2>5. CASE CellOf(s, i) = c
    <3>1. DpuLine(s, request.base + i) = LineOf(c)
      BY <1>1, <2>4, <2>5, CellLine, LineOfSlot
    <3> QED
      BY <1>3, <2>2, <2>3, <2>4, <2>5, <3>1 DEF WordOf, Settled
  <2>6. CASE CellOf(s, i) # c
    BY <2>2, <2>3, <2>4, <2>6
  <2> QED
    BY <2>5, <2>6
<1> QED
  BY <1>4, <1>5

\* The hardware moves stores and copies about and changes no word of a DPU.
LEMMA MemoryEffect ==
  ASSUME TypeOK, Inv, Memory, NEW s \in Enabled, NEW w \in Words
  PROVE  WordOf(s, w)' = WordOf(s, w)
<1>1. DpuLine(s, w) \in Lines
  BY EnabledLine
<1>2. ASSUME NEW l \in Lines, Prefetch(l) \/ Evict(l) \/ PerformFlush(l)
      PROVE  WordOf(s, w)' = WordOf(s, w)
  BY <1>2 DEF Prefetch, Evict, PerformFlush, WordOf, Settled
<1>3. ASSUME NEW l \in Lines, Drain(l)
      PROVE  WordOf(s, w)' = WordOf(s, w)
  <2>1. mux = "host"
    BY <1>3 DEF Drain, Inv, NoStoreInFlight
  <2> QED
    BY <1>1, <1>3, <2>1 DEF Drain, WordOf, Settled, TypeOK, MemTypeOK
<1> QED
  BY <1>2, <1>3, MemoryAssumption DEF Memory, Hardware

\* The part of the invariant about the words already moved.
LEMMA StepMoved ==
  ASSUME TypeOK, Inv, [Next]_vars
  PROVE  MovedSoFar'
<1>0. MovedSoFar /\ Positions
  BY DEF Inv
<1>1. CASE pc' \notin {"store", "read", "postfence"}
  BY <1>1 DEF MovedSoFar
<1>2. CASE SwitchMux \/ PreFence
  <2>1. request' = request
    BY <1>2 DEF SwitchMux, PreFence
  <2>2. pc' \in {"store", "read", "postfence"} =>
          todo' = Cells(request.n) /\ InMram(request) /\ request \in Calls
    BY <1>0, <1>2, RankAssumption DEF SwitchMux, PreFence, Positions, TypeOK
  <2> QED
    BY <2>1, <2>2, LineOfSlot DEF MovedSoFar
<1>3. ASSUME NEW c \in todo, GatherAndStore(c) PROVE MovedSoFar'
  <2>1. /\ pc = "store" /\ request' = request /\ bufs' = bufs /\ todo' = todo \ {c}
        /\ InMram(request) /\ request \in Calls
    BY <1>0, <1>3 DEF GatherAndStore, Positions, TypeOK
  <2>2. ASSUME NEW s \in Enabled, NEW i \in 0 .. request.n - 1, CellOf(s, i) \notin todo'
        PROVE  WordOf(s, request.base + i)' = bufs[s][i]
    <3>1. request.base + i \in Words /\ (request.base + i) - request.base = i
      BY <2>1, LineOfSlot, CellIndex
    <3>2. CellOf(s, i) = c \/ CellOf(s, i) \notin todo
      BY <2>1, <2>2
    <3> QED
      BY <1>0, <1>3, <2>1, <3>1, <3>2, StoreEffect DEF MovedSoFar
  <2> QED
    BY <2>1, <2>2 DEF MovedSoFar
<1>4. ASSUME NEW c \in todo, LoadAndScatter(c) PROVE MovedSoFar'
  <2>1. /\ pc = "read" /\ request' = request /\ todo' = todo \ {c}
        /\ InMram(request) /\ request \in Calls
    BY <1>0, <1>4 DEF LoadAndScatter, Positions, TypeOK
  <2>2. ASSUME NEW s \in Enabled, NEW i \in 0 .. request.n - 1, CellOf(s, i) \notin todo'
        PROVE  WordOf(s, request.base + i)' = bufs'[s][i]
    <3>1. request.base + i \in Words /\ i \in Indices
      BY <2>1, LineOfSlot, CellIndex
    <3>2. CellOf(s, i) = c \/ CellOf(s, i) \notin todo
      BY <2>1, <2>2
    <3> QED
      BY <1>0, <1>4, <2>1, <3>1, <3>2, LoadEffect DEF MovedSoFar
  <2> QED
    BY <2>1, <2>2 DEF MovedSoFar
<1>5. CASE PostFlush
  BY <1>0, <1>5 DEF PostFlush, MovedSoFar, WordOf, Settled
<1>6. CASE Memory
  <2>1. /\ pc' = pc /\ request' = request /\ bufs' = bufs /\ todo' = todo
        /\ request \in Calls
    BY <1>6 DEF Memory, TypeOK
  <2>2. ASSUME pc \in {"store", "read", "postfence"},
               NEW s \in Enabled, NEW i \in 0 .. request.n - 1, CellOf(s, i) \notin todo
        PROVE  WordOf(s, request.base + i)' = bufs[s][i]
    <3>1. request.base + i \in Words
      BY <1>0, <2>1, <2>2, LineOfSlot DEF Positions
    <3> QED
      BY <1>0, <1>6, <2>1, <2>2, <3>1, MemoryEffect DEF MovedSoFar
  <2> QED
    BY <2>1, <2>2 DEF MovedSoFar
<1>7. CASE Ended \/ UNCHANGED vars
  BY <1>0, <1>7 DEF Ended, vars, MovedSoFar, WordOf, Settled
<1>8. CASE Fill \/ Call \/ MuxFails
           \/ SendFence \/ PreFlush \/ PostFence \/ Launch \/ Run
  BY <1>1, <1>8 DEF Fill, Call, MuxFails, SendFence, PreFlush, PostFence, Launch, Run
<1>9. ASSUME NEW mode \in Modes, SetSendMode(mode) \/ SetRecvMode(mode) PROVE MovedSoFar'
  BY <1>1, <1>9 DEF SetSendMode, SetRecvMode
<1> QED
  BY <1>2, <1>3, <1>4, <1>5, <1>6, <1>7, <1>8, <1>9 DEF Next, Worker

(***************************************************************************)
(* TypeOK and Inv hold in every state of every behaviour.  Inv is needed   *)
(* with TypeOK even for the types: only its Positions knows that a cell    *)
(* that is visited lies in the mapped region.                              *)
(***************************************************************************)
THEOREM Invariance == Spec => [](TypeOK /\ Inv)
<1>1. Init => TypeOK /\ Inv
  BY InitType, InitInv
<1>2. TypeOK /\ Inv /\ [Next]_vars => (TypeOK /\ Inv)'
  <2> SUFFICES ASSUME TypeOK, Inv, [Next]_vars PROVE TypeOK' /\ Inv'
    OBVIOUS
  <2>1. TypeOK'
    BY StepType DEF Inv
  <2> QED
    BY <2>1, StepNoStore, StepFresh, StepMoved, StepPositions DEF Inv
<1> QED
  BY <1>1, <1>2, PTL DEF Spec

\* The variables keep their types, and flushes and stores stay on lines of the
\* transfer's banks.
THEOREM TypeCorrect == Spec => []TypeOK
  BY Invariance, PTL

\* The mfence that ends SendToRankMRAM is enough: no streaming store is ever in a
\* buffer while the DPUs own the banks, nor while a receive reads them.
THEOREM StoresAreDrained == Spec => []NoStoreInFlight
<1>1. Inv => NoStoreInFlight
  BY DEF Inv
<1> QED
  BY <1>1, Invariance, PTL

\* Switching, flushing and fencing before the reads is enough: no read of a
\* receive is served by a copy older than the run of the DPUs it follows,
\* whatever the processor fetched on its own before.
THEOREM ReadsAreFresh == Spec => []FreshWhileReading
<1>1. Inv => FreshWhileReading
  BY DEF Inv
<1> QED
  BY <1>1, Invariance, PTL

\* When a send returns, the bank of every enabled DPU holds the caller's words,
\* at the place where that DPU looks for them.
THEOREM SendIsComplete == Spec => SendCompletes
<1>1. ASSUME TypeOK, Inv, Next, pc = "store", pc' = "idle",
             NEW s \in Enabled, NEW i \in 0 .. request.n - 1
      PROVE  mram'[DpuLine(s, request.base + i)][LaneOf(s)] = bufs[s][i]
  <2>1. SendFence
    BY <1>1 DEF Next, Worker, Fill, SetSendMode, SetRecvMode, Call, SwitchMux, MuxFails,
       GatherAndStore, PreFlush, PreFence, LoadAndScatter, PostFlush, PostFence,
       Launch, Run, Memory, Ended
  <2>2. todo = {} /\ mram' = mram /\ \A l \in Lines : wc[l] = None
    BY <2>1 DEF SendFence, memVars
  <2>3. WordOf(s, request.base + i) = bufs[s][i]
    BY <1>1, <2>2 DEF Inv, MovedSoFar
  <2>4. DpuLine(s, request.base + i) \in Lines
    BY <1>1, LineOfSlot, EnabledLine DEF TypeOK, Inv, Positions
  <2> QED
    BY <2>2, <2>3, <2>4 DEF WordOf, Settled
<1>2. TypeOK /\ Inv /\ [Next]_vars =>
        [pc = "store" /\ pc' = "idle" =>
           \A s \in Enabled, i \in 0 .. request.n - 1 :
              mram'[DpuLine(s, request.base + i)][LaneOf(s)] = bufs[s][i]]_vars
  BY <1>1
<1> QED
  BY <1>2, Invariance, PTL DEF Spec, SendCompletes

\* When a receive returns, the buffer of every enabled DPU holds that DPU's words.
THEOREM ReceiveIsComplete == Spec => ReceiveCompletes
<1>1. ASSUME TypeOK, Inv, Next, pc = "postfence", pc' = "idle",
             NEW s \in Enabled, NEW i \in 0 .. request.n - 1
      PROVE  bufs'[s][i] = mram[DpuLine(s, request.base + i)][LaneOf(s)]
  <2>1. PostFence
    BY <1>1 DEF Next, Worker, Fill, SetSendMode, SetRecvMode, Call, SwitchMux, MuxFails,
       GatherAndStore, PreFlush, PreFence, LoadAndScatter, PostFlush, SendFence,
       Launch, Run, Memory, Ended
  <2>2. todo = {} /\ bufs' = bufs /\ \A l \in Lines : wc[l] = None
    BY <1>1, <2>1 DEF PostFence, Inv, Positions, NoStoreInFlight
  <2>3. WordOf(s, request.base + i) = bufs[s][i]
    BY <1>1, <2>2 DEF Inv, MovedSoFar
  <2>4. DpuLine(s, request.base + i) \in Lines
    BY <1>1, LineOfSlot, EnabledLine DEF TypeOK, Inv, Positions
  <2> QED
    BY <2>2, <2>3, <2>4 DEF WordOf, Settled
<1>2. TypeOK /\ Inv /\ [Next]_vars =>
        [pc = "postfence" /\ pc' = "idle" =>
           \A s \in Enabled, i \in 0 .. request.n - 1 :
              bufs'[s][i] = mram[DpuLine(s, request.base + i)][LaneOf(s)]]_vars
  BY <1>1
<1> QED
  BY <1>2, Invariance, PTL DEF Spec, ReceiveCompletes

(***************************************************************************)
(* The worker implements RankCopy.                                         *)
(***************************************************************************)
\* A step that keeps the words of the DPUs keeps the view of them.
LEMMA SamePim ==
  ASSUME \A s \in Enabled, w \in Words : WordOf(s, w)' = WordOf(s, w)
  PROVE  PimView' = PimView
  BY DEF PimView

LEMMA SameMemory ==
  ASSUME mram' = mram, wc' = wc
  PROVE  PimView' = PimView
  BY DEF PimView, WordOf, Settled

LEMMA SameTodo ==
  ASSUME request' = request, todo' = todo
  PROVE  TodoView' = TodoView
  BY DEF TodoView, CellOf

\* Before its loops a call has every pair to copy, after them none.
LEMMA FullTodo ==
  ASSUME todo = Cells(request.n)
  PROVE  TodoView = Copy!Pairs(request)
  BY EnabledSlot DEF TodoView, Copy!Pairs, Cells, CellOf

LEMMA EmptyTodo ==
  ASSUME todo = {}
  PROVE  TodoView = {}
  BY DEF TodoView

\* Visiting a cell takes from the pairs those of its bank.
LEMMA VisitTodo ==
  ASSUME TypeOK, InMram(request), NEW c \in todo, todo' = todo \ {c}, request' = request
  PROVE  /\ TodoView' \in SUBSET TodoView
         /\ \A s \in Enabled, i \in Int :
              <<s, i>> \in TodoView \ TodoView' <=> CellOf(s, i) = c
<1>1. c \in Cells(request.n) /\ request \in Calls
  BY DEF TypeOK
<1>2. c[2] \in 0 .. request.n - 1
  BY <1>1, CellLine
<1>3. ASSUME NEW s \in Enabled, NEW i \in Int
      PROVE  <<s, i>> \in TodoView \ TodoView' <=> CellOf(s, i) = c
  <2>1. CellOf(s, i) = c => i \in 0 .. request.n - 1
    BY <1>2 DEF CellOf
  <2> QED
    BY <2>1 DEF TodoView, CellOf
<1> QED
  BY <1>3 DEF TodoView, CellOf

LEMMA InitCopy == Init => Copy!Init
<1> SUFFICES ASSUME Init PROVE Copy!Init
  OBVIOUS
<1>1. \A s \in Enabled, w \in Words : WordOf(s, w) = Blank
  BY EnabledSlot, EnabledLine DEF Init, MemInit, WordOf, Settled
<1>2. PimView = [s \in Enabled |-> [w \in Words |-> Blank]]
  BY <1>1 DEF PimView
<1> QED
  BY <1>2, EmptyTodo DEF Init, Copy!Init, PhaseView

\* A store and a load are copies of the pairs of one bank.
LEMMA StoreCopies ==
  ASSUME TypeOK, Inv, NEW c \in todo, GatherAndStore(c)
  PROVE  Copy!CopySome
<1>1. /\ pc = "store" /\ pc' = "store" /\ InMram(request) /\ request' = request
      /\ todo' = todo \ {c} /\ bufs' = bufs /\ request \in Calls
  BY DEF GatherAndStore, Inv, Positions, TypeOK
<1> DEFINE moved == TodoView \ TodoView'
<1>2. /\ TodoView' \in SUBSET TodoView
      /\ \A s \in Enabled, i \in Int : <<s, i>> \in moved <=> CellOf(s, i) = c
  BY <1>1, VisitTodo
<1>3. \A w \in Words : w - request.base \in Int
  BY <1>1, CellIndex, MemoryAssumption DEF MramWord
<1> HIDE DEF moved
<1>4. \A s \in Enabled, w \in Words :
        WordOf(s, w)' = IF <<s, w - request.base>> \in moved THEN bufs[s][w - request.base]
                        ELSE PimView[s][w]
  BY <1>2, <1>3, StoreEffect DEF PimView
<1>5. PimView' = [s \in Enabled |-> [w \in Words |->
                    IF <<s, w - request.base>> \in moved THEN bufs[s][w - request.base]
                    ELSE PimView[s][w]]]
  BY <1>4 DEF PimView
<1>6. PhaseView = "send" /\ PhaseView' = "send"
  BY <1>1 DEF PhaseView
<1> QED
  BY <1>1, <1>2, <1>5, <1>6 DEF Copy!CopySome, moved

LEMMA LoadCopies ==
  ASSUME TypeOK, Inv, NEW c \in todo, LoadAndScatter(c)
  PROVE  Copy!CopySome
<1>1. /\ pc = "read" /\ pc' = "read" /\ InMram(request) /\ request' = request
      /\ todo' = todo \ {c} /\ request \in Calls /\ c \in Cells(request.n)
      /\ bufs \in Buffers
  BY DEF LoadAndScatter, Inv, Positions, TypeOK
<1> DEFINE moved == TodoView \ TodoView'
<1>2. /\ TodoView' \in SUBSET TodoView
      /\ \A s \in Enabled, i \in Int : <<s, i>> \in moved <=> CellOf(s, i) = c
  BY <1>1, VisitTodo
<1> HIDE DEF moved
<1>3. Indices \subseteq Int
  BY DEF Indices
<1>4. \A s \in Enabled, i \in Indices : <<s, i>> \in moved <=> CellOf(s, i) = c
  BY <1>2, <1>3
<1>5. ASSUME NEW s \in Enabled, NEW i \in Indices, CellOf(s, i) = c
      PROVE  request.base + i \in Words
  BY <1>1, <1>5, CellLine DEF CellOf
<1>6. \A s \in Enabled, i \in Indices :
        bufs'[s][i] = IF <<s, i>> \in moved THEN PimView[s][request.base + i] ELSE bufs[s][i]
  <2> SUFFICES ASSUME NEW s \in Enabled, NEW i \in Indices
               PROVE  bufs'[s][i] = IF <<s, i>> \in moved THEN PimView[s][request.base + i]
                                    ELSE bufs[s][i]
    OBVIOUS
  <2>1. bufs'[s][i] = IF CellOf(s, i) = c THEN WordOf(s, request.base + i) ELSE bufs[s][i]
    BY LoadEffect
  <2>2. CellOf(s, i) = c => PimView[s][request.base + i] = WordOf(s, request.base + i)
    BY <1>5 DEF PimView
  <2> QED
    BY <1>4, <2>1, <2>2
<1>7. /\ bufs' = [s \in Enabled |-> [i \in Indices |-> bufs'[s][i]]]
      /\ \A s \in Enabled : DOMAIN bufs[s] = Indices
  BY <1>1 DEF LoadAndScatter, Buffers
<1>8. bufs' = [s \in Enabled |-> [i \in DOMAIN bufs[s] |->
                 IF <<s, i>> \in moved THEN PimView[s][request.base + i] ELSE bufs[s][i]]]
  BY <1>6, <1>7
<1>9. PimView' = PimView
  BY LoadEffect, SamePim
<1>10. PhaseView = "receive" /\ PhaseView' = "receive"
  BY <1>1 DEF PhaseView
<1> QED
  BY <1>1, <1>2, <1>8, <1>9, <1>10 DEF Copy!CopySome, moved

\* A run of the DPUs finds no store in flight, and runs on what it sees.
LEMMA RunCopies ==
  ASSUME TypeOK, Inv, Run
  PROVE  Copy!Run
<1>1. \A l \in Lines : wc[l] = None
  BY DEF Run, Inv, NoStoreInFlight
<1>2. ASSUME NEW s \in Enabled, NEW w \in Words
      PROVE  WordOf(s, w)' = Program[WordOf(s, w)]
  <2>1. DpuLine(s, w) \in Lines /\ LaneOf(s) \in Lanes
    BY EnabledLine, EnabledSlot
  <2>2. mram'[DpuLine(s, w)][LaneOf(s)] = Program[mram[DpuLine(s, w)][LaneOf(s)]]
    BY <2>1 DEF Run
  <2> QED
    BY <1>1, <2>1, <2>2 DEF Run, WordOf, Settled
<1>3. PimView' = [s \in Enabled |-> [w \in Words |-> Program[PimView[s][w]]]]
  BY <1>2 DEF PimView
<1>4. TodoView' = TodoView
  BY SameTodo DEF Run
<1> QED
  BY <1>3, <1>4 DEF Run, Copy!Run, PhaseView

LEMMA StepCopy ==
  ASSUME TypeOK, Inv, [Next]_vars
  PROVE  [Copy!Next]_Copy!vars
<1> USE DEF Copy!Next, Copy!vars
<1>1. CASE Fill
  BY <1>1, SameMemory, SameTodo DEF Fill, memVars, Copy!Fill, PhaseView
<1>2. ASSUME NEW mode \in Modes, SetSendMode(mode) \/ SetRecvMode(mode)
      PROVE  UNCHANGED Copy!vars
  BY <1>2, SameMemory, SameTodo DEF SetSendMode, SetRecvMode, memVars, PhaseView
<1>3. CASE Call
  <2>1. TodoView' = Copy!Pairs(request)'
    BY <1>3, CallVisitsAll, EnabledSlot DEF TodoView, Copy!Pairs, Cells, CellOf
  <2>2. PimView' = PimView
    BY <1>3, SameMemory DEF Call, memVars
  <2>3. Copy!Start("send") \/ Copy!Start("receive")
    BY <1>3, <2>1, <2>2, CallVisitsAll DEF Copy!Start, Copy!Pairs, PhaseView
  <2> QED
    BY <2>3
<1>4. CASE SwitchMux \/ MuxFails
  <2>1. TodoView = Copy!Pairs(request) /\ TodoView' = TodoView
    BY <1>4, FullTodo, SameTodo DEF SwitchMux, MuxFails, Inv, Positions
  <2>2. PimView' = PimView
    BY <1>4, SameMemory DEF SwitchMux, MuxFails, memVars
  <2>3. CASE pc' = "aborted"
    BY <1>4, <2>1, <2>2, <2>3 DEF SwitchMux, MuxFails, Copy!Stop, PhaseView
  <2>4. CASE pc' # "aborted"
    BY <1>4, <2>1, <2>2, <2>4 DEF SwitchMux, MuxFails, PhaseView
  <2> QED
    BY <2>3, <2>4
<1>5. ASSUME NEW c \in todo, GatherAndStore(c) \/ LoadAndScatter(c)
      PROVE  Copy!CopySome
  BY <1>5, StoreCopies, LoadCopies
<1>6. CASE SendFence \/ PostFence
  <2>1. TodoView = {} /\ TodoView' = TodoView
    BY <1>6, EmptyTodo, SameTodo DEF SendFence, PostFence, Inv, Positions
  <2>2. PimView' = PimView
    BY <1>6, SameMemory DEF SendFence, PostFence, memVars
  <2> QED
    BY <1>6, <2>1, <2>2 DEF SendFence, PostFence, Copy!Return, PhaseView
<1>7. CASE PreFlush \/ PreFence \/ PostFlush
  <2>1. TodoView' = TodoView /\ PimView' = PimView
    BY <1>7, SameTodo, SameMemory DEF PreFlush, PreFence, PostFlush, memVars
  <2> QED
    BY <1>7, <2>1 DEF PreFlush, PreFence, PostFlush, PhaseView
<1>8. CASE Launch
  BY <1>8, SameMemory, SameTodo DEF Launch, Copy!Launch, PhaseView
<1>9. CASE Run
  BY <1>9, RunCopies
<1>10. CASE Memory
  <2>1. TodoView' = TodoView /\ PimView' = PimView
    BY <1>10, SameTodo, MemoryEffect, SamePim DEF Memory
  <2> QED
    BY <1>10, <2>1 DEF Memory, PhaseView
<1>11. CASE Ended \/ UNCHANGED vars
  BY <1>11, SameMemory, SameTodo DEF Ended, vars, PhaseView
<1> QED
  BY <1>1, <1>2, <1>3, <1>4, <1>5, <1>6, <1>7, <1>8, <1>9, <1>10, <1>11 DEF Next, Worker

\* A worker's calls are copies between the caller's buffers and the memory of
\* each DPU: complete on return, of nothing else, and not begun when they fail.
THEOREM WorkerCopies == Spec => Implements
<1>1. Init => Copy!Init
  BY InitCopy
<1>2. TypeOK /\ Inv /\ [Next]_vars => [Copy!Next]_Copy!vars
  BY StepCopy
<1> QED
  BY <1>1, <1>2, Invariance, PTL DEF Spec, Implements, Copy!Spec

===========================================================================
