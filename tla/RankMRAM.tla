------------------------------ MODULE RankMRAM ------------------------------
(***************************************************************************)
(* One rank of the direct interface: SendToRankMRAM and ReceiveFromRankMRAM*)
(* with the switch of the multiplexer that precedes each of them, as the   *)
(* worker of that rank runs them between launches of the DPUs, against the *)
(* memory of HostMemory.                                                   *)
(*                                                                         *)
(* Each direction has a nest of loops for each AccessMode, which moves     *)
(* cells <<dpu_id, i, group>> in the order of its counters; the cells not  *)
(* visited yet stand for the counters.                                     *)
(* Timing and the prefetches of the host's own buffers are left out; the   *)
(* prefetches of the region in ReceiveFromRankMRAM are Prefetch steps.     *)
(***************************************************************************)
EXTENDS HostMemory

CONSTANTS Enabled,     \* the slots of the rank that have a working DPU
          MaxWords,    \* length of the caller's buffers, in words
          Fills,       \* what the caller puts in its buffers
          Calls,       \* transfers: [base |-> first word, n |-> words]
          Program,     \* what a run of the DPUs does to a word
          Modes,       \* the access modes the caller picks from
          Debug        \* are the asserts compiled in (no -DNDEBUG)

VARIABLES pc,          \* where the worker is, "idle" between calls
          request,     \* symbol_offset and length, in words
          todo,        \* cells the loops have still to visit
          cache_line,  \* the local array of SendToRankMRAM
          bufs,        \* slot -> index -> value: the caller's buffers
          send_mode, recv_mode

vars == <<mram, cache, wc, flushing, mux,
          pc, request, todo, cache_line, bufs, send_mode, recv_mode>>

AccessMode == {"Original", "RoundRobin", "Sequential"}
Indices    == 0 .. MaxWords - 1
Buffers    == [Enabled -> [Indices -> Val]]

\* The assert on MRAM_SIZE at the head of both functions.
InMram(call) == call.base + call.n <= MRAM_WORDS

ASSUME RankAssumption ==
    /\ Enabled \subseteq {Slot(j, d, g) : j \in Lanes, d \in Ids, g \in Groups}
    /\ MaxWords \in Nat
    /\ Fills \subseteq Buffers
    /\ Calls \subseteq [base : Nat, n : 0 .. MaxWords]
    /\ \A call \in Calls :
         InMram(call) => \A i \in 0 .. call.n - 1 : call.base + i \in Words
    /\ Program \in [Val -> Val]
    /\ Modes \subseteq AccessMode
    /\ Debug \in BOOLEAN
    \* Without the asserts nothing stops a transfer beyond the end of MRAM.
    /\ Debug \/ \A call \in Calls : InMram(call)

(***************************************************************************)
(* The loops.                                                              *)
(***************************************************************************)
\* The cells of a transfer, as the flush loops go through them.
CellsOneGroup(n) == Ids \X (0 .. n - 1) \X {0}        \* a slip: no second group
Cells(n)         == Ids \X (0 .. n - 1) \X Groups

\* The cell in which word i of the DPU in slot s is moved.
CellOf(s, i) == <<DpuIdOf(s), i, GroupOf(s)>>

\* The values the counters of a nest go through, outermost first; where the body
\* moves a line of the first group and then one of the second, that counts as its
\* innermost loop.  Each of the six nests has bounds of its own.
SendNestOneGroup(mode, n) ==            \* a slip: in one mode, no second line
    CASE mode = "Original"   -> Ids \X (0 .. n - 1) \X {0}
      [] mode = "RoundRobin" -> (0 .. n - 1) \X Ids \X Groups
      [] mode = "Sequential" -> Ids \X Groups \X (0 .. n - 1)

SendNest(mode, n) ==
    CASE mode = "Original"   -> Ids \X (0 .. n - 1) \X Groups
      [] mode = "RoundRobin" -> (0 .. n - 1) \X Ids \X Groups
      [] mode = "Sequential" -> Ids \X Groups \X (0 .. n - 1)

RecvNestShort(mode, n) ==               \* a slip: in one mode, i + 1 < n_words
    CASE mode = "Original"   -> Ids \X (0 .. n - 1) \X Groups
      [] mode = "RoundRobin" -> (0 .. n - 2) \X Ids \X Groups
      [] mode = "Sequential" -> Ids \X Groups \X (0 .. n - 1)

RecvNest(mode, n) ==
    CASE mode = "Original"   -> Ids \X (0 .. n - 1) \X Groups
      [] mode = "RoundRobin" -> (0 .. n - 1) \X Ids \X Groups
      [] mode = "Sequential" -> Ids \X Groups \X (0 .. n - 1)

\* The cell that the body moves at these counters, and the counters of a cell.
CellAt(mode, k) ==
    CASE mode = "Original"   -> k                           \* dpu_id, i, group
      [] mode = "RoundRobin" -> <<k[2], k[1], k[3]>>        \* i, dpu_id, group
      [] mode = "Sequential" -> <<k[1], k[3], k[2]>>        \* dpu_id, group, i

CountersOf(mode, c) ==
    CASE mode = "Original"   -> c
      [] mode = "RoundRobin" -> <<c[2], c[1], c[3]>>
      [] mode = "Sequential" -> <<c[1], c[3], c[2]>>

Before(a, b) ==
    \/ a[1] < b[1]
    \/ a[1] = b[1] /\ a[2] < b[2]
    \/ a[1] = b[1] /\ a[2] = b[2] /\ a[3] < b[3]

\* The cells to visit when a transfer begins, and the one whose turn it is.
ToVisit(mode, nest) == {CellAt(mode, k) : k \in nest}

Visits(mode, c) ==
    /\ c \in todo
    /\ \A o \in todo : ~Before(CountersOf(mode, o), CountersOf(mode, c))

\* The line of the region, and the entry of the table of buffers, of a cell.
LineOf(c)    == HostLine(request.base + c[2], c[1], c[3])
SlotAt(j, c) == Slot(j, c[1], c[3])

\* The lines the two flush loops go through.
WindowOneGroup == {LineOf(c) : c \in CellsOneGroup(request.n)}  \* a slip: no + 0x40
WindowPastEnd  == {LineOf(c) : c \in Cells(request.n + 1)}      \* a slip: i <= n
Window         == {LineOf(c) : c \in Cells(request.n)}

(***************************************************************************)
(* Between calls: the caller fills its buffers and picks access modes.     *)
(***************************************************************************)
Fill ==
    /\ pc = "idle"
    /\ bufs' \in Fills
    /\ UNCHANGED <<memVars, pc, request, todo, cache_line, send_mode, recv_mode>>

SetSendMode(mode) ==
    /\ pc = "idle"
    /\ send_mode' = mode
    /\ UNCHANGED <<memVars, pc, request, todo, cache_line, bufs, recv_mode>>

SetRecvMode(mode) ==
    /\ pc = "idle"
    /\ recv_mode' = mode
    /\ UNCHANGED <<memVars, pc, request, todo, cache_line, bufs, send_mode>>

Call ==
    /\ pc = "idle"
    /\ request' \in Calls
    /\ \/ pc' = "send_mux" /\ todo' = ToVisit(send_mode, SendNest(send_mode, request'.n))
       \/ pc' = "recv_mux" /\ todo' = ToVisit(recv_mode, RecvNest(recv_mode, request'.n))
    /\ UNCHANGED <<memVars, cache_line, bufs, send_mode, recv_mode>>

\* dpu_switch_mux_for_rank, then the assert of the transfer if it is there.
SwitchMux ==
    /\ pc \in {"send_mux", "recv_mux"}
    /\ mux' = "host"
    /\ pc' = IF Debug /\ ~InMram(request) THEN "aborted"
             ELSE IF pc = "send_mux" THEN "store" ELSE "preflush"
    /\ UNCHANGED <<mram, cache, wc, flushing, request, todo, cache_line, bufs,
                   send_mode, recv_mode>>

\* The switch returns an error, DPU_ASSERT ends the program.
MuxFails ==
    /\ pc \in {"send_mux", "recv_mux"}
    /\ pc' = "aborted"
    /\ UNCHANGED <<memVars, request, todo, cache_line, bufs, send_mode, recv_mode>>

(***************************************************************************)
(* SendToRankMRAM.  Lanes of missing DPUs keep what the last gather left,  *)
(* or what the array held when it came to life uninitialised.              *)
(***************************************************************************)
GatheredOneGroup(c) ==                  \* a slip: dpu_id_group left out
    [j \in Lanes |-> IF Slot(j, c[1], 0) \in Enabled THEN bufs[Slot(j, c[1], 0)][c[2]]
                     ELSE cache_line[j]]

Gathered(c) ==
    [j \in Lanes |-> IF SlotAt(j, c) \in Enabled THEN bufs[SlotAt(j, c)][c[2]]
                     ELSE cache_line[j]]

GatherAndStay(c) ==                     \* a slip: the loop does not advance
    /\ pc = "store"
    /\ Visits(send_mode, c)
    /\ cache_line' = Gathered(c)
    /\ wc' = [wc EXCEPT ![LineOf(c)] = Gathered(c)]
    /\ UNCHANGED <<mram, cache, flushing, mux, pc, request, todo, bufs, send_mode, recv_mode>>

GatherAndStore(c) ==
    /\ pc = "store"
    /\ Visits(send_mode, c)
    /\ cache_line' = Gathered(c)
    /\ wc' = [wc EXCEPT ![LineOf(c)] = Gathered(c)]
    /\ todo' = todo \ {c}
    /\ UNCHANGED <<mram, cache, flushing, mux, pc, request, bufs, send_mode, recv_mode>>

SendNoFence ==                              \* a slip: the mfence is missing
    /\ pc = "store" /\ todo = {}
    /\ pc' = "idle"
    /\ cache_line' = [j \in Lanes |-> Garbage]
    /\ UNCHANGED <<memVars, request, todo, bufs, send_mode, recv_mode>>

SendFence ==
    /\ pc = "store" /\ todo = {}
    /\ \A l \in Lines : wc[l] = None
    /\ pc' = "idle"
    /\ cache_line' = [j \in Lanes |-> Garbage]
    /\ UNCHANGED <<memVars, request, todo, bufs, send_mode, recv_mode>>

(***************************************************************************)
(* ReceiveFromRankMRAM.  The clflushopt of a flush loop are issued in one  *)
(* step: they are performed in any order whatever the order of issue.      *)
(***************************************************************************)
PreFlush ==
    /\ pc = "preflush"
    /\ flushing' = flushing \cup Window
    /\ pc' = "prefence"
    /\ UNCHANGED <<mram, cache, wc, mux, request, todo, cache_line, bufs, send_mode, recv_mode>>

PreNoFence ==                               \* a slip: the mfence is missing
    /\ pc = "prefence"
    /\ pc' = "read"
    /\ UNCHANGED <<memVars, request, todo, cache_line, bufs, send_mode, recv_mode>>

PreFence ==
    /\ pc = "prefence"
    /\ flushing = {}
    /\ pc' = "read"
    /\ UNCHANGED <<memVars, request, todo, cache_line, bufs, send_mode, recv_mode>>

LoadAndScatter(c) ==
    /\ pc = "read"
    /\ Visits(recv_mode, c)
    /\ cache' = [cache EXCEPT ![LineOf(c)] = Loaded(LineOf(c))]
    /\ bufs' = [s \in Enabled |-> [i \in Indices |->
                  IF i = c[2] /\ \E j \in Lanes : s = SlotAt(j, c)
                  THEN Loaded(LineOf(c))[LaneOf(s)] ELSE bufs[s][i]]]
    /\ todo' = todo \ {c}
    /\ UNCHANGED <<mram, wc, flushing, mux, pc, request, cache_line, send_mode, recv_mode>>

PostFlush ==
    /\ pc = "read" /\ todo = {}
    /\ flushing' = flushing \cup Window
    /\ pc' = "postfence"
    /\ UNCHANGED <<mram, cache, wc, mux, request, todo, cache_line, bufs, send_mode, recv_mode>>

PostFence ==
    /\ pc = "postfence"
    /\ flushing = {}
    /\ pc' = "idle"
    /\ UNCHANGED <<memVars, request, todo, cache_line, bufs, send_mode, recv_mode>>

(***************************************************************************)
(* Launch, and the run of the DPUs until they are done.                    *)
(***************************************************************************)
Launch ==
    /\ pc = "idle"
    /\ mux' = "dpu"
    /\ pc' = "run"
    /\ UNCHANGED <<mram, cache, wc, flushing, request, todo, cache_line, bufs,
                   send_mode, recv_mode>>

Run ==
    /\ pc = "run"
    /\ mram' = [l \in Lines |-> [j \in Lanes |->
                  IF \E s \in Enabled, w \in Words : DpuLine(s, w) = l /\ LaneOf(s) = j
                  THEN Program[mram[l][j]] ELSE mram[l][j]]]
    /\ pc' = "idle"
    /\ UNCHANGED <<cache, wc, flushing, mux, request, todo, cache_line, bufs,
                   send_mode, recv_mode>>

Init ==
    /\ MemInit
    /\ pc = "idle"
    /\ request \in Calls
    /\ todo = {}
    /\ cache_line = [j \in Lanes |-> Garbage]
    /\ bufs \in Fills
    /\ send_mode \in Modes /\ recv_mode \in Modes

\* The program has ended: nothing is left to do, and that is no deadlock.
Ended == pc = "aborted" /\ UNCHANGED vars

\* What the worker does once a call is made.
Worker ==
    \/ SwitchMux \/ MuxFails
    \/ \E c \in todo : GatherAndStore(c)
    \/ SendFence
    \/ PreFlush \/ PreFence
    \/ \E c \in todo : LoadAndScatter(c)
    \/ PostFlush \/ PostFence

Memory == Hardware /\ UNCHANGED <<pc, request, todo, cache_line, bufs, send_mode, recv_mode>>

Next ==
    \/ Fill
    \/ \E mode \in Modes : SetSendMode(mode) \/ SetRecvMode(mode)
    \/ Call
    \/ Worker
    \/ Launch \/ Run
    \/ Memory
    \/ Ended

(***************************************************************************)
(* Fairness: a worker thread keeps running, a DPU program ends, a buffered *)
(* store and an issued flush do not stay pending for ever.                 *)
(***************************************************************************)
Pending == \E l \in Lines : Drain(l) \/ PerformFlush(l)

Fairness == WF_vars(Worker) /\ WF_vars(Run) /\ WF_vars(Memory /\ Pending)

Spec     == Init /\ [][Next]_vars
FairSpec == Spec /\ Fairness

(***************************************************************************)
(* Properties.                                                             *)
(***************************************************************************)
Phases == {"idle", "send_mux", "store", "recv_mux", "preflush", "prefence",
           "read", "postfence", "run", "aborted"}

\* The types of the variables; flushes and stores stay within the window.
TypeOK ==
    /\ MemTypeOK
    /\ pc \in Phases
    /\ request \in Calls
    /\ todo \subseteq Cells(request.n)
    /\ cache_line \in [Lanes -> Val]
    /\ bufs \in Buffers
    /\ send_mode \in AccessMode /\ recv_mode \in AccessMode

\* No streaming store is in a buffer when the DPUs are given the banks or when
\* a receive reads them: the mfence that ends SendToRankMRAM.
NoStoreInFlight ==
    (\E l \in Lines : wc[l] # None) => pc = "store" /\ mux = "host"

\* While the worker reads, a cached copy in its window is what the banks hold:
\* the switch, the flush loop and the mfence that precede the reads.
FreshWhileReading ==
    pc = "read" => \A l \in Window : cache[l] \in {None, mram[l]}

\* Before the fence, the copies that are not fresh are all about to be flushed.
StaleAreFlushing ==
    pc = "prefence" => \A l \in Window \ flushing : cache[l] \in {None, mram[l]}

\* The words the loops have passed are where they have to go.
MovedSoFar ==
    pc \in {"store", "read", "postfence"} =>
        \A s \in Enabled, i \in 0 .. request.n - 1 :
            CellOf(s, i) \notin todo => WordOf(s, request.base + i) = bufs[s][i]

\* What the position of the worker says of the switch, the flushes, the loops.
Positions ==
    /\ pc \in {"store", "preflush", "prefence", "read", "postfence"} =>
         mux = "host" /\ InMram(request)
    /\ pc = "run" => mux = "dpu"
    /\ flushing # {} => pc \in {"prefence", "postfence"}
    /\ pc \in {"send_mux", "recv_mux", "preflush", "prefence"} => todo = Cells(request.n)
    /\ pc \in {"idle", "run", "postfence"} => todo = {}

\* The inductive invariant of the proofs, with TypeOK.
Inv ==
    NoStoreInFlight /\ FreshWhileReading /\ StaleAreFlushing /\ MovedSoFar /\ Positions

\* A send returns only when the bank of every enabled DPU, where that DPU looks
\* for it, holds the caller's words.
SendCompletes ==
    [][pc = "store" /\ pc' = "idle" =>
         \A s \in Enabled, i \in 0 .. request.n - 1 :
            mram'[DpuLine(s, request.base + i)][LaneOf(s)] = bufs[s][i]]_vars

\* A receive returns only when every buffer holds the words of its own DPU.
ReceiveCompletes ==
    [][pc = "postfence" /\ pc' = "idle" =>
         \A s \in Enabled, i \in 0 .. request.n - 1 :
            bufs'[s][i] = mram[DpuLine(s, request.base + i)][LaneOf(s)]]_vars

\* The state of RankCopy that a state of the worker stands for: the words of
\* the DPUs count a store from the moment it is made.
PimView   == [s \in Enabled |-> [w \in Words |-> WordOf(s, w)]]
PhaseView ==
    CASE pc \in {"send_mux", "store"} -> "send"
      [] pc \in {"recv_mux", "preflush", "prefence", "read", "postfence"} -> "receive"
      [] pc = "aborted" -> "stopped"
      [] pc \in {"idle", "run"} -> pc
TodoView  == {p \in Enabled \X (0 .. request.n - 1) : CellOf(p[1], p[2]) \in todo}

Copy == INSTANCE RankCopy WITH pim <- PimView, phase <- PhaseView, todo <- TodoView

\* The worker implements the copy that RankCopy promises.
Implements == Copy!Spec

\* Every call returns, or stops the program, and every run of the DPUs ends.
CallReturns == pc \notin {"idle", "aborted"} ~> pc \in {"idle", "aborted"}
=============================================================================
