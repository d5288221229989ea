----------------------------- MODULE HostMemory -----------------------------
(***************************************************************************)
(* The memory the direct interface works on: the MRAM banks of one rank,   *)
(* mapped into the host as ordinary cacheable memory, seen through the     *)
(* host's cache and write-combining buffers, and switched between host and *)
(* DPUs by a multiplexer.  None of it is code of the repository: it is the *)
(* processor and the DIMM that the sequence "switch, flush, fence, read"   *)
(* and "switch, store past the cache, fence" of direct_interface.hpp is    *)
(* written for.                                                            *)
(*                                                                         *)
(* One line of the region holds one 8-byte word of each of eight DPUs, one *)
(* per lane; ByteInterleave is about the bytes within it.                  *)
(***************************************************************************)
EXTENDS MramAddress

CONSTANTS Words,        \* the words of each MRAM that are modelled
          Ids,          \* the values of dpu_id that are modelled
          Lanes,        \* the control interfaces that are modelled
          Values,       \* what a word can hold
          Blank,        \* the value in Values the banks start with
          Garbage,      \* what the host reads while the DPUs own a bank
          None,         \* no copy, no store
          Speculative   \* the lines the processor may fetch and drop unasked

VARIABLES mram,         \* line -> what its eight banks hold
          cache,        \* line -> the host's cached copy, or None
          wc,           \* line -> the streaming store still in a buffer, or None
          flushing,     \* the lines with a clflushopt issued and not performed
          mux           \* who owns the banks, "host" or "dpu"

memVars == <<mram, cache, wc, flushing, mux>>

Val     == Values \cup {Garbage}
Content == [Lanes -> Val]
Lines   == {HostLine(w, d, g) : w \in Words, d \in Ids, g \in Groups}

ASSUME MemoryAssumption ==
    /\ Words \subseteq MramWord
    /\ Ids \subseteq DpuIds
    /\ Lanes \subseteq CIs
    /\ Blank \in Values
    /\ Garbage \notin Values
    /\ None \notin Content
    /\ Speculative \subseteq Lines

MemTypeOK ==
    /\ mram \in [Lines -> Content]
    /\ cache \in [Lines -> Content \cup {None}]
    /\ wc \in [Lines -> Content \cup {None}]
    /\ flushing \subseteq Lines
    /\ mux \in {"host", "dpu"}

MemInit ==
    /\ mram = [l \in Lines |-> [j \in Lanes |-> Blank]]
    /\ cache = [l \in Lines |-> None]
    /\ wc = [l \in Lines |-> None]
    /\ flushing = {}
    /\ mux = "dpu"

\* What the bank of slot s will hold for word w once no store is in flight.
Settled(l) == IF wc[l] = None THEN mram[l] ELSE wc[l]
WordOf(s, w) == Settled(DpuLine(s, w))[LaneOf(s)]

\* What reaches the processor when it fetches a line that is not cached.
Fetched(l) == IF mux = "host" THEN mram[l] ELSE [j \in Lanes |-> Garbage]

\* What a load of the line returns: a cached copy hides the banks.
Loaded(l) == IF cache[l] = None THEN Fetched(l) ELSE cache[l]

(***************************************************************************)
(* Steps of the hardware on its own.  A streaming store leaves its buffer  *)
(* at any moment and in any order, drops the cached copy of its line, and  *)
(* is lost if the DPUs own the banks by then.  A clflushopt is performed   *)
(* at any moment and in any order until a fence waits for it.              *)
(***************************************************************************)
Prefetch(l) ==
    /\ cache[l] = None
    /\ cache' = [cache EXCEPT ![l] = Fetched(l)]
    /\ UNCHANGED <<mram, wc, flushing, mux>>

Evict(l) ==
    /\ cache[l] # None
    /\ cache' = [cache EXCEPT ![l] = None]
    /\ UNCHANGED <<mram, wc, flushing, mux>>

Drain(l) ==
    /\ wc[l] # None
    /\ mram' = IF mux = "host" THEN [mram EXCEPT ![l] = wc[l]] ELSE mram
    /\ wc' = [wc EXCEPT ![l] = None]
    /\ cache' = [cache EXCEPT ![l] = None]
    /\ UNCHANGED <<flushing, mux>>

PerformFlush(l) ==
    /\ l \in flushing
    /\ flushing' = flushing \ {l}
    /\ cache' = [cache EXCEPT ![l] = None]
    /\ UNCHANGED <<mram, wc, mux>>

Hardware ==
    \/ \E l \in Speculative : Prefetch(l) \/ Evict(l)
    \/ \E l \in Lines : Drain(l) \/ PerformFlush(l)
=============================================================================
