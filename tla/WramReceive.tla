---------------------------- MODULE WramReceive ----------------------------
(***************************************************************************)
(* ReceiveFromRankWRAM: the direct interface's read of the working memory  *)
(* of the DPUs of one rank.  The DPUs in the same position of every        *)
(* control interface are selected and read together, into the buffers that *)
(* wram_array holds for the interfaces in mask; wram_array outlives an     *)
(* iteration of the loop, mask does not.                                   *)
(*                                                                         *)
(* A word of WRAM is named by where it is, so that a buffer shows whose    *)
(* words it holds.  Offsets and lengths count words of four bytes.         *)
(***************************************************************************)
EXTENDS Integers

CONSTANTS NrCIs,        \* nr_of_control_interfaces
          NrMembers,    \* nr_of_dpus_per_control_interface
          WramSize,     \* hw.memories.wram_size, in words
          Calls,        \* requests: [offset |-> first word, n |-> words]
          MaxWords,     \* length of the caller's buffers, in words
          Untouched,    \* what the caller's buffers hold before the call
          Null,         \* a null pointer
          Debug         \* are the asserts compiled in (no -DNDEBUG)

VARIABLES pc,           \* where the call is
          present,      \* slots with a buffer in the table: the enabled DPUs
          request,
          each_dpu,
          mask,         \* the control interfaces to select and read
          wram_array,   \* control interface -> slot of the buffer, or Null
          selected,     \* control interface -> the DPU last selected on it, or Null
          bufs          \* slot -> index -> word

vars == <<pc, present, request, each_dpu, mask, wram_array, selected, bufs>>

CIs     == 0 .. NrCIs - 1
Members == 0 .. NrMembers - 1
Slots   == 0 .. NrCIs * NrMembers - 1
Indices == 0 .. MaxWords - 1

\* The condition of verify.
InWram(call) == call.offset + call.n <= WramSize

ASSUME WramAssumption ==
    /\ NrCIs \in Nat \ {0} /\ NrMembers \in Nat \ {0} /\ WramSize \in Nat
    /\ MaxWords \in Nat
    /\ Calls \subseteq [offset : Nat, n : 0 .. MaxWords]
    /\ Debug \in BOOLEAN
    /\ Null \notin Int
    \* Without the assert nothing stops a read beyond the end of WRAM.
    /\ Debug \/ \A call \in Calls : InWram(call)

\* The entry of the table of buffers for a position on a control interface.
get_transfer_matrix_index(member, ci) == ci * NrMembers + member

\* Word w of the DPU in position member on control interface ci.
WramWord(ci, member, w) == [ci |-> ci, member |-> member, word |-> w]

NothingToRead ==
    /\ pc = "start" /\ request.n = 0
    /\ pc' = "returned"
    /\ UNCHANGED <<present, request, each_dpu, mask, wram_array, selected, bufs>>

\* verify, and the assert(false) that is all that stops a bad request.
Verify ==
    /\ pc = "start" /\ request.n > 0
    /\ pc' = IF Debug /\ ~InWram(request) THEN "aborted" ELSE "scan"
    /\ UNCHANGED <<present, request, each_dpu, mask, wram_array, selected, bufs>>

\* The control interfaces whose DPU of this iteration has a buffer.
Here == {ci \in CIs : get_transfer_matrix_index(each_dpu, ci) \in present}

MaskKept == mask \cup Here                \* a slip: mask is not reset
MaskNow  == Here

MoreTooMany == each_dpu <= NrMembers      \* a slip: <= for <
MoreTooFew  == each_dpu + 1 < NrMembers   \* a slip: the last DPU left out
More        == each_dpu < NrMembers

Scan ==
    /\ pc = "scan" /\ More
    /\ mask' = MaskNow
    /\ wram_array' = [ci \in CIs |->
          IF ci \in Here THEN get_transfer_matrix_index(each_dpu, ci) ELSE wram_array[ci]]
    /\ \/ MaskNow # {} /\ pc' = "select" /\ each_dpu' = each_dpu
       \/ MaskNow = {} /\ pc' = "scan" /\ each_dpu' = each_dpu + 1
    /\ UNCHANGED <<present, request, selected, bufs>>

\* ufi_select_dpu on the interfaces of mask.
Select ==
    /\ pc = "select"
    /\ selected' = [ci \in CIs |-> IF ci \in mask THEN each_dpu ELSE selected[ci]]
    /\ pc' = "read"
    /\ UNCHANGED <<present, request, each_dpu, mask, wram_array, bufs>>

\* The buffers after ufi_wram_read has served the interfaces in cis.
Filled(cis) ==
    [s \in Slots |-> [i \in Indices |->
        IF i < request.n /\ \E ci \in cis : wram_array[ci] = s
        THEN LET ci == CHOOSE ci \in cis : wram_array[ci] = s
             IN  WramWord(ci, selected[ci], request.offset + i)
        ELSE bufs[s][i]]]

Read ==
    /\ pc = "read"
    /\ bufs' = Filled(mask)
    /\ each_dpu' = each_dpu + 1
    /\ pc' = "scan"
    /\ UNCHANGED <<present, request, mask, wram_array, selected>>

\* One of the two fails, a read perhaps after serving some of the interfaces: FF
\* jumps to the end of the function, exit(0).
Fails ==
    /\ pc \in {"select", "read"}
    /\ \E cis \in SUBSET mask : bufs' = IF pc = "read" THEN Filled(cis) ELSE bufs
    /\ pc' = "exited"
    /\ UNCHANGED <<present, request, each_dpu, mask, wram_array, selected>>

Return ==
    /\ pc = "scan" /\ ~More
    /\ pc' = "returned"
    /\ UNCHANGED <<present, request, each_dpu, mask, wram_array, selected, bufs>>

Ended == pc \in {"returned", "aborted", "exited"} /\ UNCHANGED vars

Init ==
    /\ pc = "start"
    /\ present \in SUBSET Slots
    /\ request \in Calls
    /\ each_dpu = 0
    /\ mask = {}
    /\ wram_array = [ci \in CIs |-> Null]
    /\ selected \in [CIs -> Members \cup {Null}]
    /\ bufs = [s \in Slots |-> [i \in Indices |-> Untouched]]

Next == NothingToRead \/ Verify \/ Scan \/ Select \/ Read \/ Fails \/ Return \/ Ended

Spec == Init /\ [][Next]_vars

(***************************************************************************)
(* Properties.                                                             *)
(***************************************************************************)
TypeOK ==
    /\ pc \in {"start", "scan", "select", "read", "returned", "aborted", "exited"}
    /\ present \subseteq Slots
    /\ request \in Calls
    /\ each_dpu \in 0 .. NrMembers
    /\ mask \subseteq CIs
    /\ wram_array \in [CIs -> Slots \cup {Null}]
    /\ selected \in [CIs -> Members \cup {Null}]
    /\ bufs \in [Slots -> [Indices -> [ci : CIs, member : Members, word : Nat] \cup {Untouched}]]

\* What a call that has gone through the loop owes the slot s: the words of the
\* DPU whose place in the rank is s.
OwnWords(s) ==
    [i \in Indices |->
        IF i < request.n THEN WramWord(s \div NrMembers, s % NrMembers, request.offset + i)
        ELSE Untouched]

Empty == [i \in Indices |-> Untouched]

\* At no moment, and however the call ends, does a buffer hold words of another
\* DPU or words nobody asked for: a pointer left in wram_array by an earlier
\* iteration is never read into.
OwnWordsOnly ==
    \A s \in Slots : bufs[s] = Empty \/ (s \in present /\ bufs[s] = OwnWords(s))

\* A call that returns has filled the buffer of every enabled DPU.
ReadComplete ==
    pc = "returned" => \A s \in present : bufs[s] = OwnWords(s)
=============================================================================
