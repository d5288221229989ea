----------------------------- MODULE DirectPIM -----------------------------
(***************************************************************************)
(* DirectPIMInterface over several ranks: the calls of the base class, and *)
(* direct transfers beside them: the check that one is possible, the table *)
(* of buffers of the enabled DPUs, and the parallel loop that gives each   *)
(* rank to a worker.  Direct transfers do not go through the SDK's queues. *)
(*                                                                         *)
(* A worker's copy of one rank, RankMRAM or WramReceive in full, is one or *)
(* two steps here: the switch of the multiplexer, which a read of WRAM     *)
(* does without, and the copy, one value per DPU.                          *)
(***************************************************************************)
EXTENDS PimInterface

CONSTANTS PerfRanks,     \* ranks whose region is mapped (DPU_REGION_MODE_PERF)
          NrThreads,     \* workers of the parallel loop
          Debug,         \* are the asserts compiled in (no -DNDEBUG)
          AsyncTransfers,\* values of async the program passes to direct transfers
          Null           \* a null pointer

VARIABLES buffers_aligned, \* the table of the last transfer: rank -> slot -> index or Null
          worker         \* rank -> "queued", "switch", "copy" or "done"

direct == <<buffers_aligned, worker>>
vars   == <<baseVars, direct>>

ASSUME DirectAssumption ==
    /\ NrThreads \in Nat \ {0}
    /\ PerfRanks \subseteq Ranks
    /\ Debug \in BOOLEAN
    /\ AsyncTransfers \subseteq BOOLEAN
    /\ Null \notin Int
    \* A region that is not mapped cannot be copied to; only the assert says so.
    /\ Debug \/ PerfRanks = Ranks

\* The loops that skip disabled DPUs: offset is the number of those visited before.
OffsetWithHoles(r, j) == Before(Ranks \X Slots, <<r, j>>) % nr_of_dpus  \* a slip: skips none
OffsetFromOne(r, j)   == Before(DPUs, <<r, j>>) + 1                     \* a slip: ++offset
Offset(r, j)          == Before(DPUs, <<r, j>>)

Aligned == [r \in Ranks |-> [j \in Slots |-> IF j \in Enabled[r] THEN Offset(r, j) ELSE Null]]

\* rankIDOfDPU: the ranks of the DPUs, in the order of load_from_dpu_set.
rankIDOfDPU ==
    [k \in Indices |-> CHOOSE r \in Ranks :
        /\ Cardinality({p \in DPUs : p[1] < r}) <= k
        /\ k < Cardinality({p \in DPUs : p[1] <= r})]

DirectAvailable(async) == ~async /\ PerfRanks = Ranks

\* The asserts of a direct transfer.  Without them a send to a symbol of WRAM would
\* write beyond MRAM: the program makes none.
Allowed(op, area, async) == DirectAvailable(async) /\ (op = "send" => area = "mram")

(***************************************************************************)
(* The program.                                                            *)
(***************************************************************************)

\* SendToPIM or ReceiveFromPIM up to the parallel loop.  Neither looks at the SDK's
\* queues: a program that waits syncs first, of its own accord.
Transfer(op, area, async) ==
    /\ caller = "idle"
    /\ CallerWaits => ~call.unsynced
    /\ Debug \/ op = "receive" \/ area = "mram"
    /\ call' = [call EXCEPT !.op = op, !.area = area]
    /\ \/ /\ Debug /\ ~Allowed(op, area, async)
          /\ caller' = "aborted"
          /\ UNCHANGED direct
       \/ /\ ~Debug \/ Allowed(op, area, async)
          /\ caller' = "parallel"
          /\ buffers_aligned' = Aligned
          /\ worker' = [r \in Ranks |-> "queued"]
    /\ UNCHANGED <<sdk, data>>

\* GetSymbolOffset does not find the symbol, DPU_ASSERT, or finds one in MRAM that
\* is not the heap pointer, assert.
UnknownSymbol ==
    /\ caller = "idle"
    /\ caller' = "aborted"
    /\ UNCHANGED <<call, sdk, data, direct>>

AnyDone == \E r \in Ranks : worker[r] = "done"   \* a slip: the loop waits for one worker
AllDone == \A r \in Ranks : worker[r] = "done"

Join ==
    /\ caller = "parallel" /\ AllDone
    /\ caller' = "idle"
    /\ UNCHANGED <<call, sdk, data, direct>>

(***************************************************************************)
(* The workers.  An assert or DPU_ASSERT ends the program for all of them. *)
(***************************************************************************)
Take(r) ==
    /\ Alive /\ worker[r] = "queued"
    /\ Cardinality({q \in Ranks : worker[q] \in {"switch", "copy"}}) < NrThreads
    /\ worker' = [worker EXCEPT ![r] = IF call.area = "mram" THEN "switch" ELSE "copy"]
    /\ UNCHANGED <<caller, call, sdk, data, buffers_aligned>>

\* dpu_switch_mux_for_rank; the SDK refuses it while DPUs of the rank run.
Switch(r) ==
    /\ Alive /\ worker[r] = "switch"
    /\ r \in running => Head(queue[r]).op # "run"
    /\ worker' = [worker EXCEPT ![r] = "copy"]
    /\ UNCHANGED <<caller, call, sdk, data, buffers_aligned>>

\* The switch fails, DPU_ASSERT, or a select or read of WRAM, exit.
WorkerFails(r) ==
    /\ Alive
    /\ worker[r] = "switch" \/ (worker[r] = "copy" /\ call.area = "wram")
    /\ caller' = "aborted"
    /\ UNCHANGED <<call, sdk, data, direct>>

AfterCopyAgain == "queued"               \* a slip: a finished task is queued again
AfterCopy      == "done"

CopyRank(r) ==
    /\ Alive /\ worker[r] = "copy"
    /\ worker' = [worker EXCEPT ![r] = AfterCopy]
    /\ LET job   == [rank |-> r, op |-> call.op, area |-> call.area,
                     buf |-> [p \in DPUsOf[r] |-> buffers_aligned[r][p[2]]]]
           after == Perform(data, job)
       IN  pim' = after[1] /\ bufs' = after[2]
    /\ UNCHANGED <<caller, call, sdk, buffers_aligned>>

Ended == caller = "aborted" /\ UNCHANGED vars

Init ==
    /\ BaseInit
    /\ buffers_aligned = Aligned
    /\ worker = [r \in Ranks |-> "done"]

Worker(r) == Take(r) \/ Switch(r) \/ WorkerFails(r) \/ CopyRank(r)

Next ==
    \/ BaseNext /\ UNCHANGED direct
    \/ \E op \in {"send", "receive"}, area \in Areas, async \in AsyncTransfers :
          Transfer(op, area, async)
    \/ UnknownSymbol \/ Join
    \/ \E r \in Ranks : Worker(r)
    \/ Ended

(***************************************************************************)
(* Fairness: threads that can go on do; the SDK's are as in PimInterface.  *)
(***************************************************************************)
Fairness ==
    /\ BaseFairness
    /\ WF_vars(Join)
    /\ \A r \in Ranks : WF_vars(Worker(r))

Spec     == Init /\ [][Next]_vars
FairSpec == Spec /\ Fairness

(***************************************************************************)
(* Properties.                                                             *)
(***************************************************************************)
TypeOK ==
    /\ caller \in {"idle", "parallel", "wait", "aborted"}
    /\ call \in [op : {"send", "receive", "run"}, area : {"mram", "wram"}, unsynced : BOOLEAN]
    /\ \A r \in Ranks : Len(queue[r]) \in 0 .. MaxQueue
    /\ \A r \in running : queue[r] # <<>>
    /\ DOMAIN pim = DPUs /\ DOMAIN bufs = Indices
    /\ buffers_aligned \in [Ranks -> [Slots -> Indices \cup {Null}]]
    /\ worker \in [Ranks -> {"queued", "switch", "copy", "done"}]

\* No worker is in the memory of a rank for which the SDK has a transfer or a
\* launch that is not over: the direct path does not go through the queue that
\* orders those.
NoTransferDuringRun == \A r \in Ranks : worker[r] = "copy" => queue[r] = <<>>

\* Only a program that has not synced after an asynchronous call of the SDK can have
\* a worker beside the SDK's jobs: the flag of every call is what it asked for, the
\* SDK's wait covers all ranks, and no worker outlives its transfer.
OnlyUnsyncedRaces == ~call.unsynced => NoTransferDuringRun

\* A direct send returns when the k-th DPU, which GetRankIDOfDPU finds in rank
\* rankIDOfDPU[k], holds buffer k.
SendPlaces ==
    [][caller = "parallel" /\ caller' = "idle" /\ call.op = "send" =>
         \A k \in Indices :
            pim'[DpuAt[k]][call.area] = bufs[k] /\ DpuAt[k][1] = rankIDOfDPU[k]]_vars

\* The state of PimArray this one stands for.
Array == INSTANCE PimArray WITH NrDpus <- nr_of_dpus, pim <- SettledPim, bufs <- SettledBufs,
    phase <- CASE caller = "parallel" -> <<call.op, call.area>>
               [] caller = "aborted"  -> <<"stopped">>
               [] OTHER               -> <<caller>>,
    todo <- {k \in Indices : worker[DpuAt[k][1]] \in {"queued", "switch", "copy"}},
    owed <- Owed

\* Direct transfers, the SDK's transfers and broadcasts, and launches are together
\* those of PimArray: each finds what the ones before it left.
Implements == Array!Spec

\* Every transfer, launch and sync returns or ends the program, with any number
\* of threads.
CallReturns == caller \in {"parallel", "wait"} ~> caller \in {"idle", "aborted"}
=============================================================================
