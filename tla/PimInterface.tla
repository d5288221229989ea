---------------------------- MODULE PimInterface ----------------------------
(***************************************************************************)
(* PIMInterface, the base class, and the queues it hands its calls to: the *)
(* SDK keeps one queue of jobs for each rank, served by a thread of its    *)
(* own, and a transfer, a broadcast or a launch is one job for every rank. *)
(* Both interfaces have these calls; UPMEMInterface has no others.         *)
(*                                                                         *)
(* A DPU has one symbol in MRAM and one in WRAM.                           *)
(***************************************************************************)
EXTENDS Integers, FiniteSets, Sequences

CONSTANTS NrRanks,       \* nr_of_ranks
          Slots,         \* positions of DPUs in a rank, MAX_NR_DPUS_PER_RANK of them
          Enabled,       \* rank -> slots whose DPU is enabled
          MaxQueue,      \* bound on the jobs in a queue
          CallerWaits,   \* does the program sync before it disturbs what is queued
          Blank,         \* what a memory holds at first
          Fills,         \* contents of the program's buffers
          Program,       \* what a run does to a memory
          Areas          \* "mram", or both "mram" and "wram"

VARIABLES caller,        \* where the program is: "idle", "wait" (in the SDK), "aborted", ...
          call,          \* [op |-> ..., area |-> ..., unsynced |-> ...]: the last call, and
                         \* has the program called the SDK with async since it last waited
          queue,         \* rank -> jobs not finished, first to last
          running,       \* ranks whose first job has started
          pim,           \* <<rank, slot>> of an enabled DPU -> area -> value
          bufs           \* index -> value: the program's buffers

sdk == <<queue, running>>
data == <<pim, bufs>>
baseVars == <<caller, call, sdk, data>>

Ranks == 0 .. NrRanks - 1
DPUs  == {p \in Ranks \X Slots : p[2] \in Enabled[p[1]]}
DPUsOf == [r \in Ranks |-> {p \in DPUs : p[1] = r}]

nr_of_dpus == Cardinality(DPUs)
Indices    == 0 .. nr_of_dpus - 1

ASSUME PimAssumption ==
    /\ NrRanks \in Nat \ {0} /\ MaxQueue \in Nat \ {0}
    /\ Slots \subseteq 0 .. 63
    /\ Enabled \in [Ranks -> SUBSET Slots]
    /\ CallerWaits \in BOOLEAN
    /\ \A fill \in Fills : fill = [k \in Indices |-> fill[k]]
    /\ Areas \in {{"mram"}, {"mram", "wram"}}

\* The number of positions of S that a loop over ranks and then slots visits before p.
Before(S, p) == Cardinality({o \in S : o[1] < p[1] \/ (o[1] = p[1] /\ o[2] < p[2])})

\* each_dpu of DPU_FOREACH, and the buffers prepared with it.
EachInRank == [p \in DPUs |-> Before(DPUsOf[p[1]], p)]  \* a slip: each rank from 0
each_dpu   == [p \in DPUs |-> Before(DPUs, p)]

\* The DPU that the program knows as number k.
DpuAt == [k \in Indices |-> CHOOSE p \in DPUs : Before(DPUs, p) = k]

NoJob == \A r \in Ranks : queue[r] = <<>>

(***************************************************************************)
(* What a job does, when it is done, to the memories and the buffers.      *)
(***************************************************************************)
BuffersOf(job) == {job.buf[p] : p \in DPUsOf[job.rank]}

Sent(m, b, job) ==
    [p \in DPUs |-> IF p[1] = job.rank THEN [m[p] EXCEPT ![job.area] = b[job.buf[p]]] ELSE m[p]]

Received(m, b, job) ==
    [k \in Indices |->
        IF k \in BuffersOf(job)
        THEN m[CHOOSE p \in DPUsOf[job.rank] : job.buf[p] = k][job.area] ELSE b[k]]

Run(m, job) ==
    [p \in DPUs |-> IF p[1] = job.rank THEN [area \in Areas |-> Program[m[p][area]]] ELSE m[p]]

Perform(d, job) ==
    CASE job.op = "send"    -> <<Sent(d[1], d[2], job), d[2]>>
      [] job.op = "receive" -> <<d[1], Received(d[1], d[2], job)>>
      [] job.op = "run"     -> <<Run(d[1], job), d[2]>>

\* The memories and buffers when a queue of jobs is done.
Outcome(d, jobs) ==
    LET After[i \in 0 .. Len(jobs)] == IF i = 0 THEN d ELSE Perform(After[i - 1], jobs[i])
    IN  After[Len(jobs)]

(***************************************************************************)
(* The program.  While jobs are queued it may not write to the buffers of  *)
(* a transfer, nor start a transfer of a buffer that another rank receives *)
(* into, nor receive into a buffer that another rank is sent.              *)
(***************************************************************************)
Queued == UNION {{queue[r][i] : i \in DOMAIN queue[r]} : r \in Ranks}

Clash(new, old) ==
    /\ new.rank # old.rank
    /\ "run" \notin {new.op, old.op} /\ "receive" \in {new.op, old.op}
    /\ BuffersOf(new) \cap BuffersOf(old) # {}

Fill ==
    /\ caller = "idle"
    /\ CallerWaits => \A job \in Queued : job.op = "run"
    /\ bufs' \in Fills
    /\ UNCHANGED <<caller, call, sdk, pim>>

\* Each call has its own translation of async to a flag of the SDK.
ReceiveFlagSwapped(async) == IF async THEN "DPU_XFER_DEFAULT" ELSE "DPU_XFER_ASYNC"  \* a slip
LaunchFlagSwapped(async)  == IF async THEN "DPU_SYNCHRONOUS" ELSE "DPU_ASYNCHRONOUS" \* another

SendFlag(async)      == IF async THEN "DPU_XFER_ASYNC" ELSE "DPU_XFER_DEFAULT"
ReceiveFlag(async)   == IF async THEN "DPU_XFER_ASYNC" ELSE "DPU_XFER_DEFAULT"
BroadcastFlag(async) == IF async THEN "DPU_XFER_ASYNC" ELSE "DPU_XFER_DEFAULT"
LaunchFlag(async)    == IF async THEN "DPU_ASYNCHRONOUS" ELSE "DPU_SYNCHRONOUS"

\* The SDK waits for a call that is not asynchronous.
Returns(flag) == IF flag \in {"DPU_XFER_ASYNC", "DPU_ASYNCHRONOUS"} THEN "idle" ELSE "wait"

\* A job for every rank, at the end of its queue.
Post(op, area, buf, async, flag) ==
    LET Job(r) == [rank |-> r, op |-> op, area |-> area, buf |-> buf] IN
    /\ caller = "idle"
    /\ \A r \in Ranks : Len(queue[r]) < MaxQueue
    /\ CallerWaits => \A r \in Ranks : \A old \in Queued : ~Clash(Job(r), old)
    /\ queue' = [r \in Ranks |-> Append(queue[r], Job(r))]
    /\ call' = [op |-> op, area |-> area, unsynced |-> async]
    /\ caller' = Returns(flag)
    /\ UNCHANGED <<running, data>>

SendToPIMByUPMEM(area, async)      == Post("send", area, each_dpu, async, SendFlag(async))
ReceiveFromPIMByUPMEM(area, async) == Post("receive", area, each_dpu, async, ReceiveFlag(async))
BroadcastToPIM(k, area, async) ==
    Post("send", area, [p \in DPUs |-> k], async, BroadcastFlag(async))
Launch(async)                      == Post("run", "mram", each_dpu, async, LaunchFlag(async))

Sync ==
    /\ caller = "idle"
    /\ caller' = "wait"
    /\ call' = [call EXCEPT !.unsynced = FALSE]
    /\ UNCHANGED <<sdk, data>>

\* The SDK comes back from a call, or from dpu_sync.
Waited ==
    /\ caller = "wait" /\ NoJob
    /\ caller' = "idle"
    /\ UNCHANGED <<call, sdk, data>>

\* It refuses a call, or reports that a job failed: DPU_ASSERT.
CallFails ==
    /\ caller \in {"idle", "wait"}
    /\ caller' = "aborted"
    /\ UNCHANGED <<call, sdk, data>>

(***************************************************************************)
(* The threads of the SDK, until the program ends.                         *)
(***************************************************************************)
Alive == caller # "aborted"

StartJob(r) ==
    /\ Alive /\ queue[r] # <<>> /\ r \notin running
    /\ running' = running \cup {r}
    /\ UNCHANGED <<caller, call, queue, data>>

FinishJob(r) ==
    /\ Alive /\ r \in running
    /\ LET after == Perform(data, Head(queue[r])) IN pim' = after[1] /\ bufs' = after[2]
    /\ queue' = [queue EXCEPT ![r] = Tail(@)]
    /\ running' = running \ {r}
    /\ UNCHANGED <<caller, call>>

BaseInit ==
    /\ caller = "idle"
    /\ call = [op |-> "run", area |-> "mram", unsynced |-> FALSE]
    /\ queue = [r \in Ranks |-> <<>>]
    /\ running = {}
    /\ pim = [p \in DPUs |-> [area \in Areas |-> Blank]]
    /\ bufs \in Fills

BaseNext ==
    \/ Fill \/ Sync \/ Waited \/ CallFails
    \/ \E async \in BOOLEAN :
        \/ Launch(async)
        \/ \E area \in Areas :
            \/ SendToPIMByUPMEM(area, async) \/ ReceiveFromPIMByUPMEM(area, async)
            \/ \E k \in Indices : BroadcastToPIM(k, area, async)
    \/ \E r \in Ranks : StartJob(r) \/ FinishJob(r)

\* Jobs that can start do, DPU programs and transfers end, and a call whose jobs
\* are done returns.
BaseFairness ==
    /\ WF_baseVars(Waited)
    /\ \A r \in Ranks : WF_baseVars(StartJob(r)) /\ WF_baseVars(FinishJob(r))

(***************************************************************************)
(* Properties of both interfaces.                                          *)
(***************************************************************************)

\* A call of the SDK made without async is over when it returns: nothing is queued
\* for any rank, the jobs of earlier asynchronous calls included.
NothingOwed == caller = "idle" /\ ~call.unsynced => NoJob

\* The state of PimArray this one stands for: the k-th DPU in the order of
\* DPU_FOREACH and its buffer, with what is queued for its rank done.  Only that
\* rank's jobs touch them, and what the jobs read no other rank changes meanwhile,
\* for a caller that waits: so the ranks do not wait for each other here either.
Settled     == [r \in Ranks |-> Outcome(data, queue[r])]
SettledPim  == LET s == Settled IN [k \in Indices |-> s[DpuAt[k][1]][1][DpuAt[k]]]
SettledBufs == LET s == Settled IN [k \in Indices |-> s[DpuAt[k][1]][2][k]]
Owed        == {k \in Indices : queue[DpuAt[k][1]] # <<>>}
=============================================================================
