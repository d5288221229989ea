--------------------------- MODULE DirectPIMProofs ---------------------------
(***************************************************************************)
(* For any number of ranks, threads and queued jobs, with asserts or       *)
(* without: a worker is in the memory of a rank with a job of the SDK not  *)
(* over only if the program has not synced since an asynchronous call.  A  *)
(* program that syncs before it transfers never has one there, and finds   *)
(* buffer k in DPU k when SendToPIM returns; DirectPIMInterface implements *)
(* PimArray for it.                                                        *)
(***************************************************************************)
EXTENDS DirectPIM, PimInterfaceProofs

(***************************************************************************)
(* The tables: what the program passes as buffer k is for DPU k.           *)
(***************************************************************************)
LEMMA AlignedType == Aligned \in [Ranks -> [Slots -> Indices \cup {Null}]]
<1> SUFFICES ASSUME NEW r \in Ranks, NEW j \in Slots
             PROVE  (IF j \in Enabled[r] THEN Offset(r, j) ELSE Null) \in Indices \cup {Null}
  BY DEF Aligned
<1>1. CASE j \in Enabled[r]
  <2>1. <<r, j>> \in DPUs
    BY <1>1 DEF DPUs
  <2> QED
    BY <2>1, <1>1, BeforeIsIndex DEF Offset
<1> QED
  BY <1>1

LEMMA AlignedIs ==
  ASSUME NEW p \in DPUs
  PROVE  Aligned[p[1]][p[2]] = Before(DPUs, p)
<1>1. p[1] \in Ranks /\ p[2] \in Slots /\ p[2] \in Enabled[p[1]] /\ <<p[1], p[2]>> = p
  BY PositionType DEF DPUs
<1> QED
  BY <1>1 DEF Aligned, Offset

\* rankIDOfDPU finds the rank of DPU k: as many DPUs are in the ranks before it as
\* at most have a smaller number, and DPU k is one more.
LEMMA RankIs ==
  ASSUME NEW k \in Indices
  PROVE  rankIDOfDPU[k] = DpuAt[k][1]
<1> DEFINE p == DpuAt[k]
           Below(r) == {o \in DPUs : o[1] < r}
           UpTo(r) == {o \in DPUs : o[1] <= r}
           Mine(r) == Cardinality(Below(r)) <= k /\ k < Cardinality(UpTo(r))
           S == {o \in DPUs : o[1] < p[1] \/ (o[1] = p[1] /\ o[2] < p[2])}
<1>1. p \in DPUs /\ Before(DPUs, p) = k
  BY Numbering
<1>2. p[1] \in Ranks /\ \A o \in DPUs : o[1] \in Int /\ o[2] \in Int
  BY <1>1, PositionType
<1>3. \A T \in SUBSET DPUs : IsFiniteSet(T) /\ Cardinality(T) \in Nat
  BY DPUsFinite, FS_Subset, FS_CardinalityType
<1>4. \A T \in SUBSET DPUs : \A R \in SUBSET T : Cardinality(R) <= Cardinality(T)
  BY <1>3, FS_Subset
<1> HIDE DEF p
<1>5. S \in SUBSET DPUs /\ Cardinality(S) = k
  BY <1>1 DEF Before
<1>6. Mine(p[1])
  <2>1. Below(p[1]) \subseteq S
    OBVIOUS
  <2>2. S \cup {p} \subseteq UpTo(p[1]) /\ p \notin S
    BY <1>1, <1>2
  <2>3. Cardinality(S \cup {p}) = k + 1
    BY <1>3, <1>5, <2>2, FS_AddElement
  <2>4. Cardinality(Below(p[1])) <= k
    BY <1>4, <1>5, <2>1
  <2>5. k + 1 <= Cardinality(UpTo(p[1]))
    <3>1. UpTo(p[1]) \in SUBSET DPUs
      OBVIOUS
    <3> QED
      BY <1>4, <2>2, <2>3, <3>1
  <2>6. Cardinality(UpTo(p[1])) \in Nat /\ k \in Nat
    BY <1>3, <1>5
  <2> QED
    BY <2>4, <2>5, <2>6
<1>7. ASSUME NEW r \in Ranks, NEW q \in Ranks, r < q, Mine(r), Mine(q) PROVE FALSE
  <2>1. UpTo(r) \subseteq Below(q) /\ Below(q) \in SUBSET DPUs
    <3>1. r \in Int /\ q \in Int
      BY PimAssumption DEF Ranks
    <3> QED
      BY <1>2, <1>7, <3>1
  <2>2. Cardinality(UpTo(r)) <= Cardinality(Below(q))
    BY <1>4, <2>1
  <2>3. Cardinality(UpTo(r)) \in Nat /\ Cardinality(Below(q)) \in Nat /\ k \in Nat
    BY <1>3, <1>5
  <2> QED
    BY <1>7, <2>2, <2>3
<1>8. ASSUME NEW r \in Ranks, Mine(r) PROVE r = p[1]
  <2>1. r \in Int /\ p[1] \in Int
    BY <1>2, PimAssumption DEF Ranks
  <2>2. ~(r < p[1]) /\ ~(p[1] < r)
    BY <1>2, <1>6, <1>7, <1>8
  <2> QED
    BY <2>1, <2>2
<1>9. rankIDOfDPU[k] = CHOOSE r \in Ranks : Mine(r)
  BY DEF rankIDOfDPU
<1> HIDE DEF Mine
<1>10. rankIDOfDPU[k] = p[1]
  BY <1>2, <1>6, <1>8, <1>9
<1> QED
  BY <1>10 DEF p

(***************************************************************************)
(* The invariant.  Why it holds: workers are busy only inside a transfer;  *)
(* when the last call of the SDK waited, the queues are empty, and the     *)
(* caller of a transfer is not there to post a job before it returns.      *)
(***************************************************************************)
Types ==
    /\ caller \in {"idle", "parallel", "wait", "aborted"}
    /\ call \in [op : {"send", "receive", "run"}, area : {"mram", "wram"}, unsynced : BOOLEAN]
    /\ queue \in [Ranks -> Seq(Jobs)]
    /\ \A r \in Ranks : Len(queue[r]) <= MaxQueue
    /\ running \subseteq Ranks
    /\ \A r \in running : queue[r] # <<>>
    /\ DOMAIN pim = DPUs /\ DOMAIN bufs = Indices
    /\ buffers_aligned \in [Ranks -> [Slots -> Indices \cup {Null}]]
    /\ worker \in [Ranks -> {"queued", "switch", "copy", "done"}]

LEMMA PerformDomains ==
  ASSUME NEW job, job.op \in {"send", "receive", "run"}, DOMAIN pim = DPUs, DOMAIN bufs = Indices
  PROVE  DOMAIN Perform(data, job)[1] = DPUs /\ DOMAIN Perform(data, job)[2] = Indices
BY DEF Perform, Sent, Received, Run, data

Alone ==
    /\ caller \in {"idle", "wait"} => AllDone
    /\ caller = "parallel" /\ ~call.unsynced => NoJob
    /\ CallerWaits /\ (caller = "parallel" \/ ~AllDone) => ~call.unsynced
    /\ OnlyUnsyncedRaces
    /\ NothingOwed

LEMMA InitHolds == Init => Types /\ Alone
<1> SUFFICES ASSUME Init PROVE Types /\ Alone
  OBVIOUS
<1>1. <<>> \in Seq(Jobs) /\ Len(<<>>) = 0 /\ MaxQueue \in Nat
  BY PimAssumption
<1> QED
  BY <1>1, AlignedType, PimAssumption
     DEF Init, BaseInit, Types, Alone, AllDone, OnlyUnsyncedRaces, NoTransferDuringRun,
         NothingOwed, NoJob

\* A job for every rank: what a transfer through the SDK, a broadcast or a launch adds.
LEMMA PostHolds ==
  ASSUME Types, Alone, UNCHANGED direct,
         NEW op \in {"send", "receive", "run"}, NEW area \in {"mram", "wram"},
         NEW buf \in {each_dpu} \cup {[p \in DPUs |-> k] : k \in Indices},
         NEW async \in BOOLEAN, NEW flag,
         Returns(flag) = IF async THEN "idle" ELSE "wait", Post(op, area, buf, async, flag)
  PROVE  Types' /\ Alone'
<1> DEFINE Job(r) == [rank |-> r, op |-> op, area |-> area, buf |-> buf]
<1>1. \A r \in Ranks : Job(r) \in Jobs
  BY DEF Jobs
<1>2. \A r \in Ranks : /\ Append(queue[r], Job(r)) \in Seq(Jobs)
                       /\ Len(Append(queue[r], Job(r))) = Len(queue[r]) + 1
                       /\ Append(queue[r], Job(r)) # <<>>
  <2> TAKE r \in Ranks
  <2>1. queue[r] \in Seq(Jobs) /\ Job(r) \in Jobs
    BY <1>1 DEF Types
  <2> HIDE DEF Job
  <2> QED
    BY <2>1
<1>3. /\ caller = "idle" /\ UNCHANGED <<running, pim, bufs, buffers_aligned, worker>>
      /\ \A r \in Ranks : Len(queue[r]) < MaxQueue
      /\ queue' = [r \in Ranks |-> Append(queue[r], Job(r))]
      /\ call' = [op |-> op, area |-> area, unsynced |-> async]
      /\ caller' = IF async THEN "idle" ELSE "wait"
  BY DEF Post, data, direct
<1>4. \A r \in Ranks : Len(queue[r]) \in Nat /\ MaxQueue \in Nat
  BY PimAssumption DEF Types
<1>5. Types'
  <2>1. call' \in [op : {"send", "receive", "run"}, area : {"mram", "wram"}, unsynced : BOOLEAN]
    BY <1>3
  <2>2. queue' \in [Ranks -> Seq(Jobs)] /\ \A r \in Ranks : queue'[r] # <<>>
    BY <1>2, <1>3
  <2>3. \A r \in Ranks : Len(queue'[r]) <= MaxQueue
    BY <1>2, <1>3, <1>4
  <2> QED
    BY <1>3, <2>1, <2>2, <2>3 DEF Types
<1>6. Alone'
  BY <1>3 DEF Alone, Types, AllDone, OnlyUnsyncedRaces, NoTransferDuringRun, NothingOwed
<1> QED
  BY <1>5, <1>6

\* The calls of the base class and the threads of the SDK.
LEMMA BaseHolds ==
  ASSUME Types, Alone, BaseNext, UNCHANGED direct
  PROVE  Types' /\ Alone'
<1> USE DEF AllDone, OnlyUnsyncedRaces, NoTransferDuringRun, NothingOwed, NoJob, sdk, data, direct
<1>1. CASE Fill
  BY <1>1, PimAssumption DEF Fill, Types, Alone
<1>2. CASE Sync \/ Waited \/ CallFails
  BY <1>2 DEF Sync, Waited, CallFails, Types, Alone
<1>3. ASSUME NEW async \in BOOLEAN, Launch(async) PROVE Types' /\ Alone'
  BY <1>3, PostHolds, FlagsReturn DEF Launch
<1>4. ASSUME NEW async \in BOOLEAN, NEW area \in Areas,
             \/ SendToPIMByUPMEM(area, async) \/ ReceiveFromPIMByUPMEM(area, async)
             \/ \E k \in Indices : BroadcastToPIM(k, area, async)
      PROVE  Types' /\ Alone'
  <2>1. area \in {"mram", "wram"}
    BY PimAssumption
  <2> QED
    BY <1>4, <2>1, PostHolds, FlagsReturn
       DEF SendToPIMByUPMEM, ReceiveFromPIMByUPMEM, BroadcastToPIM
<1>5. ASSUME NEW r \in Ranks, StartJob(r) PROVE Types' /\ Alone'
  BY <1>5 DEF StartJob, Types, Alone
<1>6. ASSUME NEW r \in Ranks, FinishJob(r) PROVE Types' /\ Alone'
  <2>1. queue[r] # <<>> /\ queue[r] \in Seq(Jobs)
    BY <1>6 DEF FinishJob, Types
  <2>2. Tail(queue[r]) \in Seq(Jobs) /\ Len(Tail(queue[r])) <= Len(queue[r])
    BY <2>1
  <2>3. /\ queue' = [queue EXCEPT ![r] = Tail(queue[r])]
        /\ running' = running \ {r}
        /\ UNCHANGED <<caller, call, buffers_aligned, worker>>
    BY <1>6 DEF FinishJob
  <2>4. DOMAIN pim' = DPUs /\ DOMAIN bufs' = Indices
    <3>1. Head(queue[r]).op \in {"send", "receive", "run"}
      <4>1. Head(queue[r]) \in Jobs
        BY <2>1
      <4> QED
        BY <4>1 DEF Jobs
    <3>2. /\ pim' = Perform(data, Head(queue[r]))[1]
          /\ bufs' = Perform(data, Head(queue[r]))[2]
      BY <1>6 DEF FinishJob
    <3> HIDE DEF data
    <3>3. DOMAIN pim = DPUs /\ DOMAIN bufs = Indices
      BY DEF Types
    <3>4. /\ DOMAIN Perform(data, Head(queue[r]))[1] = DPUs
          /\ DOMAIN Perform(data, Head(queue[r]))[2] = Indices
      BY <3>1, <3>3, PerformDomains
    <3> QED
      BY <3>2, <3>4
  <2>5. Types'
    <3>1. Len(Tail(queue[r])) <= MaxQueue
      BY <2>1, <2>2, PimAssumption DEF Types
    <3> QED
      BY <2>2, <2>3, <2>4, <3>1 DEF Types
  <2> QED
    BY <2>1, <2>3, <2>5 DEF Types, Alone
<1> QED
  BY <1>1, <1>2, <1>3, <1>4, <1>5, <1>6 DEF BaseNext

\* A step of a worker moves only that worker, and only inside a transfer.
LEMMA WorkerHolds ==
  ASSUME Types, Alone, NEW r \in Ranks, Worker(r)
  PROVE  Types' /\ Alone'
<1> USE DEF Types, Alone, AllDone, NoJob, OnlyUnsyncedRaces, NoTransferDuringRun, NothingOwed,
            Alive, sdk, data, direct
<1>1. CASE Take(r)
  <2>1. /\ worker[r] = "queued"
        /\ worker' = [worker EXCEPT ![r] = IF call.area = "mram" THEN "switch" ELSE "copy"]
        /\ UNCHANGED <<caller, call, queue, running, pim, bufs, buffers_aligned>>
        /\ caller # "aborted"
    BY <1>1 DEF Take
  <2>2. caller = "parallel"
    BY <2>1
  <2> QED
    BY <2>1, <2>2
<1>2. CASE Switch(r)
  <2>1. /\ worker[r] = "switch" /\ worker' = [worker EXCEPT ![r] = "copy"]
        /\ UNCHANGED <<caller, call, queue, running, pim, bufs, buffers_aligned>>
        /\ caller # "aborted"
    BY <1>2 DEF Switch
  <2>2. caller = "parallel"
    BY <2>1
  <2> QED
    BY <2>1, <2>2
<1>3. CASE WorkerFails(r)
  BY <1>3 DEF WorkerFails
<1>4. CASE CopyRank(r)
  <2> DEFINE job == [rank |-> r, op |-> call.op, area |-> call.area,
                     buf |-> [p \in DPUsOf[r] |-> buffers_aligned[r][p[2]]]]
  <2>1. /\ worker[r] = "copy" /\ worker' = [worker EXCEPT ![r] = "done"]
        /\ UNCHANGED <<caller, call, queue, running, buffers_aligned>>
        /\ caller # "aborted"
    BY <1>4 DEF CopyRank, AfterCopy
  <2>2. pim' = Perform(data, job)[1] /\ bufs' = Perform(data, job)[2]
    BY <1>4 DEF CopyRank
  <2>3. job.op \in {"send", "receive", "run"}
    OBVIOUS
  <2>4. DOMAIN pim' = DPUs /\ DOMAIN bufs' = Indices
    <3> HIDE DEF job, data
    <3>1. DOMAIN pim = DPUs /\ DOMAIN bufs = Indices
      OBVIOUS
    <3>2. DOMAIN Perform(data, job)[1] = DPUs /\ DOMAIN Perform(data, job)[2] = Indices
      BY <2>3, <3>1, PerformDomains
    <3> QED
      BY <2>2, <3>2
  <2>5. caller = "parallel"
    BY <2>1
  <2> QED
    BY <2>1, <2>4, <2>5
<1> QED
  BY <1>1, <1>2, <1>3, <1>4 DEF Worker

LEMMA StepHolds ==
  ASSUME Types, Alone, [Next]_vars
  PROVE  Types' /\ Alone'
<1> USE DEF AllDone, NoJob, OnlyUnsyncedRaces, NoTransferDuringRun, NothingOwed, sdk, data, direct
<1>1. CASE BaseNext /\ UNCHANGED direct
  BY <1>1, BaseHolds
<1>2. ASSUME NEW op \in {"send", "receive"}, NEW area \in Areas, NEW async \in AsyncTransfers,
             Transfer(op, area, async)
      PROVE  Types' /\ Alone'
  <2>1. /\ caller = "idle" /\ (CallerWaits => ~call.unsynced)
        /\ UNCHANGED <<queue, running, pim, bufs>>
        /\ call' = [call EXCEPT !.op = op, !.area = area]
        /\ \/ caller' = "aborted" /\ UNCHANGED <<buffers_aligned, worker>>
           \/ /\ caller' = "parallel" /\ buffers_aligned' = Aligned
              /\ worker' = [r \in Ranks |-> "queued"]
    BY <1>2 DEF Transfer
  <2>2. area \in {"mram", "wram"} /\ async \in BOOLEAN
    BY PimAssumption, DirectAssumption
  <2> QED
    BY <2>1, <2>2, AlignedType DEF Types, Alone
<1>3. CASE UnknownSymbol
  BY <1>3 DEF UnknownSymbol, Types, Alone
<1>4. CASE Join
  BY <1>4 DEF Join, Types, Alone
<1>5. ASSUME NEW r \in Ranks, Worker(r) PROVE Types' /\ Alone'
  BY <1>5, WorkerHolds
<1>6. CASE Ended \/ UNCHANGED vars
  BY <1>6 DEF Ended, vars, baseVars, Types, Alone
<1> QED
  BY <1>1, <1>2, <1>3, <1>4, <1>5, <1>6 DEF Next

THEOREM Invariance == Spec => [](Types /\ Alone)
<1>1. Init => Types /\ Alone
  BY InitHolds
<1>2. Types /\ Alone /\ [Next]_vars => (Types /\ Alone)'
  BY StepHolds
<1> QED
  BY <1>1, <1>2, PTL DEF Spec

\* The table of buffers, the queues and the tasks of the loop keep their types: in
\* particular every enabled DPU of any rank has one of the program's buffers.
THEOREM TypeCorrect == Spec => []TypeOK
<1>1. Types => TypeOK
  BY DEF Types, TypeOK
<1> QED
  BY <1>1, Invariance, PTL

\* Whatever the program does, with asserts or without: a worker is in the memory of a
\* rank with a job of the SDK not over only if the program has called the SDK with
\* async and not waited for it since.
THEOREM RacesAreUnsynced == Spec => []OnlyUnsyncedRaces
<1>1. Alone => OnlyUnsyncedRaces
  BY DEF Alone
<1> QED
  BY <1>1, Invariance, PTL

\* A program that syncs finds nothing queued when it transfers.
LEMMA QuietTransfers ==
  ASSUME CallerWaits, Types, Alone
  PROVE  NoTransferDuringRun /\ (caller = "parallel" => NoJob)
BY DEF Types, Alone, AllDone, OnlyUnsyncedRaces, NoTransferDuringRun

\* No worker copies a rank for which the SDK has a job that is not over, when the
\* program syncs first as the SDK would make it wait: the parallel loops of
\* SendToPIM and ReceiveFromPIM beside Launch and the SDK's own transfers.
THEOREM TransfersAreAlone ==
  ASSUME CallerWaits
  PROVE  Spec => []NoTransferDuringRun
<1>1. Types /\ Alone => NoTransferDuringRun
  BY QuietTransfers
<1> QED
  BY <1>1, Invariance, PTL

(***************************************************************************)
(* What a direct send has placed so far.  The buffers stay as they are     *)
(* while it runs, and a copy leaves the other ranks alone.                 *)
(***************************************************************************)
Placed ==
    /\ buffers_aligned = Aligned
    /\ call.area \in Areas
    /\ \A p \in DPUs : DOMAIN pim[p] = Areas
    /\ caller = "parallel" /\ call.op = "send" =>
          \A p \in DPUs : worker[p[1]] = "done" => pim[p][call.area] = bufs[Before(DPUs, p)]

LEMMA PerformAreas ==
  ASSUME NEW job, job.op \in {"send", "receive", "run"}, \A p \in DPUs : DOMAIN pim[p] = Areas,
         NEW p \in DPUs
  PROVE  DOMAIN Perform(data, job)[1][p] = Areas
<1>1. CASE job.op = "send"
  BY <1>1 DEF Perform, Sent, data
<1>2. CASE job.op = "receive"
  BY <1>2 DEF Perform, data
<1>3. CASE job.op = "run"
  BY <1>3 DEF Perform, Run, data
<1> QED
  BY <1>1, <1>2, <1>3

LEMMA InitPlaced == Init => Placed
BY PimAssumption DEF Init, BaseInit, Placed

\* The program makes no call of the base class in the parallel loop, and no job is
\* there to start or to end.
LEMMA BaseIsOutside ==
  ASSUME CallerWaits, Types, Alone, BaseNext
  PROVE  caller # "parallel" /\ caller' # "parallel"
<1>1. \A r \in Ranks : queue[r] # <<>> => caller # "parallel"
  BY QuietTransfers DEF NoJob
<1> QED
  BY <1>1 DEF BaseNext, Fill, Sync, Waited, CallFails, Launch, SendToPIMByUPMEM,
         ReceiveFromPIMByUPMEM, BroadcastToPIM, Post, Returns, StartJob, FinishJob, Types

LEMMA BasePlaced ==
  ASSUME CallerWaits, Types, Alone, Placed, BaseNext, UNCHANGED direct
  PROVE  Placed'
<1> USE DEF sdk, data, direct
<1>1. CASE Fill \/ Sync \/ Waited \/ CallFails
  <2>1. /\ UNCHANGED <<pim, buffers_aligned>> /\ call'.area = call.area
        /\ caller' # "parallel"
    BY <1>1 DEF Fill, Sync, Waited, CallFails, Types
  <2> QED
    BY <2>1 DEF Placed
<1>2. ASSUME NEW async \in BOOLEAN, Launch(async) PROVE Placed'
  BY <1>2, PimAssumption DEF Launch, Post, Returns, Placed
<1>3. ASSUME NEW async \in BOOLEAN, NEW area \in Areas,
             \/ SendToPIMByUPMEM(area, async) \/ ReceiveFromPIMByUPMEM(area, async)
             \/ \E k \in Indices : BroadcastToPIM(k, area, async)
      PROVE  Placed'
  <2>1. /\ UNCHANGED <<pim, bufs, buffers_aligned, worker>>
        /\ caller' # "parallel" /\ call'.area = area
    BY <1>3 DEF SendToPIMByUPMEM, ReceiveFromPIMByUPMEM, BroadcastToPIM, Post, Returns
  <2> QED
    BY <2>1 DEF Placed
<1>4. ASSUME NEW r \in Ranks, StartJob(r) PROVE Placed'
  BY <1>4 DEF StartJob, Placed
<1>5. ASSUME NEW r \in Ranks, FinishJob(r) PROVE Placed'
  <2>1. queue[r] # <<>> /\ queue[r] \in Seq(Jobs)
    BY <1>5 DEF FinishJob, Types
  <2>2. caller # "parallel"
    BY <2>1, QuietTransfers DEF NoJob
  <2>3. Head(queue[r]).op \in {"send", "receive", "run"}
    <3>1. Head(queue[r]) \in Jobs
      BY <2>1
    <3> QED
      BY <3>1 DEF Jobs
  <2>4. /\ UNCHANGED <<caller, call, buffers_aligned>>
        /\ pim' = Perform(data, Head(queue[r]))[1]
    BY <1>5 DEF FinishJob
  <2> HIDE DEF data
  <2>5. \A p \in DPUs : DOMAIN pim'[p] = Areas
    BY <2>3, <2>4, PerformAreas DEF Placed
  <2> QED
    BY <2>2, <2>4, <2>5 DEF Placed
<1> QED
  BY <1>1, <1>2, <1>3, <1>4, <1>5 DEF BaseNext

LEMMA CopyPlaced ==
  ASSUME Types, Alone, Placed, NEW r \in Ranks, CopyRank(r)
  PROVE  Placed'
<1> DEFINE job == [rank |-> r, op |-> call.op, area |-> call.area,
                   buf |-> [p \in DPUsOf[r] |-> buffers_aligned[r][p[2]]]]
<1>1. /\ worker' = [worker EXCEPT ![r] = "done"]
      /\ UNCHANGED <<caller, call, buffers_aligned>>
  BY DEF CopyRank, AfterCopy, sdk
<1>2. pim' = Perform(data, job)[1] /\ bufs' = Perform(data, job)[2]
  BY DEF CopyRank
<1>3. job.op \in {"send", "receive", "run"} /\ call.op \in {"send", "receive", "run"}
  BY DEF Types
<1>4. \A p \in DPUs : DOMAIN pim'[p] = Areas
  <2> HIDE DEF job
  <2> QED
    BY <1>2, <1>3, PerformAreas DEF Placed
<1>5. ASSUME call.op = "send", NEW p \in DPUs, worker'[p[1]] = "done", caller = "parallel"
      PROVE  pim'[p][call.area] = bufs'[Before(DPUs, p)]
  <2>1. /\ bufs' = bufs
        /\ pim' = [q \in DPUs |-> IF q[1] = r
                     THEN [pim[q] EXCEPT ![call.area] = bufs[job.buf[q]]] ELSE pim[q]]
    BY <1>2, <1>5 DEF Perform, Sent, data
  <2>2. CASE p[1] = r
    <3>1. p \in DPUsOf[r]
      BY <2>2 DEF DPUsOf
    <3>2. job.buf[p] = Before(DPUs, p)
      BY <2>2, <3>1, AlignedIs DEF Placed
    <3>3. DOMAIN pim[p] = Areas /\ call.area \in Areas
      BY DEF Placed
    <3> HIDE DEF job
    <3>4. pim'[p] = [pim[p] EXCEPT ![call.area] = bufs[job.buf[p]]]
      BY <2>1, <2>2
    <3>5. pim'[p][call.area] = bufs[job.buf[p]]
      BY <3>3, <3>4
    <3> QED
      BY <2>1, <3>2, <3>5
  <2>3. CASE p[1] # r
    <3>1. worker[p[1]] = "done"
      BY <1>1, <1>5, <2>3 DEF Types
    <3>2. pim'[p] = pim[p]
      BY <2>1, <2>3
    <3> QED
      BY <1>5, <2>1, <3>1, <3>2 DEF Placed
  <2> QED
    BY <2>2, <2>3
<1> HIDE DEF job
<1> QED
  BY <1>1, <1>4, <1>5 DEF Placed

LEMMA StepPlaced ==
  ASSUME CallerWaits, Types, Alone, Placed, [Next]_vars
  PROVE  Placed'
<1> USE DEF sdk, data, direct
<1>1. CASE BaseNext /\ UNCHANGED direct
  BY <1>1, BasePlaced
<1>2. ASSUME NEW op \in {"send", "receive"}, NEW area \in Areas, NEW async \in AsyncTransfers,
             Transfer(op, area, async)
      PROVE  Placed'
  <2>1. /\ UNCHANGED <<pim, bufs>> /\ call'.area = area
        /\ \/ caller' = "aborted" /\ UNCHANGED <<buffers_aligned, worker>>
           \/ buffers_aligned' = Aligned /\ worker' = [r \in Ranks |-> "queued"]
    BY <1>2 DEF Transfer
  <2>2. \A p \in DPUs : p[1] \in Ranks
    BY DEF DPUs
  <2> QED
    BY <2>1, <2>2 DEF Placed
<1>3. CASE UnknownSymbol \/ Join
  BY <1>3 DEF UnknownSymbol, Join, Placed
<1>4. ASSUME NEW r \in Ranks, Worker(r) PROVE Placed'
  <2>1. CASE CopyRank(r)
    BY <2>1, CopyPlaced
  <2>2. CASE WorkerFails(r)
    BY <2>2 DEF WorkerFails, Placed
  <2>3. CASE Take(r) \/ Switch(r)
    <3>1. /\ UNCHANGED <<caller, call, pim, bufs, buffers_aligned>>
          /\ \A q \in Ranks : worker'[q] = "done" => worker[q] = "done"
      BY <2>3 DEF Take, Switch, Types
    <3>2. \A p \in DPUs : p[1] \in Ranks
      BY DEF DPUs
    <3> QED
      BY <3>1, <3>2 DEF Placed
  <2> QED
    BY <1>4, <2>1, <2>2, <2>3 DEF Worker
<1>5. CASE Ended \/ UNCHANGED vars
  BY <1>5 DEF Ended, vars, baseVars, Placed
<1> QED
  BY <1>1, <1>2, <1>3, <1>4, <1>5 DEF Next

\* Only Join goes from the parallel loop to the program.
LEMMA JoinPlaces ==
  ASSUME Types, Placed, Next, caller = "parallel", caller' = "idle", call.op = "send"
  PROVE  \A k \in Indices :
            pim'[DpuAt[k]][call.area] = bufs[k] /\ DpuAt[k][1] = rankIDOfDPU[k]
<1>1. Join
  BY DEF Next, BaseNext, Fill, Sync, Waited, CallFails, Launch, SendToPIMByUPMEM,
         ReceiveFromPIMByUPMEM, BroadcastToPIM, Post, StartJob, FinishJob, Transfer, UnknownSymbol,
         Worker, Take, Switch, WorkerFails, CopyRank, Ended, vars, baseVars
<1>2. AllDone /\ UNCHANGED <<pim, bufs>>
  BY <1>1 DEF Join, data
<1>3. TAKE k \in Indices
<1>4. DpuAt[k] \in DPUs /\ Before(DPUs, DpuAt[k]) = k
  BY Numbering
<1>5. worker[DpuAt[k][1]] = "done"
  BY <1>2, <1>4, PositionType DEF AllDone
<1> QED
  BY <1>2, <1>4, <1>5, RankIs DEF Placed

\* When SendToPIM returns, buffer k is in DPU k, which GetRankIDOfDPU finds in its
\* rank: with any DPUs missing and the ranks copied in any order by any threads.
THEOREM BuffersReachDpus ==
  ASSUME CallerWaits
  PROVE  Spec => SendPlaces
<1>1. Init => Placed
  BY InitPlaced
<1>2. (Types /\ Alone) /\ Placed /\ [Next]_vars => Placed'
  BY StepPlaced
<1> DEFINE Places == caller = "parallel" /\ caller' = "idle" /\ call.op = "send" =>
         \A k \in Indices :
            pim'[DpuAt[k]][call.area] = bufs[k] /\ DpuAt[k][1] = rankIDOfDPU[k]
<1>3. (Types /\ Alone) /\ Placed /\ [Next]_vars => [Places]_vars
  BY JoinPlaces
<1>4. Spec => [](Types /\ Alone)
  BY Invariance
<1>5. Spec => [][Places]_vars
  BY <1>1, <1>2, <1>3, <1>4, PTL DEF Spec
<1> QED
  BY <1>5 DEF SendPlaces

(***************************************************************************)
(* Transfers of both kinds together are those of one array.                *)
(***************************************************************************)

\* What the mapping needs besides: the queues are sound, and a transfer under way
\* is one.
Mapped == Queues /\ NoClash /\ (caller = "parallel" => call.op \in {"send", "receive"})

LEMMA MappedSteps ==
  ASSUME CallerWaits, Types, Alone, Mapped, [Next]_vars
  PROVE  Mapped'
<1> USE DEF sdk, data, direct
<1>1. CASE BaseNext /\ UNCHANGED direct
  <2>1. Queues' /\ NoClash'
    BY <1>1, BaseHoldsQueues DEF Mapped
  <2>2. caller' # "parallel"
    BY <1>1, BaseIsOutside
  <2> QED
    BY <2>1, <2>2 DEF Mapped
<1>2. ASSUME UNCHANGED <<queue, running>>,
             call' \in [op : {"send", "receive", "run"}, area : {"mram", "wram"}, unsynced : BOOLEAN],
             caller' = "parallel" => call'.op \in {"send", "receive"}
      PROVE  Mapped'
  BY <1>2 DEF Mapped, Queues, QueueTypes, OwnJobs, NoClash
<1>3. ASSUME NEW op \in {"send", "receive"}, NEW area \in Areas, NEW async \in AsyncTransfers,
             Transfer(op, area, async)
      PROVE  Mapped'
  <2>1. area \in {"mram", "wram"} /\ async \in BOOLEAN
    BY PimAssumption, DirectAssumption
  <2>2. UNCHANGED <<queue, running>> /\ call' = [call EXCEPT !.op = op, !.area = area]
    BY <1>3 DEF Transfer
  <2>3. call' \in [op : {"send", "receive", "run"}, area : {"mram", "wram"}, unsynced : BOOLEAN]
        /\ call'.op = op
    BY <2>1, <2>2 DEF Types
  <2> QED
    BY <1>2, <2>2, <2>3
<1>4. ASSUME UNCHANGED <<call, queue, running>>, caller' # "parallel" \/ caller' = caller
      PROVE  Mapped'
  BY <1>2, <1>4 DEF Types, Mapped
<1>5. CASE UnknownSymbol \/ Join
  BY <1>4, <1>5 DEF UnknownSymbol, Join
<1>6. ASSUME NEW r \in Ranks, Worker(r) PROVE Mapped'
  BY <1>4, <1>6 DEF Worker, Take, Switch, WorkerFails, CopyRank
<1>7. CASE Ended \/ UNCHANGED vars
  BY <1>4, <1>7 DEF Ended, vars, baseVars
<1> QED
  BY <1>1, <1>3, <1>5, <1>6, <1>7 DEF Next

LEMMA DirectIndices == Array!Dpus = Indices
BY DEF Array!Dpus, Indices

LEMMA InitMaps == Init => Array!Init
<1> SUFFICES ASSUME Init PROVE Array!Init
  OBVIOUS
<1>1. BaseInit /\ \A r \in Ranks : worker[r] = "done"
  BY DEF Init
<1>2. UpmemArray!Init /\ caller = "idle"
  BY <1>1, UpmemInitMaps DEF UpmemInit, BaseInit
<1>3. {k \in Indices : worker[DpuAt[k][1]] \in {"queued", "switch", "copy"}} = {}
  BY <1>1, Numbering, PositionType
<1> QED
  BY <1>2, <1>3 DEF UpmemArray!Init, Array!Init, UpmemArray!Dpus, Array!Dpus

\* Calls of the base class are as in UPMEMInterface: no direct transfer is under way.
LEMMA BaseMaps ==
  ASSUME CallerWaits, Types, Alone, Mapped, BaseNext, UNCHANGED direct
  PROVE  [Array!Next]_Array!vars
<1> USE DEF Array!Next
<1>1. worker' = worker /\ Queues /\ NoClash
  BY DEF direct, Mapped
<1>2. caller # "parallel" /\ caller' # "parallel"
  BY BaseIsOutside
<1>3. CASE Fill
  <2>1. UpmemArray!Fill
    BY <1>1, <1>3, FillMaps
  <2>2. Array!Fill
    BY <1>1, <1>2, <2>1 DEF UpmemArray!Fill, Array!Fill
  <2> QED
    BY <2>2
<1>4. CASE Sync \/ Waited \/ CallFails
  <2>1. UpmemArray!Sync \/ UpmemArray!Waited \/ UpmemArray!Stop
    BY <1>4, SyncMaps
  <2>2. Array!Sync \/ Array!Waited \/ Array!Stop
    BY <1>1, <1>2, <2>1 DEF UpmemArray!Sync, UpmemArray!Waited, UpmemArray!Stop,
       Array!Sync, Array!Waited, Array!Stop
  <2> QED
    BY <2>2
<1>5. ASSUME NEW async \in BOOLEAN,
             \/ Launch(async)
             \/ \E area \in Areas :
                  \/ SendToPIMByUPMEM(area, async) \/ ReceiveFromPIMByUPMEM(area, async)
                  \/ \E k \in Indices : BroadcastToPIM(k, area, async)
      PROVE  Array!Next
  <2>1. UpmemArray!Call
    BY <1>1, <1>5, CallMaps, Zenon
  <2>2. Array!Call
    BY <1>1, <1>2, <2>1 DEF UpmemArray!Call, Array!Call, UpmemArray!Dpus, Array!Dpus,
       UpmemArray!Run, Array!Run, UpmemArray!Sent, Array!Sent, UpmemArray!Same, Array!Same,
       UpmemArray!Received, Array!Received
  <2> QED
    BY <2>2
<1>6. ASSUME NEW r \in Ranks, StartJob(r) PROVE UNCHANGED Array!vars
  <2>1. UNCHANGED <<caller, SettledPim, SettledBufs, Owed>>
    BY <1>6, StartMaps
  <2> QED
    BY <1>1, <1>2, <2>1 DEF Array!vars
<1>7. ASSUME NEW r \in Ranks, FinishJob(r) PROVE Array!Next
  <2>1. UpmemArray!Settle
    BY <1>1, <1>7, FinishMaps
  <2>2. Array!Settle
    BY <1>1, <1>2, <2>1 DEF UpmemArray!Settle, Array!Settle
  <2> QED
    BY <2>2
<1> QED
  BY <1>3, <1>4, <1>5, <1>6, <1>7, Zenon DEF BaseNext

\* A transfer up to the parallel loop, or to the assert that stops it.
LEMMA TransferMaps ==
  ASSUME CallerWaits, Types, Alone, NEW op \in {"send", "receive"}, NEW area \in Areas,
         NEW async \in AsyncTransfers, Transfer(op, area, async)
  PROVE  Array!Start \/ Array!Stop
<1>1. /\ caller = "idle" /\ NoJob /\ UNCHANGED <<queue, data>>
      /\ call'.op = op /\ call'.area = area
  BY DEF Transfer, sdk, Types, Alone, NothingOwed
<1>2. SettledPim' = SettledPim /\ SettledBufs' = SettledBufs /\ Owed' = Owed /\ Owed = {}
  BY <1>1, SettledIs, SettledOfNone DEF Owed
<1>3. CASE caller' = "aborted" /\ worker' = worker
  BY <1>1, <1>2, <1>3 DEF Array!Stop
<1>4. CASE caller' = "parallel" /\ worker' = [r \in Ranks |-> "queued"]
  <2>1. {k \in Indices : worker'[DpuAt[k][1]] \in {"queued", "switch", "copy"}} = Indices
    BY <1>4, Numbering, PositionType
  <2> QED
    BY <1>1, <1>2, <1>4, <2>1, DirectIndices DEF Array!Start
<1> QED
  BY <1>3, <1>4 DEF Transfer, direct

LEMMA StopMaps ==
  ASSUME UnknownSymbol \/ \E r \in Ranks : WorkerFails(r)
  PROVE  Array!Stop
<1>1. UNCHANGED <<queue, data, worker>> /\ caller' = "aborted"
  BY DEF UnknownSymbol, WorkerFails, sdk, direct
<1>2. SettledPim' = SettledPim /\ SettledBufs' = SettledBufs /\ Owed' = Owed
  BY <1>1, SettledIs DEF Owed
<1> QED
  BY <1>1, <1>2 DEF Array!Stop

LEMMA JoinMaps == ASSUME Types, Placed, Mapped, Join PROVE Array!Return
<1>1. caller = "parallel" /\ caller' = "idle" /\ UNCHANGED <<queue, data, worker>>
      /\ call.op \in {"send", "receive"} /\ call.area \in Areas
  BY DEF Join, sdk, direct, Mapped, Placed
<1>2. SettledPim' = SettledPim /\ SettledBufs' = SettledBufs /\ Owed' = Owed
  BY <1>1, SettledIs DEF Owed
<1>3. {k \in Indices : worker[DpuAt[k][1]] \in {"queued", "switch", "copy"}} = {}
  BY Numbering, PositionType DEF Join, AllDone
<1> QED
  BY <1>1, <1>2, <1>3 DEF Array!Return

\* A task that is taken or has switched the multiplexer shows nothing.
LEMMA TakeMaps ==
  ASSUME Types, NEW r \in Ranks, Take(r) \/ Switch(r)
  PROVE  UNCHANGED Array!vars
<1>1. UNCHANGED <<caller, call, queue, data>>
  BY DEF Take, Switch, sdk
<1>2. SettledPim' = SettledPim /\ SettledBufs' = SettledBufs /\ Owed' = Owed
  BY <1>1, SettledIs DEF Owed
<1>3. \A q \in Ranks : worker'[q] \in {"queued", "switch", "copy"}
                         <=> worker[q] \in {"queued", "switch", "copy"}
  BY DEF Take, Switch, Types
<1>4. {k \in Indices : worker'[DpuAt[k][1]] \in {"queued", "switch", "copy"}} =
      {k \in Indices : worker[DpuAt[k][1]] \in {"queued", "switch", "copy"}}
  BY <1>3, Numbering, PositionType
<1> QED
  BY <1>1, <1>2, <1>4 DEF Array!vars

\* The copy of a rank is the copy of its DPUs, each with its own buffer.
LEMMA CopyMaps ==
  ASSUME CallerWaits, Types, Alone, Placed, Mapped, NEW r \in Ranks, CopyRank(r)
  PROVE  Array!CopySome
<1> DEFINE job == [rank |-> r, op |-> call.op, area |-> call.area,
                   buf |-> [p \in DPUsOf[r] |-> buffers_aligned[r][p[2]]]]
           left == {k \in Indices : worker[DpuAt[k][1]] \in {"queued", "switch", "copy"}}
           mine == {k \in Indices : DpuAt[k][1] = r}
<1>1. /\ worker[r] = "copy" /\ worker' = [worker EXCEPT ![r] = "done"]
      /\ UNCHANGED <<caller, call, queue>> /\ caller # "aborted"
  BY DEF CopyRank, AfterCopy, sdk, Alive
<1>2. caller = "parallel" /\ NoJob /\ NoJob'
  BY <1>1, QuietTransfers DEF Alone, AllDone, Types, NoJob
<1>3. pim' = Perform(data, job)[1] /\ bufs' = Perform(data, job)[2]
  BY DEF CopyRank
<1>4. /\ SettledPim = [k \in Indices |-> pim[DpuAt[k]]]
      /\ SettledBufs = [k \in Indices |-> bufs[k]] /\ Owed = {}
      /\ SettledPim' = [k \in Indices |-> pim'[DpuAt[k]]]
      /\ SettledBufs' = [k \in Indices |-> bufs'[k]] /\ Owed' = {}
  BY <1>2, SettledOfNone
<1>5. left' \subseteq left /\ left \ left' = mine
  <2>1. \A q \in Ranks : /\ worker[q] \in {"queued", "switch", "copy", "done"}
                         /\ worker'[q] = IF q = r THEN "done" ELSE worker[q]
    BY <1>1 DEF Types
  <2>2. \A k \in Indices : DpuAt[k][1] \in Ranks
    BY Numbering, PositionType
  <2> QED
    BY <1>1, <2>1, <2>2
<1>6. /\ job.rank = r /\ job.op = call.op /\ job.area = call.area
      /\ \A p \in DPUsOf[r] : job.buf[p] = Before(DPUs, p)
  BY AlignedIs, DPUsOfIs DEF Placed
<1>7. call.op \in {"send", "receive"} /\ call.area \in Areas
  BY <1>2 DEF Mapped, Placed
<1>8. \A k \in Indices : /\ DpuAt[k] \in DPUs /\ Before(DPUs, DpuAt[k]) = k
                         /\ k \in mine <=> DpuAt[k] \in DPUsOf[r]
  BY Numbering, DPUsOfIs
<1> HIDE DEF job
<1>9. CASE call.op = "send"
  <2>1. bufs' = bufs /\ pim' = Sent(pim, bufs, job)
    BY <1>3, <1>6, <1>9, PerformIs DEF data
  <2>2. ASSUME NEW k \in Indices
        PROVE  SettledPim'[k] = IF k \in mine
                                THEN [SettledPim[k] EXCEPT ![call.area] = SettledBufs[k]]
                                ELSE SettledPim[k]
    BY <1>4, <1>6, <1>8, <2>1 DEF Sent
  <2>3. /\ SettledPim' = Array!Sent(SettledPim, SettledBufs, call.area, mine)
        /\ SettledBufs' = SettledBufs
    BY <1>4, <2>1, <2>2, DirectIndices DEF Array!Sent
  <2> HIDE DEF mine
  <2> QED
    BY <1>1, <1>2, <1>4, <1>5, <1>7, <1>9, <2>3 DEF Array!CopySome
<1>10. CASE call.op = "receive"
  <2>1. pim' = pim /\ bufs' = Received(pim, bufs, job)
    BY <1>3, <1>6, <1>10, PerformIs DEF data
  <2>2. BuffersOf(job) = mine
    <3>1. BuffersOf(job) = {Before(DPUs, p) : p \in DPUsOf[r]}
      BY <1>6 DEF BuffersOf
    <3>2. \A p \in DPUsOf[r] : Before(DPUs, p) \in Indices /\ DpuAt[Before(DPUs, p)][1] = r
      BY DPUsOfIs, Numbering
    <3> QED
      BY <1>8, <3>1, <3>2
  <2>3. ASSUME NEW k \in Indices
        PROVE  SettledBufs'[k] = IF k \in mine THEN SettledPim[k][call.area] ELSE SettledBufs[k]
    <3>1. CASE k \in mine
      <4>1. (CHOOSE p \in DPUsOf[job.rank] : job.buf[p] = k) = DpuAt[k]
        BY <1>6, <1>8, <3>1, DPUsOfIs, Numbering
      <4>2. bufs'[k] = pim[DpuAt[k]][job.area]
        BY <2>1, <2>2, <3>1, <4>1 DEF Received
      <4>3. SettledBufs'[k] = bufs'[k] /\ SettledPim[k] = pim[DpuAt[k]]
        BY <1>4
      <4> HIDE DEF mine
      <4> QED
        BY <1>6, <3>1, <4>2, <4>3
    <3>2. CASE k \notin mine
      BY <1>4, <2>1, <2>2, <3>2 DEF Received
    <3> QED
      BY <3>1, <3>2
  <2>4. /\ SettledBufs' = Array!Received(SettledPim, SettledBufs, call.area, mine)
        /\ SettledPim' = SettledPim
    BY <1>4, <2>1, <2>3, DirectIndices DEF Array!Received
  <2> HIDE DEF mine
  <2> QED
    BY <1>1, <1>2, <1>4, <1>5, <1>7, <1>10, <2>4 DEF Array!CopySome
<1> QED
  BY <1>7, <1>9, <1>10

LEMMA StepMaps ==
  ASSUME CallerWaits, Types, Alone, Placed, Mapped, [Next]_vars
  PROVE  [Array!Next]_Array!vars
<1>1. CASE BaseNext /\ UNCHANGED direct
  BY <1>1, BaseMaps
<1>2. ASSUME NEW op \in {"send", "receive"}, NEW area \in Areas, NEW async \in AsyncTransfers,
             Transfer(op, area, async)
      PROVE  Array!Next
  BY <1>2, TransferMaps DEF Array!Next
<1>3. CASE UnknownSymbol
  BY <1>3, StopMaps DEF Array!Next
<1>4. CASE Join
  BY <1>4, JoinMaps DEF Array!Next
<1>5. ASSUME NEW r \in Ranks, Worker(r) PROVE [Array!Next]_Array!vars
  BY <1>5, TakeMaps, StopMaps, CopyMaps DEF Worker, Array!Next
<1>6. CASE Ended \/ UNCHANGED vars
  <2>1. UNCHANGED <<caller, call, queue, data, worker>>
    BY <1>6 DEF Ended, vars, baseVars, sdk, direct
  <2> QED
    BY <2>1, SettledIs DEF Owed, Array!vars
<1> QED
  BY <1>1, <1>2, <1>3, <1>4, <1>5, <1>6 DEF Next

\* DirectPIMInterface implements PimArray: whatever ranks and DPUs there are, however
\* many threads share the ranks and in whatever order they copy them, with asserts
\* or without, direct transfers and the SDK's calls together have the effects of
\* calls made one at a time, when the program syncs before it transfers.
THEOREM DirectIsAnArray ==
  ASSUME CallerWaits
  PROVE  Spec => Implements
<1>1. Init => Placed /\ Mapped
  BY InitPlaced, InitHoldsQueues DEF Init, BaseInit, Mapped
<1>2. (Types /\ Alone) /\ (Placed /\ Mapped) /\ [Next]_vars => (Placed /\ Mapped)'
  BY StepPlaced, MappedSteps
<1>3. Init => Array!Init
  BY InitMaps
<1>4. (Types /\ Alone) /\ (Placed /\ Mapped) /\ [Next]_vars => [Array!Next]_Array!vars
  BY StepMaps
<1>5. Spec => [](Types /\ Alone)
  BY Invariance
<1>6. Spec => Array!Spec
  BY <1>1, <1>2, <1>3, <1>4, <1>5, PTL DEF Spec, Array!Spec
<1> QED
  BY <1>6 DEF Implements
=============================================================================
