------------------------- MODULE PimInterfaceProofs -------------------------
(***************************************************************************)
(* The calls both interfaces have, through the SDK's queues.  Counting the *)
(* enabled DPUs rank by rank and slot by slot, as every loop of the code   *)
(* does, gives each of them one index of the caller's buffers; what a      *)
(* queue of jobs does is told job by job, by induction; and UPMEMInterface *)
(* implements PimArray.                                                    *)
(***************************************************************************)
EXTENDS UpmemPIM, FiniteSetTheorems, WellFoundedInduction, TLAPS

LEMMA DPUsFinite == IsFiniteSet(DPUs) /\ nr_of_dpus \in Nat
<1>1. IsFiniteSet(Ranks)
  <2>1. 0 \in Int /\ NrRanks - 1 \in Int
    BY PimAssumption
  <2> QED
    BY <2>1, FS_Interval DEF Ranks
<1>2. IsFiniteSet(Slots)
  <2>1. IsFiniteSet(0 .. 63)
    <3>1. 0 \in Int /\ 63 \in Int
      OBVIOUS
    <3> QED
      BY <3>1, FS_Interval, Zenon
  <2> QED
    BY <2>1, PimAssumption, FS_Subset
<1>3. IsFiniteSet(Ranks \X Slots)
  BY <1>1, <1>2, FS_Product
<1>4. DPUs \subseteq Ranks \X Slots
  BY DEF DPUs
<1> QED
  BY <1>3, <1>4, FS_Subset, FS_CardinalityType DEF nr_of_dpus

LEMMA PositionType ==
  ASSUME NEW p \in DPUs
  PROVE  p[1] \in Ranks /\ p[2] \in Slots /\ p[1] \in Int /\ p[2] \in Int
<1>1. p[1] \in Ranks /\ p[2] \in Slots /\ Slots \subseteq Int
  BY PimAssumption DEF DPUs
<1>2. NrRanks - 1 \in Int
  BY PimAssumption
<1>3. Ranks \subseteq Int
  BY <1>2 DEF Ranks
<1> QED
  BY <1>1, <1>3

\* The number of DPUs before one of them is an index of a buffer.
LEMMA BeforeIsIndex ==
  ASSUME NEW p \in DPUs
  PROVE  Before(DPUs, p) \in Indices
<1> DEFINE S == {o \in DPUs : o[1] < p[1] \/ (o[1] = p[1] /\ o[2] < p[2])}
<1>1. p[1] \in Int /\ p[2] \in Int
  BY PositionType
<1>2. S \subseteq DPUs \ {p}
  BY <1>1
<1>3. IsFiniteSet(DPUs \ {p}) /\ Cardinality(DPUs \ {p}) = nr_of_dpus - 1
  BY DPUsFinite, FS_RemoveElement DEF nr_of_dpus
<1>4. IsFiniteSet(S) /\ Cardinality(S) <= nr_of_dpus - 1
  BY <1>2, <1>3, FS_Subset
<1>5. Cardinality(S) \in Nat
  BY <1>4, FS_CardinalityType
<1>6. Before(DPUs, p) = Cardinality(S)
  BY DEF Before
<1> QED
  BY <1>4, <1>5, <1>6, DPUsFinite DEF Indices

\* A DPU that comes later in the order has a larger number.
LEMMA BeforeGrows ==
  ASSUME NEW p \in DPUs, NEW q \in DPUs, p[1] < q[1] \/ (p[1] = q[1] /\ p[2] < q[2])
  PROVE  Before(DPUs, p) < Before(DPUs, q)
<1> DEFINE S(x) == {o \in DPUs : o[1] < x[1] \/ (o[1] = x[1] /\ o[2] < x[2])}
<1>1. \A o \in DPUs : o[1] \in Int /\ o[2] \in Int
  BY PositionType
<1>2. S(p) \cup {p} \subseteq S(q) /\ p \notin S(p)
  BY <1>1
<1>3. IsFiniteSet(S(p)) /\ IsFiniteSet(S(q))
  <2>1. S(p) \subseteq DPUs /\ S(q) \subseteq DPUs
    OBVIOUS
  <2> QED
    BY <2>1, DPUsFinite, FS_Subset
<1>4. Cardinality(S(p) \cup {p}) = Cardinality(S(p)) + 1
  BY <1>2, <1>3, FS_AddElement
<1>5. Cardinality(S(p) \cup {p}) <= Cardinality(S(q))
  BY <1>2, <1>3, FS_Subset
<1>6. Cardinality(S(p)) \in Nat /\ Cardinality(S(q)) \in Nat
  BY <1>3, FS_CardinalityType
<1>7. Before(DPUs, p) = Cardinality(S(p)) /\ Before(DPUs, q) = Cardinality(S(q))
  BY DEF Before
<1> QED
  BY <1>4, <1>5, <1>6, <1>7

LEMMA BeforeInjective ==
  ASSUME NEW p \in DPUs, NEW q \in DPUs, Before(DPUs, p) = Before(DPUs, q)
  PROVE  p = q
<1>1. Before(DPUs, p) \in Int
  <2>1. nr_of_dpus - 1 \in Int
    BY DPUsFinite
  <2> QED
    BY <2>1, BeforeIsIndex DEF Indices
<1>2. ~(p[1] < q[1] \/ (p[1] = q[1] /\ p[2] < q[2]))
  BY <1>1, BeforeGrows
<1>3. ~(q[1] < p[1] \/ (q[1] = p[1] /\ q[2] < p[2]))
  BY <1>1, BeforeGrows
<1>4. p[1] = q[1] /\ p[2] = q[2]
  BY <1>2, <1>3, PositionType
<1> QED
  BY <1>4 DEF DPUs

\* Every buffer is some DPU's: an injection into a set no larger is onto.
LEMMA EveryIndexIsADpu ==
  ASSUME NEW k \in Indices
  PROVE  \E p \in DPUs : Before(DPUs, p) = k
<1> DEFINE f == [p \in DPUs |-> Before(DPUs, p)]
<1>1. f \in Injection(DPUs, Indices)
  BY BeforeIsIndex, BeforeInjective DEF Injection, IsInjective
<1>2. IsFiniteSet(Indices) /\ Cardinality(Indices) = Cardinality(DPUs)
  <2>1. nr_of_dpus \in Nat /\ 0 \in Int /\ nr_of_dpus - 1 \in Int
    BY DPUsFinite
  <2>2. IsFiniteSet(Indices)
        /\ Cardinality(Indices) = IF 0 > nr_of_dpus - 1 THEN 0 ELSE nr_of_dpus - 1 - 0 + 1
    BY <2>1, FS_Interval DEF Indices
  <2> QED
    BY <2>1, <2>2 DEF nr_of_dpus
<1> HIDE DEF f
<1>3. f \in Surjection(DPUs, Indices)
  BY <1>1, <1>2, FS_Injection
<1>4. PICK p \in DPUs : f[p] = k
  BY <1>3 DEF Surjection
<1> QED
  BY <1>4 DEF f

\* Numbering is one to one: DpuAt[k] is a DPU, it is number k, and it is the only one.
\* This is what lets a caller of SendToPIM, ReceiveFromPIM or GetRankIDOfDPU name a
\* DPU by the index of its buffer, whatever DPUs are missing.
THEOREM Numbering ==
  /\ \A k \in Indices : DpuAt[k] \in DPUs /\ Before(DPUs, DpuAt[k]) = k
  /\ \A p \in DPUs : Before(DPUs, p) \in Indices /\ DpuAt[Before(DPUs, p)] = p
<1>1. ASSUME NEW k \in Indices PROVE DpuAt[k] \in DPUs /\ Before(DPUs, DpuAt[k]) = k
  BY EveryIndexIsADpu DEF DpuAt
<1>2. ASSUME NEW p \in DPUs PROVE Before(DPUs, p) \in Indices /\ DpuAt[Before(DPUs, p)] = p
  BY <1>1, BeforeIsIndex, BeforeInjective
<1> QED
  BY <1>1, <1>2

\* Induction over the numbers, for a property given by the set of those that have it.
LEMMA NatInduct ==
  ASSUME NEW S, 0 \in S, \A n \in Nat : n \in S => n + 1 \in S
  PROVE  Nat \subseteq S
<1> DEFINE R == OpToRel(<, Nat)
<1> SUFFICES ASSUME ~(Nat \subseteq S) PROVE FALSE
  OBVIOUS
<1>1. IsWellFoundedOn(R, Nat)
  BY NatLessThanWellFounded
<1>2. \A x, y \in Nat : x < y => <<x, y>> \in R
  BY DEF OpToRel
<1> HIDE DEF R
<1>3. Nat \ S \subseteq Nat /\ Nat \ S # {}
  OBVIOUS
<1>4. PICK m \in Nat \ S : \A y \in Nat \ S : ~(<<y, m>> \in R)
  BY <1>1, <1>3, WFMin, Zenon
<1>5. m # 0 /\ m - 1 \in Nat /\ m - 1 < m
  OBVIOUS
<1>6. m - 1 \in S
  BY <1>2, <1>4, <1>5
<1> QED
  BY <1>4, <1>5, <1>6

(***************************************************************************)
(* What a queue of jobs does, job by job: h[i] is the state after the      *)
(* first i of them.                                                        *)
(***************************************************************************)
History(h, d, jobs) ==
    h[0] = d /\ \A i \in 1 .. Len(jobs) : h[i] = Perform(h[i - 1], jobs[i])

Unrolled(n, h, d, jobs) == h = [i \in 0 .. n |-> IF i = 0 THEN d ELSE Perform(h[i - 1], jobs[i])]

LEMMA HistoryExists ==
  ASSUME NEW d, NEW jobs, NEW n \in Nat
  PROVE  \E h : Unrolled(n, h, d, jobs)
<1> DEFINE S == {m \in Nat : \E h : Unrolled(m, h, d, jobs)}
<1>1. 0 \in S
  <2>1. Unrolled(0, [i \in 0 .. 0 |-> d], d, jobs)
    BY DEF Unrolled
  <2> QED
    BY <2>1
<1>2. ASSUME NEW m \in Nat, m \in S PROVE m + 1 \in S
  <2>1. PICK h : Unrolled(m, h, d, jobs)
    BY <1>2
  <2> DEFINE g == [i \in 0 .. m + 1 |-> IF i <= m THEN h[i] ELSE Perform(h[m], jobs[m + 1])]
  <2>2. ASSUME NEW i \in 0 .. m + 1
        PROVE  g[i] = IF i = 0 THEN d ELSE Perform(g[i - 1], jobs[i])
    <3>1. CASE i = 0
      BY <2>1, <3>1 DEF Unrolled
    <3>2. CASE i # 0 /\ i <= m
      BY <2>1, <3>2 DEF Unrolled
    <3>3. CASE i = m + 1
      BY <3>3
    <3> QED
      BY <3>1, <3>2, <3>3
  <2>3. Unrolled(m + 1, g, d, jobs)
    BY <2>2 DEF Unrolled
  <2> HIDE DEF g
  <2> QED
    BY <2>3
<1> HIDE DEF S
<1>3. Nat \subseteq S
  BY <1>1, <1>2, NatInduct
<1> QED
  BY <1>3 DEF S

LEMMA OutcomeHasHistory ==
  ASSUME NEW d, NEW jobs, Len(jobs) \in Nat
  PROVE  \E h : History(h, d, jobs) /\ Outcome(d, jobs) = h[Len(jobs)]
<1> DEFINE n == Len(jobs)
           A[i \in 0 .. n] == IF i = 0 THEN d ELSE Perform(A[i - 1], jobs[i])
<1>1. \E h : Unrolled(n, h, d, jobs)
  BY HistoryExists
<1>2. A = [i \in 0 .. n |-> IF i = 0 THEN d ELSE Perform(A[i - 1], jobs[i])]
  BY <1>1, Zenon DEF Unrolled
<1>3. Outcome(d, jobs) = A[n]
  BY DEF Outcome
<1> HIDE DEF A
<1>4. History(A, d, jobs)
  BY <1>2 DEF History
<1> QED
  BY <1>3, <1>4

LEMMA OneHistory ==
  ASSUME NEW d, NEW jobs, Len(jobs) \in Nat, NEW h, History(h, d, jobs)
  PROVE  Outcome(d, jobs) = h[Len(jobs)]
<1>1. PICK g : History(g, d, jobs) /\ Outcome(d, jobs) = g[Len(jobs)]
  BY OutcomeHasHistory
<1> DEFINE S == {i \in Nat : i <= Len(jobs) => g[i] = h[i]}
<1>2. 0 \in S
  BY <1>1 DEF History
<1>3. ASSUME NEW i \in Nat, i \in S PROVE i + 1 \in S
  BY <1>1, <1>3 DEF History
<1> HIDE DEF S
<1>4. Nat \subseteq S
  BY <1>2, <1>3, NatInduct
<1> QED
  BY <1>1, <1>4 DEF S

\* No jobs do nothing.
LEMMA OutcomeOfNone == ASSUME NEW d PROVE Outcome(d, <<>>) = d
<1>1. Len(<<>>) = 0
  OBVIOUS
<1> QED
  BY <1>1, OutcomeHasHistory DEF History

\* What Post adds to the end of a rank's queue comes after all that is in it.
LEMMA OutcomeOfOneMore ==
  ASSUME NEW T, NEW d, NEW jobs \in Seq(T), NEW job \in T
  PROVE  Outcome(d, Append(jobs, job)) = Perform(Outcome(d, jobs), job)
<1> DEFINE more == Append(jobs, job)
           n == Len(jobs)
<1>1. /\ n \in Nat /\ Len(more) = n + 1 /\ more[n + 1] = job
      /\ \A i \in 1 .. n : more[i] = jobs[i]
  OBVIOUS
<1> HIDE DEF more, n
<1>2. PICK h : History(h, d, more) /\ Outcome(d, more) = h[Len(more)]
  BY <1>1, OutcomeHasHistory
<1>3. History(h, d, jobs)
  BY <1>1, <1>2 DEF History, n
<1>4. Outcome(d, jobs) = h[n]
  BY <1>1, <1>3, OneHistory DEF n
<1>5. h[n + 1] = Perform(h[n], job)
  BY <1>1, <1>2 DEF History
<1> QED
  BY <1>1, <1>2, <1>4, <1>5 DEF more

\* What FinishJob takes from the front comes before all that is behind it.
LEMMA OutcomeOfFirst ==
  ASSUME NEW T, NEW d, NEW jobs \in Seq(T), jobs # <<>>
  PROVE  Outcome(Perform(d, Head(jobs)), Tail(jobs)) = Outcome(d, jobs)
<1> DEFINE rest == Tail(jobs)
           n == Len(jobs)
<1>1. /\ n \in Nat /\ n # 0 /\ Len(rest) = n - 1 /\ Head(jobs) = jobs[1]
      /\ \A i \in 1 .. n - 1 : rest[i] = jobs[i + 1]
  OBVIOUS
<1> HIDE DEF rest, n
<1>2. PICK h : History(h, d, jobs) /\ Outcome(d, jobs) = h[n]
  BY <1>1, OutcomeHasHistory DEF n
<1> DEFINE g == [i \in 0 .. n - 1 |-> h[i + 1]]
<1>3. History(g, Perform(d, Head(jobs)), rest)
  <2>1. g[0] = Perform(d, Head(jobs))
    BY <1>1, <1>2 DEF History, n
  <2>2. ASSUME NEW i \in 1 .. n - 1 PROVE g[i] = Perform(g[i - 1], rest[i])
    BY <1>1, <1>2 DEF History, n
  <2> HIDE DEF g
  <2> QED
    BY <1>1, <2>1, <2>2 DEF History
<1>4. Outcome(Perform(d, Head(jobs)), rest) = g[n - 1]
  <2> HIDE DEF g
  <2>1. Len(rest) \in Nat /\ Len(rest) = n - 1
    BY <1>1
  <2> QED
    BY <1>3, <2>1, OneHistory
<1> QED
  BY <1>1, <1>2, <1>4 DEF rest

(***************************************************************************)
(* A rank's jobs read and write its own memories and, of the buffers, only *)
(* those they are given.                                                   *)
(***************************************************************************)
Jobs == [rank : Ranks, op : {"send", "receive", "run"}, area : {"mram", "wram"},
         buf : {each_dpu} \cup {[p \in DPUs |-> k] : k \in Indices}]

\* The same in the memories of rank r and in the buffers K.
Agree(r, K, d, e) ==
    /\ \A p \in DPUsOf[r] : d[1][p] = e[1][p]
    /\ \A k \in K : d[2][k] = e[2][k]

LEMMA DPUsOfIs ==
  ASSUME NEW r \in Ranks
  PROVE  DPUsOf[r] \subseteq DPUs /\ \A p \in DPUs : p \in DPUsOf[r] <=> p[1] = r
BY DEF DPUsOf

LEMMA PerformIs ==
  ASSUME NEW d, NEW job
  PROVE  /\ job.op = "send" => Perform(d, job) = <<Sent(d[1], d[2], job), d[2]>>
         /\ job.op = "receive" => Perform(d, job) = <<d[1], Received(d[1], d[2], job)>>
         /\ job.op = "run" => Perform(d, job) = <<Run(d[1], job), d[2]>>
BY DEF Perform

LEMMA PerformAgrees ==
  ASSUME NEW r \in Ranks, NEW K \in SUBSET Indices, NEW d, NEW e, Agree(r, K, d, e),
         NEW job \in Jobs, job.rank = r, job.op = "send" => BuffersOf(job) \subseteq K
  PROVE  Agree(r, K, Perform(d, job), Perform(e, job))
<1>1. \A p \in DPUsOf[r] : p \in DPUs /\ p[1] = job.rank
  BY DPUsOfIs
<1>2. CASE job.op = "send"
  <2>1. \A p \in DPUsOf[r] : job.buf[p] \in K
    BY <1>2 DEF BuffersOf
  <2>2. \A p \in DPUsOf[r] : Sent(d[1], d[2], job)[p] = Sent(e[1], e[2], job)[p]
    BY <1>1, <2>1 DEF Sent, Agree
  <2> QED
    BY <1>2, <2>2, PerformIs DEF Agree
<1>3. CASE job.op = "receive"
  <2>1. ASSUME NEW k \in K
        PROVE  Received(d[1], d[2], job)[k] = Received(e[1], e[2], job)[k]
    <3>1. CASE k \in BuffersOf(job)
      <4> DEFINE p == CHOOSE q \in DPUsOf[job.rank] : job.buf[q] = k
      <4>1. p \in DPUsOf[r]
        BY <3>1 DEF BuffersOf
      <4>2. /\ Received(d[1], d[2], job)[k] = d[1][p][job.area]
            /\ Received(e[1], e[2], job)[k] = e[1][p][job.area]
        BY <3>1 DEF Received
      <4> HIDE DEF p
      <4> QED
        BY <4>1, <4>2 DEF Agree
    <3>2. CASE k \notin BuffersOf(job)
      BY <3>2 DEF Received, Agree
    <3> QED
      BY <3>1, <3>2
  <2> QED
    BY <1>3, <2>1, PerformIs DEF Agree
<1>4. CASE job.op = "run"
  <2>1. \A p \in DPUsOf[r] : Run(d[1], job)[p] = Run(e[1], job)[p]
    BY <1>1 DEF Run, Agree
  <2> QED
    BY <1>4, <2>1, PerformIs DEF Agree
<1> QED
  BY <1>2, <1>3, <1>4 DEF Jobs

LEMMA OutcomesAgree ==
  ASSUME NEW r \in Ranks, NEW K \in SUBSET Indices, NEW d, NEW e, Agree(r, K, d, e),
         NEW jobs \in Seq(Jobs),
         \A i \in 1 .. Len(jobs) :
            jobs[i].rank = r /\ (jobs[i].op = "send" => BuffersOf(jobs[i]) \subseteq K)
  PROVE  Agree(r, K, Outcome(d, jobs), Outcome(e, jobs))
<1>1. Len(jobs) \in Nat /\ \A i \in 1 .. Len(jobs) : jobs[i] \in Jobs
  OBVIOUS
<1>2. PICK g : History(g, d, jobs) /\ Outcome(d, jobs) = g[Len(jobs)]
  BY <1>1, OutcomeHasHistory
<1>3. PICK h : History(h, e, jobs) /\ Outcome(e, jobs) = h[Len(jobs)]
  BY <1>1, OutcomeHasHistory
<1> DEFINE S == {i \in Nat : i <= Len(jobs) => Agree(r, K, g[i], h[i])}
<1>4. 0 \in S
  BY <1>2, <1>3 DEF History
<1>5. ASSUME NEW i \in Nat, i \in S PROVE i + 1 \in S
  <2> SUFFICES ASSUME i + 1 <= Len(jobs) PROVE Agree(r, K, g[i + 1], h[i + 1])
    OBVIOUS
  <2> DEFINE job == jobs[i + 1]
  <2>1. i + 1 \in 1 .. Len(jobs) /\ (i + 1) - 1 = i /\ i <= Len(jobs)
    BY <1>1
  <2>2. Agree(r, K, g[i], h[i])
    BY <1>5, <2>1
  <2>3. g[i + 1] = Perform(g[i], job) /\ h[i + 1] = Perform(h[i], job)
    BY <1>2, <1>3, <2>1 DEF History
  <2>4. job \in Jobs /\ job.rank = r /\ (job.op = "send" => BuffersOf(job) \subseteq K)
    BY <1>1, <2>1
  <2> HIDE DEF job
  <2> QED
    BY <2>2, <2>3, <2>4, PerformAgrees
<1> HIDE DEF S
<1>6. Nat \subseteq S
  BY <1>4, <1>5, NatInduct
<1> QED
  BY <1>1, <1>2, <1>3, <1>6 DEF S

\* A buffer that no job receives into stays as it is.
LEMMA Untouched ==
  ASSUME NEW k \in Indices, NEW d, NEW jobs \in Seq(Jobs),
         \A i \in 1 .. Len(jobs) : jobs[i].op = "receive" => k \notin BuffersOf(jobs[i])
  PROVE  Outcome(d, jobs)[2][k] = d[2][k]
<1>1. Len(jobs) \in Nat /\ \A i \in 1 .. Len(jobs) : jobs[i] \in Jobs
  OBVIOUS
<1>2. PICK h : History(h, d, jobs) /\ Outcome(d, jobs) = h[Len(jobs)]
  BY <1>1, OutcomeHasHistory
<1> DEFINE S == {i \in Nat : i <= Len(jobs) => h[i][2][k] = d[2][k]}
<1>3. 0 \in S
  BY <1>2 DEF History
<1>4. ASSUME NEW i \in Nat, i \in S PROVE i + 1 \in S
  <2> SUFFICES ASSUME i + 1 <= Len(jobs) PROVE h[i + 1][2][k] = d[2][k]
    OBVIOUS
  <2> DEFINE job == jobs[i + 1]
  <2>1. i + 1 \in 1 .. Len(jobs) /\ (i + 1) - 1 = i /\ i <= Len(jobs)
    BY <1>1
  <2>2. h[i][2][k] = d[2][k]
    BY <1>4, <2>1
  <2>3. h[i + 1] = Perform(h[i], job)
    BY <1>2, <2>1 DEF History
  <2>4. job.op \in {"send", "receive", "run"} /\ (job.op = "receive" => k \notin BuffersOf(job))
    BY <1>1, <2>1 DEF Jobs
  <2> HIDE DEF job
  <2>5. CASE job.op = "receive"
    <3>1. Received(h[i][1], h[i][2], job)[k] = h[i][2][k]
      BY <2>4, <2>5 DEF Received
    <3> QED
      BY <2>2, <2>3, <2>5, <3>1, PerformIs
  <2>6. CASE job.op # "receive"
    BY <2>2, <2>3, <2>4, <2>6, PerformIs
  <2> QED
    BY <2>5, <2>6
<1> HIDE DEF S
<1>5. Nat \subseteq S
  BY <1>3, <1>4, NatInduct
<1> QED
  BY <1>1, <1>2, <1>5 DEF S

(***************************************************************************)
(* What the queues hold.  A job is of the rank it is queued for, and a     *)
(* receive fills each DPU's own buffer.  When the caller waits, no job of  *)
(* a rank receives into a buffer that another rank's job is given.         *)
(***************************************************************************)
QueueTypes ==
    /\ call \in [op : {"send", "receive", "run"}, area : {"mram", "wram"}, unsynced : BOOLEAN]
    /\ queue \in [Ranks -> Seq(Jobs)]
    /\ running \subseteq Ranks
    /\ \A r \in running : queue[r] # <<>>

OwnJobs ==
    \A r \in Ranks : \A i \in 1 .. Len(queue[r]) :
        queue[r][i].rank = r /\ (queue[r][i].op = "receive" => queue[r][i].buf = each_dpu)

NoClash ==
    \A r \in Ranks, q \in Ranks : \A i \in 1 .. Len(queue[r]), j \in 1 .. Len(queue[q]) :
        ~Clash(queue[r][i], queue[q][j])

Queues == QueueTypes /\ OwnJobs

LEMMA BuffersOfType == ASSUME NEW job \in Jobs PROVE BuffersOf(job) \subseteq Indices
<1>1. \A p \in DPUsOf[job.rank] : p \in DPUs
  BY DPUsOfIs DEF Jobs
<1>2. \A p \in DPUs : each_dpu[p] \in Indices
  BY BeforeIsIndex DEF each_dpu
<1>3. \A p \in DPUs : job.buf[p] \in Indices
  BY <1>2 DEF Jobs
<1> QED
  BY <1>1, <1>3 DEF BuffersOf

LEMMA OwnBuffers ==
  ASSUME NEW r \in Ranks, NEW job, job.rank = r, job.buf = each_dpu
  PROVE  BuffersOf(job) = {k \in Indices : DpuAt[k][1] = r}
<1>1. BuffersOf(job) = {Before(DPUs, p) : p \in DPUsOf[r]}
  BY DPUsOfIs DEF BuffersOf, each_dpu
<1>2. ASSUME NEW p \in DPUsOf[r]
      PROVE  Before(DPUs, p) \in Indices /\ DpuAt[Before(DPUs, p)][1] = r
  BY DPUsOfIs, Numbering
<1>3. ASSUME NEW k \in Indices, DpuAt[k][1] = r
      PROVE  DpuAt[k] \in DPUsOf[r] /\ Before(DPUs, DpuAt[k]) = k
  BY <1>3, DPUsOfIs, Numbering
<1> QED
  BY <1>1, <1>2, <1>3

LEMMA ClashSymmetric == \A job, other : Clash(job, other) <=> Clash(other, job)
BY DEF Clash

LEMMA PostHoldsQueues ==
  ASSUME Queues,
         NEW op \in {"send", "receive", "run"}, NEW area \in {"mram", "wram"},
         NEW buf \in {each_dpu} \cup {[p \in DPUs |-> k] : k \in Indices},
         op = "receive" => buf = each_dpu,
         NEW async \in BOOLEAN, NEW flag, Post(op, area, buf, async, flag)
  PROVE  Queues' /\ (CallerWaits /\ NoClash => NoClash')
<1> DEFINE Job(r) == [rank |-> r, op |-> op, area |-> area, buf |-> buf]
<1>1. \A r \in Ranks : Job(r) \in Jobs /\ Job(r).rank = r /\ Job(r).op = op /\ Job(r).buf = buf
  BY DEF Jobs
<1>2. /\ running' = running
      /\ CallerWaits => \A r \in Ranks : \A old \in Queued : ~Clash(Job(r), old)
      /\ queue' = [r \in Ranks |-> Append(queue[r], Job(r))]
      /\ call' = [op |-> op, area |-> area, unsynced |-> async]
  BY DEF Post
<1> HIDE DEF Job
<1>3. ASSUME NEW r \in Ranks
      PROVE  /\ queue'[r] \in Seq(Jobs) /\ queue'[r] # <<>>
             /\ Len(queue[r]) \in Nat /\ Len(queue'[r]) = Len(queue[r]) + 1
             /\ queue'[r][Len(queue[r]) + 1] = Job(r)
             /\ \A i \in 1 .. Len(queue[r]) :
                   queue'[r][i] = queue[r][i] /\ queue[r][i] \in Queued
  <2>1. queue[r] \in Seq(Jobs) /\ Job(r) \in Jobs /\ queue'[r] = Append(queue[r], Job(r))
    BY <1>1, <1>2 DEF Queues, QueueTypes
  <2>2. \A i \in 1 .. Len(queue[r]) : queue[r][i] \in Queued
    BY <2>1 DEF Queued
  <2> QED
    BY <2>1, <2>2
<1>4. \A r \in Ranks : \A i \in 1 .. Len(queue'[r]) :
         \/ i = Len(queue[r]) + 1 /\ queue'[r][i] = Job(r)
         \/ i \in 1 .. Len(queue[r]) /\ queue'[r][i] = queue[r][i] /\ queue[r][i] \in Queued
  BY <1>3
<1>5. QueueTypes'
  <2>1. call' \in [op : {"send", "receive", "run"}, area : {"mram", "wram"}, unsynced : BOOLEAN]
    BY <1>2
  <2> QED
    BY <1>2, <1>3, <2>1 DEF Queues, QueueTypes
<1>6. OwnJobs'
  BY <1>1, <1>4 DEF Queues, OwnJobs
<1>7. ASSUME NEW r \in Ranks, NEW q \in Ranks PROVE ~Clash(Job(r), Job(q))
  <2> SUFFICES ASSUME r # q, op = "receive" PROVE BuffersOf(Job(r)) \cap BuffersOf(Job(q)) = {}
    BY <1>1 DEF Clash
  <2> QED
    BY <1>1, OwnBuffers
<1>8. CallerWaits /\ NoClash => NoClash'
  <2> SUFFICES ASSUME CallerWaits, NoClash,
                      NEW r \in Ranks, NEW q \in Ranks,
                      NEW i \in 1 .. Len(queue'[r]), NEW j \in 1 .. Len(queue'[q])
               PROVE  ~Clash(queue'[r][i], queue'[q][j])
    BY DEF NoClash
  <2> QED
    BY <1>2, <1>4, <1>7, ClashSymmetric DEF NoClash
<1> QED
  BY <1>5, <1>6, <1>8 DEF Queues

LEMMA FinishHoldsQueues ==
  ASSUME Queues, NEW q \in Ranks, FinishJob(q)
  PROVE  Queues' /\ (NoClash => NoClash')
<1>1. queue[q] \in Seq(Jobs) /\ queue[q] # <<>>
  BY DEF Queues, QueueTypes, FinishJob
<1>2. /\ queue' = [queue EXCEPT ![q] = Tail(queue[q])]
      /\ running' = running \ {q} /\ call' = call
  BY DEF FinishJob
<1>3. /\ Tail(queue[q]) \in Seq(Jobs) /\ Len(queue[q]) \in Nat
      /\ Len(Tail(queue[q])) = Len(queue[q]) - 1
      /\ \A i \in 1 .. Len(Tail(queue[q])) : /\ Tail(queue[q])[i] = queue[q][i + 1]
                                             /\ i + 1 \in 1 .. Len(queue[q])
  BY <1>1
<1>4. QueueTypes'
  BY <1>2, <1>3 DEF Queues, QueueTypes
<1>5. \A r \in Ranks : \A i \in 1 .. Len(queue'[r]) :
         \E j \in 1 .. Len(queue[r]) : queue'[r][i] = queue[r][j]
  BY <1>2, <1>3 DEF Queues, QueueTypes
<1>6. OwnJobs'
  BY <1>5 DEF Queues, OwnJobs
<1>7. NoClash => NoClash'
  BY <1>5 DEF NoClash
<1> QED
  BY <1>4, <1>6, <1>7 DEF Queues

LEMMA BaseHoldsQueues ==
  ASSUME Queues, BaseNext
  PROVE  Queues' /\ (CallerWaits /\ NoClash => NoClash')
<1> USE DEF sdk, data
<1>1. CASE Fill \/ Sync \/ Waited \/ CallFails
  <2>1. /\ UNCHANGED <<queue, running>>
        /\ call' \in [op : {"send", "receive", "run"}, area : {"mram", "wram"}, unsynced : BOOLEAN]
    BY <1>1 DEF Fill, Sync, Waited, CallFails, Queues, QueueTypes
  <2> QED
    BY <2>1 DEF Queues, QueueTypes, OwnJobs, NoClash
<1>2. ASSUME NEW async \in BOOLEAN, Launch(async)
      PROVE  Queues' /\ (CallerWaits /\ NoClash => NoClash')
  BY <1>2, PostHoldsQueues DEF Launch
<1>3. ASSUME NEW async \in BOOLEAN, NEW area \in Areas,
             \/ SendToPIMByUPMEM(area, async) \/ ReceiveFromPIMByUPMEM(area, async)
             \/ \E k \in Indices : BroadcastToPIM(k, area, async)
      PROVE  Queues' /\ (CallerWaits /\ NoClash => NoClash')
  <2>1. area \in {"mram", "wram"}
    BY PimAssumption
  <2> QED
    BY <1>3, <2>1, PostHoldsQueues DEF SendToPIMByUPMEM, ReceiveFromPIMByUPMEM, BroadcastToPIM
<1>4. ASSUME NEW r \in Ranks, StartJob(r) PROVE Queues' /\ (CallerWaits /\ NoClash => NoClash')
  BY <1>4 DEF StartJob, Queues, QueueTypes, OwnJobs, NoClash
<1>5. ASSUME NEW r \in Ranks, FinishJob(r) PROVE Queues' /\ (CallerWaits /\ NoClash => NoClash')
  BY <1>5, FinishHoldsQueues
<1> QED
  BY <1>1, <1>2, <1>3, <1>4, <1>5 DEF BaseNext

LEMMA InitHoldsQueues == BaseInit => Queues /\ NoClash
<1> SUFFICES ASSUME BaseInit PROVE Queues /\ NoClash
  OBVIOUS
<1>1. /\ queue = [r \in Ranks |-> <<>>] /\ running = {}
      /\ call = [op |-> "run", area |-> "mram", unsynced |-> FALSE]
  BY DEF BaseInit
<1>2. <<>> \in Seq(Jobs) /\ Len(<<>>) = 0
  OBVIOUS
<1>3. \A r \in Ranks : queue[r] = <<>> /\ Len(queue[r]) = 0
  BY <1>1, <1>2
<1> QED
  BY <1>1, <1>2, <1>3 DEF Queues, QueueTypes, OwnJobs, NoClash

(***************************************************************************)
(* What the steps do to the array that the queues stand for.               *)
(***************************************************************************)
LEMMA JobsOfQueue ==
  ASSUME QueueTypes, NEW r \in Ranks
  PROVE  /\ queue[r] \in Seq(Jobs) /\ Len(queue[r]) \in Nat
         /\ \A i \in 1 .. Len(queue[r]) : queue[r][i] \in Jobs /\ queue[r][i] \in Queued
<1>1. queue[r] \in Seq(Jobs)
  BY DEF QueueTypes
<1> QED
  BY <1>1 DEF Queued

\* DpuAt[k] and buffer k, with what is queued for their rank done, in a state and
\* in the next.
LEMMA SettledIs ==
  /\ SettledPim = [k \in Indices |-> Outcome(data, queue[DpuAt[k][1]])[1][DpuAt[k]]]
  /\ SettledBufs = [k \in Indices |-> Outcome(data, queue[DpuAt[k][1]])[2][k]]
  /\ SettledPim' = [k \in Indices |-> Outcome(data', queue'[DpuAt[k][1]])[1][DpuAt[k]]]
  /\ SettledBufs' = [k \in Indices |-> Outcome(data', queue'[DpuAt[k][1]])[2][k]]
<1>1. \A k \in Indices : DpuAt[k][1] \in Ranks
  BY Numbering, PositionType
<1> QED
  BY <1>1 DEF SettledPim, SettledBufs, Settled

\* With nothing queued, these are the DPUs and the buffers as they are.
LEMMA SettledOfNone ==
  /\ NoJob => /\ SettledPim = [k \in Indices |-> pim[DpuAt[k]]]
              /\ SettledBufs = [k \in Indices |-> bufs[k]]
              /\ Owed = {}
  /\ NoJob' => /\ SettledPim' = [k \in Indices |-> pim'[DpuAt[k]]]
               /\ SettledBufs' = [k \in Indices |-> bufs'[k]]
               /\ Owed' = {}
<1>1. \A k \in Indices : DpuAt[k][1] \in Ranks
  BY Numbering, PositionType
<1>2. data[1] = pim /\ data[2] = bufs /\ data'[1] = pim' /\ data'[2] = bufs'
  BY DEF data
<1>3. NoJob => \A k \in Indices : /\ queue[DpuAt[k][1]] = <<>>
                                  /\ Outcome(data, queue[DpuAt[k][1]]) = data
  BY <1>1, OutcomeOfNone DEF NoJob
<1>4. NoJob' => \A k \in Indices : /\ queue'[DpuAt[k][1]] = <<>>
                                   /\ Outcome(data', queue'[DpuAt[k][1]]) = data'
  BY <1>1, OutcomeOfNone DEF NoJob
<1> QED
  BY <1>2, <1>3, <1>4, SettledIs DEF Owed

LEMMA FillSettles ==
  ASSUME CallerWaits, Queues, Fill
  PROVE  SettledPim' = SettledPim /\ SettledBufs' = bufs' /\ Owed' = Owed
<1>1. /\ \A job \in Queued : job.op = "run"
      /\ bufs' = [k \in Indices |-> bufs'[k]]
      /\ queue' = queue /\ pim' = pim
  BY PimAssumption DEF Fill, sdk
<1>2. \A r \in Ranks : Agree(r, {}, data', data)
  BY <1>1 DEF Agree, data
<1>3. ASSUME NEW r \in Ranks PROVE Agree(r, {}, Outcome(data', queue[r]), Outcome(data, queue[r]))
  <2>1. queue[r] \in Seq(Jobs)
        /\ \A i \in 1 .. Len(queue[r]) :
              queue[r][i].rank = r /\ queue[r][i].op # "send"
    BY <1>1, JobsOfQueue DEF Queues, OwnJobs
  <2> QED
    BY <1>2, <2>1, OutcomesAgree
<1>4. ASSUME NEW k \in Indices PROVE SettledPim'[k] = SettledPim[k] /\ SettledBufs'[k] = bufs'[k]
  <2> DEFINE r == DpuAt[k][1]
  <2>1. r \in Ranks /\ DpuAt[k] \in DPUsOf[r]
    BY Numbering, PositionType, DPUsOfIs
  <2>2. Outcome(data', queue[r])[1][DpuAt[k]] = Outcome(data, queue[r])[1][DpuAt[k]]
    BY <1>3, <2>1 DEF Agree
  <2>3. queue[r] \in Seq(Jobs)
        /\ \A i \in 1 .. Len(queue[r]) : queue[r][i].op # "receive"
    BY <1>1, <2>1, JobsOfQueue DEF Queues
  <2>4. Outcome(data', queue[r])[2][k] = data'[2][k]
    BY <2>3, Untouched
  <2> QED
    BY <1>1, <2>2, <2>4, SettledIs DEF data
<1> QED
  BY <1>1, <1>4, SettledIs DEF Owed

\* The job at the head of a queue is done: its own rank is where it was going to
\* be, and what other ranks have still to do comes out as before.
LEMMA FinishSettles ==
  ASSUME Queues, NoClash, NEW q \in Ranks, FinishJob(q)
  PROVE  SettledPim' = SettledPim /\ SettledBufs' = SettledBufs /\ Owed' \subseteq Owed
<1> DEFINE job == Head(queue[q])
           K == {k \in Indices : bufs'[k] = bufs[k]}
<1>1. queue[q] \in Seq(Jobs) /\ queue[q] # <<>> /\ 1 \in 1 .. Len(queue[q]) /\ job = queue[q][1]
  <2>1. queue[q] \in Seq(Jobs) /\ queue[q] # <<>>
    BY DEF Queues, QueueTypes, FinishJob
  <2> QED
    BY <2>1
<1>2. job \in Jobs /\ job.rank = q /\ (job.op = "receive" => job.buf = each_dpu)
  BY <1>1, JobsOfQueue DEF Queues, OwnJobs
<1>3. queue'[q] = Tail(queue[q]) /\ \A r \in Ranks \ {q} : queue'[r] = queue[r]
  BY DEF FinishJob, Queues, QueueTypes
<1>4. pim' = Perform(data, job)[1] /\ bufs' = Perform(data, job)[2]
  BY DEF FinishJob
<1> HIDE DEF job
<1>5. job.op \in {"send", "receive", "run"}
  BY <1>2 DEF Jobs
<1>6. data' = Perform(data, job)
  BY <1>4, <1>5, PerformIs DEF data
<1>7. \A p \in DPUs : p[1] # q => pim'[p] = pim[p]
  BY <1>2, <1>4, <1>5, PerformIs DEF Sent, Run, data
<1>8. \A k \in Indices : bufs'[k] = bufs[k] \/ (job.op = "receive" /\ k \in BuffersOf(job))
  <2>1. CASE job.op = "receive"
    <3>1. bufs' = Received(pim, bufs, job)
      BY <1>4, <2>1, PerformIs DEF data
    <3> QED
      BY <2>1, <3>1 DEF Received
  <2>2. CASE job.op # "receive"
    BY <1>4, <1>5, <2>2, PerformIs DEF data
  <2> QED
    BY <2>1, <2>2
<1>9. Outcome(data', queue'[q]) = Outcome(data, queue[q])
  BY <1>1, <1>3, <1>6, OutcomeOfFirst DEF job
<1>10. ASSUME NEW r \in Ranks, r # q
       PROVE  Agree(r, K, Outcome(data', queue'[r]), Outcome(data, queue[r]))
  <2>1. Agree(r, K, data', data)
    BY <1>7, <1>10, DPUsOfIs DEF Agree, data
  <2>2. ASSUME NEW i \in 1 .. Len(queue[r])
        PROVE  /\ queue[r][i].rank = r
               /\ queue[r][i].op = "send" => BuffersOf(queue[r][i]) \subseteq K
    <3>1. queue[r][i].rank = r /\ queue[r][i] \in Jobs /\ ~Clash(queue[r][i], job)
      BY <1>1, JobsOfQueue DEF Queues, OwnJobs, NoClash
    <3>2. BuffersOf(queue[r][i]) \subseteq Indices
      BY <3>1, BuffersOfType
    <3> QED
      BY <1>2, <1>8, <1>10, <3>1, <3>2 DEF Clash
  <2>3. queue[r] \in Seq(Jobs) /\ queue'[r] = queue[r]
    BY <1>3, <1>10, JobsOfQueue DEF Queues
  <2> HIDE DEF K
  <2> QED
    BY <2>1, <2>2, <2>3, OutcomesAgree DEF K
<1>11. ASSUME NEW k \in Indices
       PROVE  SettledPim'[k] = SettledPim[k] /\ SettledBufs'[k] = SettledBufs[k]
  <2> DEFINE r == DpuAt[k][1]
  <2>1. r \in Ranks /\ DpuAt[k] \in DPUsOf[r]
    BY Numbering, PositionType, DPUsOfIs
  <2>2. CASE r = q
    BY <1>9, <2>2, SettledIs
  <2>3. CASE r # q
    <3>1. k \in K
      BY <1>2, <1>8, <2>3, OwnBuffers
    <3>2. /\ Outcome(data', queue'[r])[1][DpuAt[k]] = Outcome(data, queue[r])[1][DpuAt[k]]
          /\ Outcome(data', queue'[r])[2][k] = Outcome(data, queue[r])[2][k]
      BY <1>10, <2>1, <2>3, <3>1 DEF Agree
    <3> QED
      BY <3>2, SettledIs
  <2> QED
    BY <2>2, <2>3
<1>12. SettledPim' = SettledPim /\ SettledBufs' = SettledBufs
  BY <1>11, SettledIs
<1>13. Owed' \subseteq Owed
  <2> SUFFICES ASSUME NEW k \in Indices, queue'[DpuAt[k][1]] # <<>> PROVE queue[DpuAt[k][1]] # <<>>
    BY DEF Owed
  <2>1. DpuAt[k][1] \in Ranks
    BY Numbering, PositionType
  <2> QED
    BY <1>1, <1>3, <2>1
<1> QED
  BY <1>12, <1>13

\* A call posts its job after what is queued for each rank.
LEMMA PostSettles ==
  ASSUME QueueTypes,
         NEW op \in {"send", "receive", "run"}, NEW area \in {"mram", "wram"},
         NEW buf \in {each_dpu} \cup {[p \in DPUs |-> k] : k \in Indices},
         NEW async, NEW flag, Post(op, area, buf, async, flag),
         NEW k \in Indices
  PROVE  /\ SettledPim'[k] =
              Perform(Outcome(data, queue[DpuAt[k][1]]),
                [rank |-> DpuAt[k][1], op |-> op, area |-> area, buf |-> buf])[1][DpuAt[k]]
         /\ SettledBufs'[k] =
              Perform(Outcome(data, queue[DpuAt[k][1]]),
                [rank |-> DpuAt[k][1], op |-> op, area |-> area, buf |-> buf])[2][k]
         /\ k \in Owed'
<1> DEFINE r == DpuAt[k][1]
           job == [rank |-> r, op |-> op, area |-> area, buf |-> buf]
<1>1. r \in Ranks
  BY Numbering, PositionType
<1>2. job \in Jobs
  BY <1>1 DEF Jobs
<1>3. queue'[r] = Append(queue[r], job) /\ data' = data
  BY <1>1 DEF Post
<1>4. queue[r] \in Seq(Jobs)
  BY <1>1 DEF QueueTypes
<1> HIDE DEF job
<1>5. Outcome(data', queue'[r]) = Perform(Outcome(data, queue[r]), job)
  BY <1>2, <1>3, <1>4, OutcomeOfOneMore
<1>6. k \in Owed'
  BY <1>2, <1>3, <1>4 DEF Owed
<1> QED
  BY <1>5, <1>6, SettledIs DEF job

LEMMA LaunchSettles ==
  ASSUME Queues, NEW async \in BOOLEAN, Launch(async)
  PROVE  /\ SettledPim' = [k \in Indices |-> [area \in Areas |-> Program[SettledPim[k][area]]]]
         /\ SettledBufs' = SettledBufs /\ Owed' = Indices
<1>1. ASSUME NEW k \in Indices
      PROVE  /\ SettledPim'[k] = [area \in Areas |-> Program[SettledPim[k][area]]]
             /\ SettledBufs'[k] = SettledBufs[k] /\ k \in Owed'
  <2> DEFINE p == DpuAt[k]
             before == Outcome(data, queue[p[1]])
             job == [rank |-> p[1], op |-> "run", area |-> "mram", buf |-> each_dpu]
  <2>1. /\ SettledPim'[k] = Perform(before, job)[1][p]
        /\ SettledBufs'[k] = Perform(before, job)[2][k] /\ k \in Owed'
    BY PostSettles DEF Launch, Queues
  <2>2. SettledPim[k] = before[1][p] /\ SettledBufs[k] = before[2][k]
    BY SettledIs
  <2>3. p \in DPUs /\ job.rank = p[1] /\ job.op = "run"
    BY Numbering
  <2> HIDE DEF p, before, job
  <2>4. Perform(before, job) = <<Run(before[1], job), before[2]>>
    BY <2>3, PerformIs
  <2>5. Run(before[1], job)[p] = [area \in Areas |-> Program[before[1][p][area]]]
    BY <2>3 DEF Run
  <2> QED
    BY <2>1, <2>2, <2>4, <2>5
<1> QED
  BY <1>1, SettledIs DEF Owed

\* A receive gives buffer k what the k-th DPU will hold.
LEMMA ReceiveSettles ==
  ASSUME Queues, NEW area \in {"mram", "wram"}, NEW async \in BOOLEAN,
         ReceiveFromPIMByUPMEM(area, async)
  PROVE  /\ SettledBufs' = [k \in Indices |-> SettledPim[k][area]]
         /\ SettledPim' = SettledPim /\ Owed' = Indices
<1>1. ASSUME NEW k \in Indices
      PROVE  /\ SettledBufs'[k] = SettledPim[k][area]
             /\ SettledPim'[k] = SettledPim[k] /\ k \in Owed'
  <2> DEFINE p == DpuAt[k]
             before == Outcome(data, queue[p[1]])
             job == [rank |-> p[1], op |-> "receive", area |-> area, buf |-> each_dpu]
  <2>1. /\ SettledPim'[k] = Perform(before, job)[1][p]
        /\ SettledBufs'[k] = Perform(before, job)[2][k] /\ k \in Owed'
    BY PostSettles DEF ReceiveFromPIMByUPMEM, Queues
  <2>2. SettledPim[k] = before[1][p] /\ SettledBufs[k] = before[2][k]
    BY SettledIs
  <2>3. /\ p \in DPUsOf[p[1]] /\ p[1] \in Ranks /\ Before(DPUs, p) = k
        /\ job.rank = p[1] /\ job.op = "receive" /\ job.area = area /\ job.buf = each_dpu
    BY Numbering, PositionType, DPUsOfIs
  <2> HIDE DEF before, job
  <2>4. Perform(before, job) = <<before[1], Received(before[1], before[2], job)>>
    BY <2>3, PerformIs
  <2>5. k \in BuffersOf(job)
    BY <2>3, OwnBuffers
  <2>6. \A q \in DPUsOf[p[1]] : each_dpu[q] = Before(DPUs, q) /\ (each_dpu[q] = k <=> q = p)
    BY <2>3, DPUsOfIs, Numbering, PositionType DEF each_dpu
  <2>7. (CHOOSE q \in DPUsOf[job.rank] : job.buf[q] = k) = p
    BY <2>3, <2>6
  <2>8. Received(before[1], before[2], job)[k] = before[1][p][area]
    BY <2>3, <2>5, <2>7 DEF Received
  <2> HIDE DEF p
  <2> QED
    BY <2>1, <2>2, <2>4, <2>8
<1> QED
  BY <1>1, SettledIs DEF Owed

\* A send of a buffer of each DPU's own.
LEMMA SendSettles ==
  ASSUME Queues, NEW area \in {"mram", "wram"}, NEW async \in BOOLEAN,
         SendToPIMByUPMEM(area, async)
  PROVE  /\ SettledPim' = [k \in Indices |-> [SettledPim[k] EXCEPT ![area] = SettledBufs[k]]]
         /\ SettledBufs' = SettledBufs /\ Owed' = Indices
<1>1. ASSUME NEW k \in Indices
      PROVE  /\ SettledPim'[k] = [SettledPim[k] EXCEPT ![area] = SettledBufs[k]]
             /\ SettledBufs'[k] = SettledBufs[k] /\ k \in Owed'
  <2> DEFINE p == DpuAt[k]
             before == Outcome(data, queue[p[1]])
             job == [rank |-> p[1], op |-> "send", area |-> area, buf |-> each_dpu]
  <2>1. /\ SettledPim'[k] = Perform(before, job)[1][p]
        /\ SettledBufs'[k] = Perform(before, job)[2][k] /\ k \in Owed'
    BY PostSettles DEF SendToPIMByUPMEM, Queues
  <2>2. SettledPim[k] = before[1][p] /\ SettledBufs[k] = before[2][k]
    BY SettledIs
  <2>3. /\ p \in DPUs /\ job.rank = p[1] /\ job.op = "send" /\ job.area = area
        /\ job.buf[p] = k
    BY Numbering DEF each_dpu
  <2> HIDE DEF p, before, job
  <2>4. Perform(before, job) = <<Sent(before[1], before[2], job), before[2]>>
    BY <2>3, PerformIs
  <2>5. Sent(before[1], before[2], job)[p] = [before[1][p] EXCEPT ![area] = before[2][k]]
    BY <2>3 DEF Sent
  <2> QED
    BY <2>1, <2>2, <2>4, <2>5
<1> QED
  BY <1>1, SettledIs DEF Owed

\* A broadcast sends every rank what buffer b will hold: ranks other than that of
\* DPU b find it there already, for else the caller would have waited.
LEMMA BroadcastSettles ==
  ASSUME CallerWaits, Queues, NEW b \in Indices, NEW area \in {"mram", "wram"},
         NEW async \in BOOLEAN, BroadcastToPIM(b, area, async)
  PROVE  /\ SettledPim' = [k \in Indices |-> [SettledPim[k] EXCEPT ![area] = SettledBufs[b]]]
         /\ SettledBufs' = SettledBufs /\ Owed' = Indices
<1> DEFINE all == [p \in DPUs |-> b]
           Job(r) == [rank |-> r, op |-> "send", area |-> area, buf |-> all]
<1>1. Post("send", area, all, async, BroadcastFlag(async))
  BY DEF BroadcastToPIM
<1>2. \A r \in Ranks : \A old \in Queued : ~Clash(Job(r), old)
  BY <1>1 DEF Post
<1>3. ASSUME NEW r \in Ranks, NEW p \in DPUsOf[r]
      PROVE  Outcome(data, queue[r])[2][b] = SettledBufs[b]
  <2> DEFINE q == DpuAt[b][1]
  <2>1. q \in Ranks /\ SettledBufs[b] = Outcome(data, queue[q])[2][b]
    BY Numbering, PositionType, SettledIs
  <2>2. b \in BuffersOf(Job(r))
    BY <1>3, DPUsOfIs DEF BuffersOf
  <2>3. CASE r = q
    BY <2>1, <2>3
  <2>4. CASE r # q
    <3>1. ASSUME NEW i \in 1 .. Len(queue[r]), queue[r][i].op = "receive"
          PROVE  b \notin BuffersOf(queue[r][i])
      BY <2>4, <3>1, OwnBuffers DEF Queues, OwnJobs
    <3>2. ASSUME NEW i \in 1 .. Len(queue[q]), queue[q][i].op = "receive"
          PROVE  FALSE
      <4>1. /\ queue[q][i] \in Queued /\ queue[q][i].rank = q
            /\ b \in BuffersOf(queue[q][i])
        BY <2>1, <3>2, OwnBuffers, JobsOfQueue DEF Queues, OwnJobs
      <4>2. ~Clash(Job(r), queue[q][i])
        BY <1>2, <4>1
      <4> QED
        BY <2>2, <2>4, <3>2, <4>1, <4>2 DEF Clash
    <3>3. queue[r] \in Seq(Jobs) /\ queue[q] \in Seq(Jobs)
      BY <2>1 DEF Queues, QueueTypes
    <3>4. Outcome(data, queue[r])[2][b] = data[2][b]
      BY <3>1, <3>3, Untouched
    <3>5. Outcome(data, queue[q])[2][b] = data[2][b]
      BY <3>2, <3>3, Untouched
    <3> QED
      BY <2>1, <3>4, <3>5
  <2> QED
    BY <2>3, <2>4
<1>4. ASSUME NEW k \in Indices
      PROVE  /\ SettledPim'[k] = [SettledPim[k] EXCEPT ![area] = SettledBufs[b]]
             /\ SettledBufs'[k] = SettledBufs[k] /\ k \in Owed'
  <2> DEFINE p == DpuAt[k]
             before == Outcome(data, queue[p[1]])
             job == [rank |-> p[1], op |-> "send", area |-> area, buf |-> all]
  <2>1. /\ SettledPim'[k] = Perform(before, job)[1][p]
        /\ SettledBufs'[k] = Perform(before, job)[2][k] /\ k \in Owed'
    <3>1. all \in {each_dpu} \cup {[o \in DPUs |-> i] : i \in Indices}
      OBVIOUS
    <3> HIDE DEF all
    <3> QED
      BY <1>1, <3>1, PostSettles DEF Queues
  <2>2. SettledPim[k] = before[1][p] /\ SettledBufs[k] = before[2][k]
    BY SettledIs
  <2>3. /\ p \in DPUs /\ p[1] \in Ranks /\ p \in DPUsOf[p[1]]
        /\ job.rank = p[1] /\ job.op = "send" /\ job.area = area
        /\ job.buf[p] = b
    BY Numbering, PositionType, DPUsOfIs
  <2>4. before[2][b] = SettledBufs[b]
    BY <1>3, <2>3
  <2> HIDE DEF p, before, job
  <2>5. Perform(before, job) = <<Sent(before[1], before[2], job), before[2]>>
    BY <2>3, PerformIs
  <2>6. Sent(before[1], before[2], job)[p] = [before[1][p] EXCEPT ![area] = before[2][b]]
    BY <2>3 DEF Sent
  <2> QED
    BY <2>1, <2>2, <2>4, <2>5, <2>6
<1> QED
  BY <1>4, SettledIs DEF Owed

(***************************************************************************)
(* UPMEMInterface.                                                         *)
(***************************************************************************)

LEMMA UpmemHoldsQueues ==
  Queues /\ [UpmemNext]_baseVars => Queues' /\ (CallerWaits /\ NoClash => NoClash')
<1> SUFFICES ASSUME Queues, [UpmemNext]_baseVars
             PROVE  Queues' /\ (CallerWaits /\ NoClash => NoClash')
  OBVIOUS
<1>1. CASE BaseNext
  BY <1>1, BaseHoldsQueues
<1>2. CASE UNCHANGED baseVars
  BY <1>2 DEF baseVars, sdk, data, Queues, QueueTypes, OwnJobs, NoClash
<1> QED
  BY <1>1, <1>2 DEF UpmemNext, UpmemEnded

\* The four translations of async: a call waits just when it was not asynchronous.
LEMMA FlagsReturn ==
  ASSUME NEW async \in BOOLEAN,
         NEW flag \in {SendFlag(async), ReceiveFlag(async), BroadcastFlag(async), LaunchFlag(async)}
  PROVE  Returns(flag) = IF async THEN "idle" ELSE "wait"
BY DEF Returns, SendFlag, ReceiveFlag, BroadcastFlag, LaunchFlag

LEMMA UpmemOwesNothing ==
  Queues /\ NothingOwed /\ [UpmemNext]_baseVars => NothingOwed'
<1> SUFFICES ASSUME Queues, NothingOwed, [UpmemNext]_baseVars PROVE NothingOwed'
  OBVIOUS
<1> USE DEF NothingOwed, NoJob, sdk, data
<1>1. CASE Fill \/ Sync \/ Waited \/ CallFails
  BY <1>1 DEF Fill, Sync, Waited, CallFails
<1>2. ASSUME NEW op, NEW area, NEW buf, NEW async \in BOOLEAN, NEW flag,
             Returns(flag) = IF async THEN "idle" ELSE "wait", Post(op, area, buf, async, flag)
      PROVE  NothingOwed'
  <2>1. call'.unsynced = async /\ caller' = IF async THEN "idle" ELSE "wait"
    BY <1>2 DEF Post
  <2> QED
    BY <2>1
<1>3. ASSUME NEW r \in Ranks, StartJob(r) PROVE NothingOwed'
  BY <1>3 DEF StartJob
<1>4. ASSUME NEW r \in Ranks, FinishJob(r) PROVE NothingOwed'
  <2>1. queue[r] # <<>> /\ UNCHANGED <<caller, call>>
    BY <1>4 DEF FinishJob, Queues, QueueTypes
  <2> QED
    BY <2>1
<1>5. CASE UNCHANGED baseVars
  BY <1>5 DEF baseVars
<1> QED
  BY <1>1, <1>2, <1>3, <1>4, <1>5, FlagsReturn
     DEF UpmemNext, UpmemEnded, BaseNext, Launch, SendToPIMByUPMEM, ReceiveFromPIMByUPMEM,
         BroadcastToPIM

\* A call of UPMEMInterface without async returns with nothing queued for any rank,
\* whatever was posted before, and whether the program waits or not.
THEOREM UpmemNothingIsOwed == UpmemSpec => []NothingOwed
<1>1. UpmemInit => Queues /\ NothingOwed
  BY InitHoldsQueues DEF UpmemInit, BaseInit, NothingOwed, NoJob
<1>2. Queues /\ NothingOwed /\ [UpmemNext]_baseVars => (Queues /\ NothingOwed)'
  BY UpmemHoldsQueues, UpmemOwesNothing
<1> QED
  BY <1>1, <1>2, PTL DEF UpmemSpec

LEMMA FillsAreWhole ==
  ASSUME NEW b \in Fills
  PROVE  b = [k \in Indices |-> b[k]]
BY PimAssumption

LEMMA UpmemInitMaps == UpmemInit => UpmemArray!Init
<1> SUFFICES ASSUME BaseInit PROVE UpmemArray!Init
  BY DEF UpmemInit
<1>1. NoJob /\ bufs \in Fills /\ caller = "idle"
      /\ pim = [p \in DPUs |-> [area \in Areas |-> Blank]]
  BY DEF BaseInit, NoJob
<1>2. \A k \in Indices : DpuAt[k] \in DPUs
  BY Numbering
<1>3. SettledPim = [k \in Indices |-> [area \in Areas |-> Blank]]
  BY <1>1, <1>2, SettledOfNone
<1>4. SettledBufs \in Fills /\ Owed = {}
  BY <1>1, SettledOfNone, FillsAreWhole
<1> QED
  BY <1>1, <1>3, <1>4 DEF UpmemArray!Init, UpmemArray!Dpus, Indices

LEMMA IndicesAreDpus == UpmemArray!Dpus = Indices
BY DEF UpmemArray!Dpus, Indices

LEMMA FillMaps ==
  ASSUME CallerWaits, Queues, Fill
  PROVE  UpmemArray!Fill
<1>1. caller = "idle" /\ caller' = "idle" /\ bufs' \in Fills
  BY DEF Fill
<1>2. SettledPim' = SettledPim /\ SettledBufs' \in Fills /\ Owed' = Owed
  BY <1>1, FillSettles
<1> QED
  BY <1>1, <1>2 DEF UpmemArray!Fill

\* A call of the base class takes effect on the array when it is posted.
LEMMA CallMaps ==
  ASSUME CallerWaits, Queues, NEW async \in BOOLEAN,
         \/ Launch(async)
         \/ \E area \in Areas :
              \/ SendToPIMByUPMEM(area, async) \/ ReceiveFromPIMByUPMEM(area, async)
              \/ \E k \in Indices : BroadcastToPIM(k, area, async)
  PROVE  UpmemArray!Call
<1> DEFINE phase == IF caller = "aborted" THEN <<"stopped">> ELSE <<caller>>
<1>1. phase = <<"idle">> /\ phase' \in {<<"idle">>, <<"wait">>}
  BY DEF Launch, SendToPIMByUPMEM, ReceiveFromPIMByUPMEM, BroadcastToPIM, Post, Returns
<1>2. \A area \in Areas : area \in {"mram", "wram"}
  BY PimAssumption
<1>3. \A m, b, area : /\ UpmemArray!Sent(m, b, area, Indices) =
                            [k \in Indices |-> [m[k] EXCEPT ![area] = b[k]]]
                      /\ UpmemArray!Received(m, b, area, Indices) =
                            [k \in Indices |-> m[k][area]]
  BY IndicesAreDpus DEF UpmemArray!Sent, UpmemArray!Received
<1>4. \A m, value, area : UpmemArray!Sent(m, UpmemArray!Same(value), area, Indices) =
                            [k \in Indices |-> [m[k] EXCEPT ![area] = value]]
  BY IndicesAreDpus DEF UpmemArray!Sent, UpmemArray!Same
<1>5. UpmemArray!Run(SettledPim) =
        [k \in Indices |-> [area \in Areas |-> Program[SettledPim[k][area]]]]
  BY IndicesAreDpus DEF UpmemArray!Run
<1> HIDE DEF phase
<1>6. CASE /\ SettledPim' = UpmemArray!Run(SettledPim)
           /\ SettledBufs' = SettledBufs /\ Owed' = Indices
  BY <1>1, <1>6, IndicesAreDpus, Zenon DEF UpmemArray!Call, phase
<1>7. ASSUME NEW area \in Areas, Owed' = Indices,
             \/ /\ SettledPim' = UpmemArray!Sent(SettledPim, SettledBufs, area, Indices)
                /\ SettledBufs' = SettledBufs
             \/ \E k \in Indices :
                /\ SettledPim' = UpmemArray!Sent(SettledPim, UpmemArray!Same(SettledBufs[k]),
                                                 area, Indices)
                /\ SettledBufs' = SettledBufs
             \/ /\ SettledBufs' = UpmemArray!Received(SettledPim, SettledBufs, area, Indices)
                /\ SettledPim' = SettledPim
      PROVE  UpmemArray!Call
  BY <1>1, <1>7, IndicesAreDpus, Zenon DEF UpmemArray!Call, phase
<1>8. CASE Launch(async)
  BY <1>5, <1>6, <1>8, LaunchSettles
<1>9. ASSUME NEW area \in Areas, SendToPIMByUPMEM(area, async) PROVE UpmemArray!Call
  <2>1. /\ SettledPim' = UpmemArray!Sent(SettledPim, SettledBufs, area, Indices)
        /\ SettledBufs' = SettledBufs /\ Owed' = Indices
    BY <1>2, <1>3, <1>9, SendSettles
  <2> QED
    BY <1>7, <2>1, Zenon
<1>10. ASSUME NEW area \in Areas, ReceiveFromPIMByUPMEM(area, async) PROVE UpmemArray!Call
  <2>1. /\ SettledBufs' = UpmemArray!Received(SettledPim, SettledBufs, area, Indices)
        /\ SettledPim' = SettledPim /\ Owed' = Indices
    BY <1>2, <1>3, <1>10, ReceiveSettles
  <2> QED
    BY <1>7, <2>1, Zenon
<1>11. ASSUME NEW area \in Areas, NEW k \in Indices, BroadcastToPIM(k, area, async)
       PROVE  UpmemArray!Call
  <2>1. /\ SettledPim' = UpmemArray!Sent(SettledPim, UpmemArray!Same(SettledBufs[k]),
                                         area, Indices)
        /\ SettledBufs' = SettledBufs /\ Owed' = Indices
    BY <1>2, <1>4, <1>11, BroadcastSettles
  <2> QED
    BY <1>7, <2>1, Zenon
<1> QED
  BY <1>8, <1>9, <1>10, <1>11, Zenon

\* A job that starts shows nothing; one that ends leaves less owed.
LEMMA StartMaps ==
  ASSUME NEW r \in Ranks, StartJob(r)
  PROVE  UNCHANGED <<caller, SettledPim, SettledBufs, Owed>>
<1>1. UNCHANGED <<caller, queue, data>>
  BY DEF StartJob
<1> QED
  BY <1>1, SettledIs DEF Owed

LEMMA FinishMaps ==
  ASSUME Queues, NoClash, NEW r \in Ranks, FinishJob(r)
  PROVE  UpmemArray!Settle
<1>1. UNCHANGED caller
  BY DEF FinishJob
<1>2. SettledPim' = SettledPim /\ SettledBufs' = SettledBufs /\ Owed' \subseteq Owed
  BY FinishSettles
<1> QED
  BY <1>1, <1>2 DEF UpmemArray!Settle

LEMMA SyncMaps ==
  ASSUME Sync \/ Waited \/ CallFails
  PROVE  UpmemArray!Sync \/ UpmemArray!Waited \/ UpmemArray!Stop
<1>1. UNCHANGED <<queue, data>>
  BY DEF Sync, Waited, CallFails, sdk
<1>2. SettledPim' = SettledPim /\ SettledBufs' = SettledBufs /\ Owed' = Owed
  BY <1>1, SettledIs DEF Owed
<1>3. CASE Sync
  BY <1>2, <1>3 DEF Sync, UpmemArray!Sync
<1>4. CASE Waited
  <2>1. Owed = {}
    BY <1>4, SettledOfNone DEF Waited
  <2> QED
    BY <1>2, <1>4, <2>1 DEF Waited, UpmemArray!Waited
<1>5. CASE CallFails
  BY <1>2, <1>5 DEF CallFails, UpmemArray!Stop
<1> QED
  BY <1>3, <1>4, <1>5

LEMMA UpmemStepMaps ==
  ASSUME CallerWaits, Queues, NoClash, [UpmemNext]_baseVars
  PROVE  [UpmemArray!Next]_UpmemArray!vars
<1> USE DEF UpmemArray!Next
<1>1. CASE Fill
  BY <1>1, FillMaps
<1>2. CASE Sync \/ Waited \/ CallFails
  BY <1>2, SyncMaps
<1>3. ASSUME NEW async \in BOOLEAN,
             \/ Launch(async)
             \/ \E area \in Areas :
                  \/ SendToPIMByUPMEM(area, async) \/ ReceiveFromPIMByUPMEM(area, async)
                  \/ \E k \in Indices : BroadcastToPIM(k, area, async)
      PROVE  UpmemArray!Next
  BY <1>3, CallMaps, Zenon
<1>4. ASSUME NEW r \in Ranks, StartJob(r) PROVE UNCHANGED UpmemArray!vars
  BY <1>4, StartMaps DEF UpmemArray!vars
<1>5. ASSUME NEW r \in Ranks, FinishJob(r) PROVE UpmemArray!Next
  BY <1>5, FinishMaps
<1>6. CASE UNCHANGED baseVars
  <2>1. UNCHANGED <<caller, queue, data>>
    BY <1>6 DEF baseVars, sdk
  <2> QED
    BY <2>1, SettledIs DEF Owed, UpmemArray!vars
<1>7. CASE BaseNext
  BY <1>1, <1>2, <1>3, <1>4, <1>5, <1>7, Zenon DEF BaseNext
<1> QED
  BY <1>6, <1>7 DEF UpmemNext, UpmemEnded

\* UPMEMInterface implements PimArray, for any ranks with any DPUs missing, queues
\* of any length and ranks that serve them in any order: for a caller that waits
\* before it disturbs what is queued, each call is as if whole when it is made.
THEOREM UpmemIsAnArray ==
  ASSUME CallerWaits
  PROVE  UpmemSpec => UpmemImplements
<1>1. UpmemInit => Queues /\ NoClash
  BY InitHoldsQueues DEF UpmemInit
<1>2. Queues /\ NoClash /\ [UpmemNext]_baseVars => (Queues /\ NoClash)'
  BY UpmemHoldsQueues
<1>3. UpmemInit => UpmemArray!Init
  BY UpmemInitMaps
<1>4. Queues /\ NoClash /\ [UpmemNext]_baseVars => [UpmemArray!Next]_UpmemArray!vars
  BY UpmemStepMaps
<1>5. UpmemSpec => UpmemArray!Spec
  BY <1>1, <1>2, <1>3, <1>4, PTL DEF UpmemSpec, UpmemArray!Spec
<1> QED
  BY <1>5 DEF UpmemImplements
=============================================================================
