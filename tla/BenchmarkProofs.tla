-------------------------- MODULE BenchmarkProofs --------------------------
(***************************************************************************)
(* For any number of DPUs and rounds: as long as no size is beyond the     *)
(* words that mram_test adds to, the check of TestMRAMThroughput holds.    *)
(***************************************************************************)
EXTENDS Benchmark, TLAPS

\* A DPU's words of this round, with the additions made to them so far.
Fresh(memory, adds(_)) ==
    \A i \in DPUs, j \in Words : j < size => memory[i][j] = Value(i, j, repeat, adds(j))

None(j) == 0
Once(j) == IF j % 256 = 0 THEN 1 ELSE 0

\* What each step of a round finds: none of it depends on what was there before.
RoundSoFar ==
    /\ size \in Sizes
    /\ pc = "send" => Fresh(bufs, None)
    /\ pc = "launch" => Fresh(pim, None)
    /\ pc \in {"refill", "receive"} => Fresh(pim, Once)
    /\ pc = "check" => Fresh(bufs, Once)

LEMMA InitHolds == Init => RoundSoFar
BY DEF Init, RoundSoFar

LEMMA StepHolds ==
  ASSUME \A s \in Sizes : s <= MRAM_BUFFER_SIZE_IN_INT64, RoundSoFar, [Next]_vars
  PROVE  RoundSoFar'
<1>1. CASE FillStep
  BY <1>1 DEF FillStep, RoundSoFar, Fresh, None, FillAll
<1>2. CASE SendStep
  BY <1>2 DEF SendStep, RoundSoFar, Fresh, None, Copied
<1>3. CASE LaunchStep
  <2>1. /\ pc = "launch" /\ pc' = "refill" /\ UNCHANGED <<size, repeat, bufs>>
        /\ pim' = [i \in DPUs |-> [j \in Words |->
                     IF Tagged(j) THEN [pim[i][j] EXCEPT !.adds = @ + 1] ELSE pim[i][j]]]
    BY <1>3 DEF LaunchStep
  <2>2. ASSUME NEW i \in DPUs, NEW j \in Words, j < size
        PROVE  pim'[i][j] = Value(i, j, repeat, Once(j))
    <3>1. pim[i][j] = Value(i, j, repeat, 0)
      BY <2>1, <2>2 DEF RoundSoFar, Fresh, None
    <3>2. j < MRAM_BUFFER_SIZE_IN_INT64
      <4>1. size \in Sizes /\ size \in Int /\ j \in Int
        BY BenchmarkAssumption DEF RoundSoFar
      <4>2. size <= MRAM_BUFFER_SIZE_IN_INT64 /\ MRAM_BUFFER_SIZE_IN_INT64 \in Int
        BY <4>1 DEF MRAM_BUFFER_SIZE_IN_INT64
      <4> QED
        BY <2>2, <4>1, <4>2
    <3>3. [Value(i, j, repeat, 0) EXCEPT !.adds = @ + 1] = Value(i, j, repeat, 1)
      BY DEF Value
    <3> QED
      BY <2>1, <3>1, <3>2, <3>3 DEF Tagged, Once
  <2> QED
    BY <2>1, <2>2 DEF RoundSoFar, Fresh
<1>4. CASE RefillStep
  BY <1>4 DEF RefillStep, RoundSoFar, Fresh
<1>5. CASE ReceiveStep
  BY <1>5 DEF ReceiveStep, RoundSoFar, Fresh, Copied
<1>6. CASE AnotherRound \/ NextSize
  BY <1>6 DEF AnotherRound, NextSize, RoundSoFar
<1>7. CASE Done \/ UNCHANGED vars
  BY <1>7 DEF Done, vars, RoundSoFar, Fresh
<1> QED
  BY <1>1, <1>2, <1>3, <1>4, <1>5, <1>6, <1>7 DEF Next

\* The asserts of lines 307-311 of host.cpp hold in every round of every size, as long
\* as no size is beyond MRAM_BUFFER_SIZE; one of 8 MB is, and there they fail.
THEOREM CheckAlwaysHolds ==
  ASSUME \A s \in Sizes : s <= MRAM_BUFFER_SIZE_IN_INT64
  PROVE  Spec => []CheckHolds
<1>1. RoundSoFar => CheckHolds
  BY DEF RoundSoFar, Fresh, Once, CheckHolds
<1>2. RoundSoFar /\ [Next]_vars => RoundSoFar'
  BY StepHolds
<1> QED
  BY <1>1, <1>2, InitHolds, PTL DEF Spec
=============================================================================
