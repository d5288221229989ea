----------------------------- MODULE Benchmark -----------------------------
(***************************************************************************)
(* TestMRAMThroughput of the benchmark's host program with mram_test of    *)
(* its DPU program: for every size, rounds of fill, send, launch, refill,  *)
(* receive and check, until the timers say so.  A buffer is followed at a  *)
(* few of its words; a transfer copies those below the size.               *)
(***************************************************************************)
EXTENDS Integers

CONSTANTS NrDpus,       \* nrOfDPUs
          Sizes,        \* sizes under test, in words, each at most twice the last
          MaxRepeat,    \* rounds a size is bounded to here
          Words         \* the words that are followed

VARIABLES pc,           \* the next step of the round, or "done"
          size,         \* bufferSizePerDPU, in words
          repeat,
          bufs,         \* DPU -> word -> value in dpuBuffer
          pim           \* DPU -> word -> value in MRAM

vars == <<pc, size, repeat, bufs, pim>>

ASSUME BenchmarkAssumption ==
    /\ NrDpus \in Nat \ {0} /\ MaxRepeat \in Nat
    /\ Sizes \subseteq Nat \ {0} /\ Sizes # {}
    /\ Words \subseteq Nat

DPUs == 0 .. NrDpus - 1

\* MRAM_BUFFER_SIZE: 6396 KB, in 8-byte words.
MRAM_BUFFER_SIZE_IN_INT64 == 6396 * 128

\* get_value(i, j, repeat), a hash taken to be injective, with as many additions
\* of (i << 48) + j as the DPU program made to it.
Value(i, j, rep, adds) == [dpu |-> i, word |-> j, repeat |-> rep, adds |-> adds]

\* Contents of memory the test did not write.
Noise == Value(-1, -1, 0, 0)

FillAll(rep) ==
    [i \in DPUs |-> [j \in Words |-> IF j < size THEN Value(i, j, rep, 0) ELSE bufs[i][j]]]

Copied(from, to) ==
    [i \in DPUs |-> [j \in Words |-> IF j < size THEN from[i][j] ELSE to[i][j]]]

FillStep ==
    /\ pc = "fill"
    /\ bufs' = FillAll(repeat)
    /\ pc' = "send"
    /\ UNCHANGED <<size, repeat, pim>>

SendStep ==
    /\ pc = "send"
    /\ pim' = Copied(bufs, pim)
    /\ pc' = "launch"
    /\ UNCHANGED <<size, repeat, bufs>>

\* Is word j one that mram_test adds to?
TaggedAll(j) == j < MRAM_BUFFER_SIZE_IN_INT64          \* a slip: i++ for i += 256
Tagged(j)    == j < MRAM_BUFFER_SIZE_IN_INT64 /\ j % 256 = 0

LaunchStep ==
    /\ pc = "launch"
    /\ pim' = [i \in DPUs |-> [j \in Words |->
                 IF Tagged(j) THEN [pim[i][j] EXCEPT !.adds = @ + 1] ELSE pim[i][j]]]
    /\ pc' = "refill"
    /\ UNCHANGED <<size, repeat, bufs>>

\* The buffers get other values, so that the check sees what is received.
RefillStep ==
    /\ pc = "refill"
    /\ bufs' = FillAll(repeat + 1)
    /\ pc' = "receive"
    /\ UNCHANGED <<size, repeat, pim>>

ReceiveStep ==
    /\ pc = "receive"
    /\ bufs' = Copied(pim, bufs)
    /\ pc' = "check"
    /\ UNCHANGED <<size, repeat, pim>>

\* The asserts, and one more round.
AnotherRound ==
    /\ pc = "check" /\ repeat < MaxRepeat
    /\ repeat' = repeat + 1
    /\ pc' = "fill"
    /\ UNCHANGED <<size, bufs, pim>>

\* The timers are over their limits: the next size, or the end.
NextSize ==
    /\ pc = "check"
    /\ repeat' = 0
    /\ \/ /\ 2 * size \in Sizes
          /\ size' = 2 * size
          /\ pc' = "fill"
       \/ /\ 2 * size \notin Sizes
          /\ size' = size
          /\ pc' = "done"
    /\ UNCHANGED <<bufs, pim>>

Done == pc = "done" /\ UNCHANGED vars

Init ==
    /\ pc = "fill"
    /\ size \in Sizes /\ \A other \in Sizes : size <= other
    /\ repeat = 0
    /\ bufs = [i \in DPUs |-> [j \in Words |-> Noise]]
    /\ pim  = [i \in DPUs |-> [j \in Words |-> [Noise EXCEPT !.adds = 1]]]

Next ==
    \/ FillStep \/ SendStep \/ LaunchStep \/ RefillStep \/ ReceiveStep
    \/ AnotherRound \/ NextSize \/ Done

Spec == Init /\ [][Next]_vars

(***************************************************************************)
(* Properties.                                                             *)
(***************************************************************************)
\* The asserts of lines 307-311 of host.cpp: every word received is that of this
\* round, and one word in 256 has been added to once.
CheckHolds ==
    pc = "check" =>
        \A i \in DPUs, j \in Words :
            j < size => bufs[i][j] = Value(i, j, repeat, IF j % 256 = 0 THEN 1 ELSE 0)
=============================================================================
