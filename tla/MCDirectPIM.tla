----------------------------- MODULE MCDirectPIM -----------------------------
(***************************************************************************)
(* Three ranks of three slots for TLC, with DPUs missing at the start, in  *)
(* the middle and at the end of a rank, shared by two threads.             *)
(***************************************************************************)
EXTENDS DirectPIM

CONSTANTS a, b, null

MCEnabled == [r \in 0 .. 2 |-> CASE r = 0 -> {0, 2} [] r = 1 -> {1} [] r = 2 -> {0, 1}]
MCFills   == {[k \in 0 .. 4 |-> IF k \in {0, 3} THEN a ELSE b],
              [k \in 0 .. 4 |-> IF k \in {1, 2, 3} THEN a ELSE b]}
MCProgram == [v \in {a, b} |-> IF v = a THEN b ELSE a]

\* The program of the README's "API Usage" with async true: SendToPIM, Launch and
\* ReceiveFromPIM, once each and in this order.
UsageNext ==
    \/ call.op = "run" /\ ~call.unsynced /\ Transfer("send", "mram", TRUE)
    \/ call.op = "send" /\ Launch(TRUE) /\ UNCHANGED direct
    \/ call.op = "run" /\ call.unsynced /\ Transfer("receive", "mram", TRUE)
    \/ Join
    \/ \E r \in Ranks :
        \/ (StartJob(r) \/ FinishJob(r)) /\ UNCHANGED direct
        \/ Worker(r)
    \/ Ended

UsageSpec == Init /\ [][UsageNext]_vars
=============================================================================
