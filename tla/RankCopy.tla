------------------------------ MODULE RankCopy ------------------------------
(***************************************************************************)
(* What a transfer to or from one rank promises: a copy between the        *)
(* caller's buffers and the MRAM of each enabled DPU, word by word in an   *)
(* order the caller cannot rely on, that is complete when the call returns *)
(* and that touches nothing else.  There is no cache, no lane and no       *)
(* address translation here.                                               *)
(***************************************************************************)
EXTENDS Naturals

CONSTANTS Enabled,     \* the slots of the rank that have a working DPU
          Words,       \* words of MRAM
          Fills,       \* what the caller puts in its buffers
          Calls,       \* transfers: records of a first word and a length
          Blank,       \* what MRAM holds at first
          Program      \* what a run of the DPUs does to a word

VARIABLES pim,         \* slot -> word -> value
          bufs,        \* slot -> index -> value
          phase,       \* "idle", "send", "receive", "run" or "stopped"
          request,     \* the transfer under way, or the last one
          todo         \* the <<slot, index>> pairs it has still to copy

vars == <<pim, bufs, phase, request, todo>>

Init ==
    /\ pim = [s \in Enabled |-> [w \in Words |-> Blank]]
    /\ bufs \in Fills
    /\ phase = "idle"
    /\ request \in Calls
    /\ todo = {}

Pairs(call) == Enabled \X (0 .. call.n - 1)

Fill ==
    /\ phase = "idle"
    /\ bufs' \in Fills
    /\ UNCHANGED <<pim, phase, request, todo>>

Start(kind) ==
    /\ phase = "idle"
    /\ phase' = kind
    /\ request' \in Calls
    /\ todo' = Pairs(request')
    /\ UNCHANGED <<pim, bufs>>

\* Some of the pairs, as many as the implementation moves at once.
CopySome ==
    /\ phase \in {"send", "receive"}
    /\ \E left \in SUBSET todo :
        LET base   == request.base
            moved  == todo \ left
        IN  /\ todo' = left
            /\ \/ /\ phase = "send"
                  /\ pim' = [s \in Enabled |-> [w \in Words |->
                               IF <<s, w - base>> \in moved THEN bufs[s][w - base]
                               ELSE pim[s][w]]]
                  /\ bufs' = bufs
               \/ /\ phase = "receive"
                  /\ bufs' = [s \in Enabled |-> [i \in DOMAIN bufs[s] |->
                                IF <<s, i>> \in moved THEN pim[s][base + i]
                                ELSE bufs[s][i]]]
                  /\ pim' = pim
    /\ UNCHANGED <<phase, request>>

Return ==
    /\ phase \in {"send", "receive"} /\ todo = {}
    /\ phase' = "idle"
    /\ UNCHANGED <<pim, bufs, request, todo>>

\* A call that fails stops the program before it has copied anything.
Stop ==
    /\ phase \in {"send", "receive"} /\ todo = Pairs(request)
    /\ phase' = "stopped"
    /\ UNCHANGED <<pim, bufs, request, todo>>

Launch ==
    /\ phase = "idle"
    /\ phase' = "run"
    /\ UNCHANGED <<pim, bufs, request, todo>>

Run ==
    /\ phase = "run"
    /\ pim' = [s \in Enabled |-> [w \in Words |-> Program[pim[s][w]]]]
    /\ phase' = "idle"
    /\ UNCHANGED <<bufs, request, todo>>

Next ==
    \/ Fill \/ Start("send") \/ Start("receive") \/ CopySome \/ Return \/ Stop
    \/ Launch \/ Run

Spec == Init /\ [][Next]_vars
=============================================================================
