------------------------------ MODULE PimArray ------------------------------
(***************************************************************************)
(* What PIMInterface promises a program: an array of DPUs numbered from 0, *)
(* each with memories of its own, and one buffer per DPU.  Calls take      *)
(* effect in the order they are made, whole, as if at once; what the SDK   *)
(* still owes of them is over when a call that waits returns.  A direct    *)
(* transfer finds nothing owed.  It copies the memories in no particular   *)
(* order, some of them when it fails and stops the program.                *)
(***************************************************************************)
EXTENDS Naturals

CONSTANTS NrDpus,      \* nr_of_dpus
          Areas,       \* the memories of a DPU
          Fills,       \* what the program puts in its buffers
          Blank,       \* what a memory holds at first
          Program      \* what a run does to a memory

VARIABLES pim,         \* DPU -> area -> value
          bufs,        \* DPU -> the program's buffer for it
          phase,       \* <<"idle">>, <<"wait">>, <<"stopped">> or <<direct transfer, area>>
          todo,        \* DPUs the direct transfer under way has not copied
          owed         \* DPUs that have not finished the calls made so far

vars == <<pim, bufs, phase, todo, owed>>

Dpus == 0 .. NrDpus - 1

Init ==
    /\ pim = [k \in Dpus |-> [area \in Areas |-> Blank]]
    /\ bufs \in Fills
    /\ phase = <<"idle">>
    /\ todo = {} /\ owed = {}

Fill ==
    /\ phase = <<"idle">>
    /\ bufs' \in Fills
    /\ UNCHANGED <<pim, phase, todo, owed>>

Sent(m, b, area, ks) ==
    [k \in Dpus |-> IF k \in ks THEN [m[k] EXCEPT ![area] = b[k]] ELSE m[k]]

Received(m, b, area, ks) == [k \in Dpus |-> IF k \in ks THEN m[k][area] ELSE b[k]]

Run(m)      == [k \in Dpus |-> [area \in Areas |-> Program[m[k][area]]]]
Same(value) == [k \in Dpus |-> value]

Call ==
    /\ phase = <<"idle">>
    /\ \/ pim' = Run(pim) /\ bufs' = bufs
       \/ \E area \in Areas :
           \/ pim' = Sent(pim, bufs, area, Dpus) /\ bufs' = bufs
           \/ \E k \in Dpus : pim' = Sent(pim, Same(bufs[k]), area, Dpus) /\ bufs' = bufs
           \/ bufs' = Received(pim, bufs, area, Dpus) /\ pim' = pim
    /\ owed' = Dpus
    /\ phase' \in {<<"idle">>, <<"wait">>}        \* asynchronous or synchronous
    /\ todo' = todo

Settle ==
    /\ owed' \in SUBSET owed
    /\ UNCHANGED <<pim, bufs, phase, todo>>

Sync ==
    /\ phase = <<"idle">>
    /\ phase' = <<"wait">>
    /\ UNCHANGED <<pim, bufs, todo, owed>>

Waited ==
    /\ phase = <<"wait">> /\ owed = {}
    /\ phase' = <<"idle">>
    /\ UNCHANGED <<pim, bufs, todo, owed>>

Start ==
    /\ phase = <<"idle">> /\ owed = {}
    /\ phase' \in {"send", "receive"} \X Areas
    /\ todo' = Dpus
    /\ UNCHANGED <<pim, bufs, owed>>

CopySome ==
    /\ phase \in {"send", "receive"} \X Areas
    /\ todo' \in SUBSET todo
    /\ \/ phase[1] = "send"
          /\ pim' = Sent(pim, bufs, phase[2], todo \ todo') /\ bufs' = bufs
       \/ phase[1] = "receive"
          /\ bufs' = Received(pim, bufs, phase[2], todo \ todo') /\ pim' = pim
    /\ UNCHANGED <<phase, owed>>

Return ==
    /\ phase \in {"send", "receive"} \X Areas /\ todo = {}
    /\ phase' = <<"idle">>
    /\ UNCHANGED <<pim, bufs, todo, owed>>

Stop ==
    /\ phase' = <<"stopped">>
    /\ UNCHANGED <<pim, bufs, todo, owed>>

Next ==
    \/ Fill \/ Call \/ Settle \/ Sync \/ Waited
    \/ Start \/ CopySome \/ Return \/ Stop

Spec == Init /\ [][Next]_vars
=============================================================================
