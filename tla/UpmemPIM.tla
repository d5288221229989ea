------------------------------ MODULE UpmemPIM ------------------------------
(***************************************************************************)
(* UPMEMInterface: every call of it is one of the base class, through the  *)
(* SDK's queues of jobs.                                                   *)
(***************************************************************************)
EXTENDS PimInterface

UpmemInit == BaseInit
UpmemEnded == caller = "aborted" /\ UNCHANGED baseVars
UpmemNext == BaseNext \/ UpmemEnded

UpmemSpec == UpmemInit /\ [][UpmemNext]_baseVars /\ BaseFairness

(***************************************************************************)
(* Properties.                                                             *)
(***************************************************************************)
UpmemArray == INSTANCE PimArray WITH
    NrDpus <- nr_of_dpus, pim <- SettledPim, bufs <- SettledBufs,
    phase <- IF caller = "aborted" THEN <<"stopped">> ELSE <<caller>>,
    todo <- {}, owed <- Owed

\* For a program that leaves its buffers alone until it syncs, calls queued for
\* ranks that serve them each at its own pace have the effects of calls made one
\* at a time, of which buffer k goes to and comes from the k-th DPU.
UpmemImplements == UpmemArray!Spec
=============================================================================
