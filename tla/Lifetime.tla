------------------------------ MODULE Lifetime ------------------------------
(***************************************************************************)
(* The life of an interface: made from a set of DPUs by the namespace, or  *)
(* by a constructor that allocates the set; given another set; told not to *)
(* free it; deleted.  Every allocated set is either the program's to free  *)
(* or the interface's, and the two must agree on whose.                    *)
(*                                                                         *)
(* One interface lives at a time, and the program is careful: it makes no  *)
(* call through a pointer to a deleted one, frees no set in use, and takes *)
(* back the set that a reload replaces.  Asserts are compiled in.          *)
(***************************************************************************)
EXTENDS Integers, Sequences, FiniteSetsExt

CONSTANTS Sets,         \* sets of DPUs that may be allocated
          RankSizes,    \* set -> enabled DPUs of each of its ranks
          Reloads,      \* kinds of interface that the program loads from another set
          Null

VARIABLES status,       \* "running", "aborted", "mismatch" (the assert) or "undefined"
          pimInterface, \* the namespace's pointer: Null, "alive" or "deleted"
          object,       \* the members of the interface alive, or Null
          allocated,    \* sets the SDK has allocated
          mine          \* sets the program is to free itself

vars == <<status, pimInterface, object, allocated, mine>>

Kinds == {"direct", "upmem"}

NrRanks(s)   == Len(RankSizes[s])
DpusIn(s, n) == MapThenSumSet(LAMBDA i : RankSizes[s][i], 1 .. n)
Running      == status = "running"

\* The members: ranks stands for the tables, of the set they were made from.
Objects == [kind : Kinds, dpu_set : Sets, ranks : Sets \cup {Null}, nr_of_ranks : Nat,
            nr_of_dpus : {0} \cup {DpusIn(s, NrRanks(s)) : s \in Sets}, free : BOOLEAN]

ASSUME LifetimeAssumption ==
    /\ RankSizes \in [Sets -> Seq(0 .. 64)]
    /\ \A s \in Sets : RankSizes[s] # <<>>
    /\ Reloads \subseteq Kinds
    /\ Null \notin Objects

LoadedStaleCount(o, s) ==                    \* a slip: nr_of_dpus is not read again
    [o EXCEPT !.dpu_set = s, !.nr_of_ranks = NrRanks(s)]

\* PIMInterface::load_from_dpu_set, and the override of the direct interface, which
\* reads the tables of the set with the counts it finds.
Loaded(o, s) ==
    [o EXCEPT !.dpu_set = s, !.nr_of_ranks = NrRanks(s), !.nr_of_dpus = DpusIn(s, NrRanks(s))]

DirectLoaded(o, s) == [o EXCEPT !.ranks = s]

\* A constructor: the base class's runs its own load, then DirectPIMInterface its
\* override, which virtual dispatch does not reach from the base class's.
New(kind, s) ==
    LET blank == [kind |-> kind, dpu_set |-> s, ranks |-> Null, nr_of_ranks |-> 0,
                  nr_of_dpus |-> 0, free |-> TRUE]
    IN  IF kind = "direct" THEN DirectLoaded(Loaded(blank, s), s) ELSE Loaded(blank, s)

\* dpu_alloc by the program.
Alloc(s) ==
    /\ Running /\ s \notin allocated
    /\ allocated' = allocated \cup {s}
    /\ mine' = mine \cup {s}
    /\ UNCHANGED <<status, pimInterface, object>>

\* dpu_free by the program, of a set of its own that no interface uses.
FreeMine(s) ==
    /\ Running /\ s \in mine
    /\ object # Null => s # object.dpu_set
    /\ status' = IF s \in allocated THEN "running" ELSE "undefined"
    /\ allocated' = allocated \ {s}
    /\ mine' = mine \ {s}
    /\ UNCHANGED <<pimInterface, object>>

\* With the pointer set already, to a deleted interface too, nothing is done: the
\* careful program does not count on it.
pim_interface_init(s, kind) ==
    /\ Running /\ object = Null /\ s \in mine /\ pimInterface = Null
    /\ pimInterface' = "alive"
    /\ object' = New(kind, s)
    /\ mine' = mine \ {s}
    /\ UNCHANGED <<status, allocated>>

\* PIMInterface(nr_of_ranks, binary): the variable of an example or a benchmark.
Construct(s, kind) ==
    /\ Running /\ object = Null /\ s \notin allocated
    /\ allocated' = allocated \cup {s}
    /\ object' = New(kind, s)
    /\ UNCHANGED <<status, pimInterface, mine>>

\* It gets no ranks, or cannot load the binary: DPU_ASSERT.
ConstructFails ==
    /\ Running /\ object = Null
    /\ status' = "aborted"
    /\ UNCHANGED <<pimInterface, object, allocated, mine>>

\* ~PIMInterface.
FreesAlways(o)  == o.nr_of_ranks > 0                \* a slip: the flag is not asked
FreesSeveral(o) == o.nr_of_ranks > 1 /\ o.free      \* a slip: > 1 for > 0
Frees(o)        == o.nr_of_ranks > 0 /\ o.free

\* pim_interface_delete, which leaves the pointer as it is, or the end of the scope.
Delete ==
    /\ Running /\ object # Null
    /\ pimInterface' = IF pimInterface = "alive" THEN "deleted" ELSE pimInterface
    /\ status' = IF Frees(object) /\ object.dpu_set \notin allocated THEN "undefined"
                 ELSE "running"
    /\ allocated' = IF Frees(object) THEN allocated \ {object.dpu_set} ELSE allocated
    /\ object' = Null
    /\ mine' = mine

\* What the override of the direct interface runs into, with the counts of the set
\* before: ranks beyond those of the new one, entries beyond rankIDOfDPU, its assert.
Outcomes(o, s) ==
    LET found == DpusIn(s, o.nr_of_ranks) IN
    IF o.nr_of_ranks > NrRanks(s) THEN {"undefined"}
    ELSE IF found > o.nr_of_dpus THEN {"undefined", "mismatch"}
    ELSE IF found < o.nr_of_dpus THEN {"mismatch"}
    ELSE {"running"}

\* load_from_dpu_set of the namespace, of the set it has or of another.
load_from_dpu_set(s) ==
    /\ Running /\ object # Null /\ pimInterface = "alive"
    /\ s = object.dpu_set \/ (s \in mine /\ object.kind \in Reloads)
    /\ \/ /\ object.kind = "upmem"
          /\ object' = Loaded(object, s)
          /\ status' = status
       \/ /\ object.kind = "direct"
          /\ object' = DirectLoaded(object, s)
          /\ status' \in Outcomes(object, s)
    /\ mine' = IF object.free THEN (mine \cup {object.dpu_set}) \ {s} ELSE mine
    /\ UNCHANGED <<pimInterface, allocated>>

do_not_free_dpu_set_when_delete ==
    /\ Running /\ object # Null
    /\ object' = [object EXCEPT !.free = FALSE]
    /\ mine' = mine \cup {object.dpu_set}
    /\ UNCHANGED <<status, pimInterface, allocated>>

Ended == ~Running /\ UNCHANGED vars

Init ==
    /\ status = "running"
    /\ pimInterface = Null /\ object = Null
    /\ allocated = {} /\ mine = {}

Next ==
    \/ \E s \in Sets :
        \/ Alloc(s) \/ FreeMine(s) \/ load_from_dpu_set(s)
        \/ \E kind \in Kinds : pim_interface_init(s, kind) \/ Construct(s, kind)
    \/ ConstructFails \/ Delete \/ do_not_free_dpu_set_when_delete
    \/ Ended

Spec == Init /\ [][Next]_vars

(***************************************************************************)
(* Properties.                                                             *)
(***************************************************************************)
\* Direct transfers (ranks), launches and the SDK's transfers (dpu_set), the loops
\* over ranks and DPUs (the counts) and the destructor are all about one set, which
\* is allocated.
OneSet ==
    object # Null =>
        /\ object.dpu_set \in allocated
        /\ object.nr_of_ranks = NrRanks(object.dpu_set)
        /\ object.nr_of_dpus = DpusIn(object.dpu_set, object.nr_of_ranks)
        /\ object.ranks = IF object.kind = "direct" THEN object.dpu_set ELSE Null

\* Every set is freed by exactly one of the two: one that is allocated is the
\* program's to free or is the one the interface frees, and not both; one that is
\* the program's has not been freed behind its back.
FreedOnce ==
    LET theirs == IF object # Null /\ object.free THEN {object.dpu_set} ELSE {}
    IN  allocated = mine \cup theirs /\ mine \cap theirs = {}

\* The assert of load_from_dpu_set: the tables have an entry for every DPU of the set.
NoMismatch == status # "mismatch"
=============================================================================
