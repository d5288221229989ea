--------------------------- MODULE LifetimeProofs ---------------------------
(***************************************************************************)
(* For any sets of DPUs: a program that never loads a direct interface     *)
(* from another set has every interface about one allocated set, and every *)
(* set freed once.                                                         *)
(***************************************************************************)
EXTENDS Lifetime, TLAPS

Types ==
    /\ object = Null \/ object \in Objects
    /\ mine \subseteq Sets /\ allocated \subseteq Sets

LEMMA NrRanksType == \A s \in Sets : NrRanks(s) \in Nat /\ NrRanks(s) > 0
BY LifetimeAssumption DEF NrRanks

\* What a load by the base class leaves in the members.
LEMMA LoadedIs ==
  ASSUME NEW o \in Objects, NEW s \in Sets
  PROVE  /\ Loaded(o, s) \in Objects
         /\ Loaded(o, s).dpu_set = s /\ Loaded(o, s).nr_of_ranks = NrRanks(s)
         /\ Loaded(o, s).nr_of_dpus = DpusIn(s, NrRanks(s))
         /\ Loaded(o, s).kind = o.kind /\ Loaded(o, s).ranks = o.ranks
         /\ Loaded(o, s).free = o.free
BY NrRanksType DEF Loaded, Objects

\* What a constructor leaves in them.
LEMMA NewIs ==
  ASSUME NEW kind \in Kinds, NEW s \in Sets
  PROVE  /\ New(kind, s) \in Objects
         /\ New(kind, s).dpu_set = s /\ New(kind, s).nr_of_ranks = NrRanks(s)
         /\ New(kind, s).nr_of_dpus = DpusIn(s, NrRanks(s))
         /\ New(kind, s).ranks = IF New(kind, s).kind = "direct" THEN s ELSE Null
         /\ New(kind, s).free = TRUE
<1> DEFINE blank == [kind |-> kind, dpu_set |-> s, ranks |-> Null, nr_of_ranks |-> 0,
                     nr_of_dpus |-> 0, free |-> TRUE]
           o == Loaded(blank, s)
<1>1. blank \in Objects /\ blank.kind = kind /\ blank.ranks = Null /\ blank.free = TRUE
  BY DEF Objects
<1>2. /\ o \in Objects /\ o.dpu_set = s /\ o.nr_of_ranks = NrRanks(s)
      /\ o.nr_of_dpus = DpusIn(s, NrRanks(s))
      /\ o.kind = kind /\ o.ranks = Null /\ o.free = TRUE
  <2> HIDE DEF blank
  <2> QED
    BY <1>1, LoadedIs
<1>3. New(kind, s) = IF kind = "direct" THEN DirectLoaded(o, s) ELSE o
  BY DEF New
<1> HIDE DEF o
<1> QED
  BY <1>2, <1>3 DEF DirectLoaded, Objects

LEMMA InitHolds == Init => Types /\ OneSet /\ FreedOnce
BY DEF Init, Types, OneSet, FreedOnce

LEMMA StepHolds ==
  ASSUME "direct" \notin Reloads, Types, OneSet, FreedOnce, [Next]_vars
  PROVE  Types' /\ OneSet' /\ FreedOnce'
<1> USE DEF Types
<1>1. ASSUME NEW s \in Sets, Alloc(s) PROVE Types' /\ OneSet' /\ FreedOnce'
  BY <1>1 DEF Alloc, OneSet, FreedOnce
<1>2. ASSUME NEW s \in Sets, FreeMine(s) PROVE Types' /\ OneSet' /\ FreedOnce'
  BY <1>2 DEF FreeMine, OneSet, FreedOnce
<1>3. ASSUME NEW s \in Sets, NEW kind \in Kinds, pim_interface_init(s, kind) \/ Construct(s, kind)
      PROVE  Types' /\ OneSet' /\ FreedOnce'
  <2>1. /\ object = Null /\ object' = New(kind, s)
        /\ \/ s \in mine /\ mine' = mine \ {s} /\ allocated' = allocated
           \/ s \notin allocated /\ mine' = mine /\ allocated' = allocated \cup {s}
    BY <1>3 DEF pim_interface_init, Construct
  <2> DEFINE o == New(kind, s)
  <2>2. /\ o \in Objects /\ o # Null /\ o.dpu_set = s /\ o.nr_of_ranks = NrRanks(s)
        /\ o.nr_of_dpus = DpusIn(s, NrRanks(s))
        /\ o.ranks = IF o.kind = "direct" THEN s ELSE Null
        /\ o.free = TRUE
    BY NewIs, LifetimeAssumption, Zenon
  <2>3. object' = o
    BY <2>1
  <2> HIDE DEF o
  <2>4. Types' /\ OneSet'
    BY <2>1, <2>2, <2>3 DEF OneSet, FreedOnce
  <2>5. FreedOnce'
    BY <2>1, <2>2, <2>3 DEF FreedOnce
  <2> QED
    BY <2>4, <2>5
<1>4. ASSUME NEW s \in Sets, load_from_dpu_set(s) PROVE Types' /\ OneSet' /\ FreedOnce'
  <2>1. /\ object \in Objects /\ object # Null /\ allocated' = allocated
        /\ s = object.dpu_set \/ (s \in mine /\ object.kind # "direct")
        /\ \/ object.kind = "upmem" /\ object' = Loaded(object, s)
           \/ object.kind = "direct" /\ object' = DirectLoaded(object, s)
        /\ mine' = IF object.free THEN (mine \cup {object.dpu_set}) \ {s} ELSE mine
    BY <1>4 DEF load_from_dpu_set
  <2>2. CASE object.kind = "upmem"
    <3>1. object' = Loaded(object, s) /\ object.ranks = Null /\ s \in allocated
      BY <2>1, <2>2 DEF OneSet, FreedOnce
    <3>2. /\ object' \in Objects /\ object'.dpu_set = s /\ object'.nr_of_ranks = NrRanks(s)
          /\ object'.nr_of_dpus = DpusIn(s, NrRanks(s))
          /\ object'.kind = "upmem" /\ object'.ranks = Null /\ object'.free = object.free
      BY <2>1, <2>2, <3>1, LoadedIs
    <3>3. object' # Null
      BY <3>2, LifetimeAssumption, Zenon
    <3>4. Types' /\ OneSet'
      BY <2>1, <3>1, <3>2, <3>3 DEF OneSet
    <3>5. FreedOnce'
      <4>1. CASE object.free
        BY <2>1, <3>1, <3>2, <3>3, <4>1 DEF OneSet, FreedOnce
      <4>2. CASE ~object.free
        BY <2>1, <3>1, <3>2, <3>3, <4>2 DEF OneSet, FreedOnce
      <4> QED
        BY <4>1, <4>2
    <3> QED
      BY <3>4, <3>5
  <2>3. CASE object.kind = "direct"
    <3>1. s = object.dpu_set /\ object' = [object EXCEPT !.ranks = s]
      BY <2>1, <2>3 DEF DirectLoaded
    <3>2. object' = object
      BY <2>1, <2>3, <3>1 DEF OneSet, Objects
    <3>3. mine' = mine
      BY <2>1, <3>1 DEF FreedOnce
    <3> QED
      BY <2>1, <3>2, <3>3 DEF OneSet, FreedOnce
  <2> QED
    BY <2>1, <2>2, <2>3
<1>5. CASE Delete
  <2>1. object.nr_of_ranks > 0
    BY <1>5, NrRanksType DEF Delete, OneSet, Objects
  <2> QED
    BY <1>5, <2>1 DEF Delete, Frees, OneSet, FreedOnce
<1>6. CASE do_not_free_dpu_set_when_delete
  <2>1. /\ object \in Objects /\ object # Null /\ object' = [object EXCEPT !.free = FALSE]
        /\ mine' = mine \cup {object.dpu_set} /\ allocated' = allocated
    BY <1>6 DEF do_not_free_dpu_set_when_delete
  <2>2. /\ object' \in Objects /\ object'.free = FALSE /\ object'.dpu_set = object.dpu_set
        /\ object'.kind = object.kind /\ object'.ranks = object.ranks
        /\ object'.nr_of_ranks = object.nr_of_ranks /\ object'.nr_of_dpus = object.nr_of_dpus
    BY <2>1 DEF Objects
  <2> QED
    BY <2>1, <2>2 DEF OneSet, FreedOnce, Objects
<1>7. CASE ConstructFails \/ Ended \/ UNCHANGED vars
  BY <1>7 DEF ConstructFails, Ended, vars, OneSet, FreedOnce
<1> QED
  BY <1>1, <1>2, <1>3, <1>4, <1>5, <1>6, <1>7 DEF Next

LEMMA Invariance ==
  ASSUME "direct" \notin Reloads
  PROVE  Spec => [](Types /\ OneSet /\ FreedOnce)
<1>1. Types /\ OneSet /\ FreedOnce /\ [Next]_vars => (Types /\ OneSet /\ FreedOnce)'
  BY StepHolds
<1> QED
  BY InitHolds, <1>1, PTL DEF Spec

\* Whatever the sets, an interface's tables, its counts and the set it launches and
\* frees are of one allocated set, if no direct interface is loaded from another:
\* the constructors of both kinds and the load of the base class.
THEOREM AboutOneSet ==
  ASSUME "direct" \notin Reloads
  PROVE  Spec => []OneSet
<1>1. Types /\ OneSet /\ FreedOnce => OneSet
  OBVIOUS
<1> QED
  BY <1>1, Invariance, PTL

\* Then every set is freed once: by the destructor, or by the program when told so
\* or when a reload gave the set back.
THEOREM SetsFreedOnce ==
  ASSUME "direct" \notin Reloads
  PROVE  Spec => []FreedOnce
<1>1. Types /\ OneSet /\ FreedOnce => FreedOnce
  OBVIOUS
<1> QED
  BY <1>1, Invariance, PTL
=============================================================================
