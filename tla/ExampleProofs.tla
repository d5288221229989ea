--------------------------- MODULE ExampleProofs ---------------------------
(***************************************************************************)
(* For any number of DPUs, any sizes and chunks, and direct transfers that *)
(* exchange DPUs and leave words out in any way: the examples' tests tell  *)
(* a DPU whose transfers went wrong from one whose did not.                *)
(***************************************************************************)
EXTENDS Example, FiniteSetTheorems, TLAPS

Tag    == Int \X Int
Values == [dpu : Int, j : Int, seed : Int, tags : Seq(Tag)]

Memories == [Cells -> Values]

(***************************************************************************)
(* Values: tagging loses nothing, and the last tag tells who tagged.       *)
(***************************************************************************)
LEMMA AppendIs ==
  ASSUME NEW s \in Seq(Tag), NEW t \in Seq(Tag), NEW x \in Tag, NEW y \in Tag,
         Append(s, x) = Append(t, y)
  PROVE  s = t /\ x = y
<1>1. Len(s) = Len(t)
  BY Len(Append(s, x)) = Len(s) + 1, Len(Append(t, y)) = Len(t) + 1
<1>2. x = y
  BY <1>1, Append(s, x)[Len(s) + 1] = x, Append(t, y)[Len(t) + 1] = y
<1>3. ASSUME NEW i \in 1 .. Len(s) PROVE s[i] = t[i]
  BY <1>1, Append(s, x)[i] = s[i], Append(t, y)[i] = t[i]
<1> QED
  BY <1>1, <1>2, <1>3

LEMMA TaggedIs ==
  ASSUME NEW v \in Values, NEW id \in Int, NEW j \in Int
  PROVE  /\ Tagged(v, id, j) \in Values
         /\ v.tags \in Seq(Tag) /\ <<id, j>> \in Tag
         /\ Tagged(v, id, j).tags = Append(v.tags, <<id, j>>)
         /\ Tagged(v, id, j).dpu = v.dpu /\ Tagged(v, id, j).j = v.j
         /\ Tagged(v, id, j).seed = v.seed
<1> DEFINE x == <<id, j>>
<1>1. x \in Tag
  BY DEF Tag
<1>2. v.tags \in Seq(Tag)
  BY DEF Values
<1> HIDE DEF x
<1>3. Append(v.tags, x) \in Seq(Tag)
  BY <1>1, <1>2
<1>4. Tagged(v, id, j) = [v EXCEPT !.tags = Append(v.tags, x)]
  BY DEF Tagged, x
<1>5. /\ [v EXCEPT !.tags = Append(v.tags, x)] \in Values
      /\ [v EXCEPT !.tags = Append(v.tags, x)].tags = Append(v.tags, x)
      /\ [v EXCEPT !.tags = Append(v.tags, x)].dpu = v.dpu
      /\ [v EXCEPT !.tags = Append(v.tags, x)].j = v.j
      /\ [v EXCEPT !.tags = Append(v.tags, x)].seed = v.seed
  BY <1>3 DEF Values
<1> QED
  BY <1>1, <1>2, <1>4, <1>5 DEF x

LEMMA TaggedInjective ==
  ASSUME NEW v \in Values, NEW w \in Values, NEW id \in Int, NEW other \in Int, NEW j \in Int,
         Tagged(v, id, j) = Tagged(w, other, j)
  PROVE  v = w /\ id = other
<1>1. /\ v.tags \in Seq(Tag) /\ <<id, j>> \in Tag
      /\ Tagged(v, id, j).tags = Append(v.tags, <<id, j>>)
  BY TaggedIs
<1>2. /\ w.tags \in Seq(Tag) /\ <<other, j>> \in Tag
      /\ Tagged(w, other, j).tags = Append(w.tags, <<other, j>>)
  BY TaggedIs
<1>3. Append(v.tags, <<id, j>>) = Append(w.tags, <<other, j>>)
  BY <1>1, <1>2, Zenon
<1>4. v.tags = w.tags /\ <<id, j>> = <<other, j>>
  <2>1. \A s \in Seq(Tag), t \in Seq(Tag), x \in Tag, y \in Tag :
           Append(s, x) = Append(t, y) => s = t /\ x = y
    BY AppendIs, Zenon
  <2>2. \A x \in Tag, y \in Tag :
           Append(v.tags, x) = Append(w.tags, y) => v.tags = w.tags /\ x = y
    BY <1>1, <1>2, <2>1
  <2>3. \A y \in Tag :
           Append(v.tags, <<id, j>>) = Append(w.tags, y) => v.tags = w.tags /\ <<id, j>> = y
    BY <1>1, <2>2
  <2> QED
    BY <1>2, <1>3, <2>3
<1>5. v.dpu = w.dpu /\ v.j = w.j /\ v.seed = w.seed
  <2>1. /\ Tagged(v, id, j).dpu = v.dpu /\ Tagged(v, id, j).j = v.j
        /\ Tagged(v, id, j).seed = v.seed
    BY TaggedIs
  <2>2. /\ Tagged(w, other, j).dpu = w.dpu /\ Tagged(w, other, j).j = w.j
        /\ Tagged(w, other, j).seed = w.seed
    BY TaggedIs
  <2> QED
    BY <2>1, <2>2, Zenon
<1> QED
  BY <1>4, <1>5 DEF Values

LEMMA ExpectedType ==
  ASSUME NEW id \in Int, NEW j \in Int, NEW s \in Int
  PROVE  expected_value(id, j, s) \in Values
BY DEF expected_value, Values

LEMMA NotExpectedIs == NotExpected \in Values /\ NotExpected.dpu \notin Dpus
<1>1. NotExpected \in Values
  BY DEF NotExpected, Values
<1>2. -1 \notin Dpus /\ NotExpected.dpu = -1
  <2>1. NrDpus - 1 \in Int
    BY ExampleAssumption
  <2> QED
    BY <2>1 DEF NotExpected, Dpus
<1> QED
  BY <1>1, <1>2

(***************************************************************************)
(* Cells, and what a transfer may deliver.                                 *)
(***************************************************************************)
LEMMA CellIs ==
  ASSUME NEW c \in Cells
  PROVE  /\ c = <<c[1], c[2]>> /\ c[1] \in Dpus /\ c[2] \in Words
         /\ c[1] \in Int /\ c[2] \in Nat
<1>1. c = <<c[1], c[2]>> /\ c[1] \in Dpus /\ c[2] \in Words
  BY DEF Cells
<1>2. Dpus \subseteq Int
  BY ExampleAssumption DEF Dpus
<1>3. Words \subseteq Nat
  BY ExampleAssumption DEF Words
<1> QED
  BY <1>1, <1>2, <1>3

LEMMA SizeIs ==
  ASSUME NEW i \in 1 .. Len(Sizes)
  PROVE  Sizes[i] \in Nat \ {0} /\ 0 .. Sizes[i] - 1 \subseteq Words
<1>1. Sizes[i] \in Nat \ {0} /\ i \in DOMAIN Sizes
  BY ExampleAssumption
<1> QED
  BY <1>1 DEF Words

LEMMA FirstFinite ==
  ASSUME NEW n \in Nat
  PROVE  IsFiniteSet(First(n))
<1>1. IsFiniteSet(Dpus) /\ IsFiniteSet(0 .. n - 1)
  <2>1. 0 \in Int /\ NrDpus - 1 \in Int /\ n - 1 \in Int
    BY ExampleAssumption
  <2> QED
    BY <2>1, FS_Interval, Zenon DEF Dpus
<1>2. IsFiniteSet(Dpus \X (0 .. n - 1))
  BY <1>1, FS_Product
<1>3. First(n) \subseteq Dpus \X (0 .. n - 1)
  BY CellIs DEF First
<1> QED
  BY <1>2, <1>3, FS_Subset

\* Every cell holds what it held, or the same word of some DPU's buffer.
LEMMA DeliveredIs ==
  ASSUME NEW n \in Nat, NEW from \in [First(n) -> Values], NEW to \in [First(n) -> Values],
         NEW got \in Delivered(from, to)
  PROVE  /\ got \in [First(n) -> Values]
         /\ \A c \in First(n) : got[c] = to[c] \/ \E e \in Dpus :
               <<e, c[2]>> \in First(n) /\ got[c] = from[<<e, c[2]>>]
<1>1. ASSUME NEW c \in First(n), NEW e \in Dpus
      PROVE  <<e, c[2]>> \in First(n)
  BY CellIs DEF First, Cells
<1>2. CASE ~Faulty
  <2>1. got = from
    BY <1>2 DEF Delivered
  <2> QED
    BY <2>1, CellIs, <1>1 DEF First
<1>3. CASE Faulty
  <2>1. PICK r \in [left : SUBSET DOMAIN from, of : Bijection(Dpus, Dpus)] :
          got = [c \in DOMAIN from |->
                   IF c \in r.left THEN to[c] ELSE from[<<r.of[c[1]], c[2]>>]]
    BY <1>3 DEF Delivered
  <2>2. r.of \in [Dpus -> Dpus]
    BY DEF Bijection, Injection
  <2>3. ASSUME NEW c \in First(n)
        PROVE  r.of[c[1]] \in Dpus /\ <<r.of[c[1]], c[2]>> \in First(n)
    BY <2>2, <1>1, CellIs DEF First
  <2> QED
    BY <2>1, <2>3
<1> QED
  BY <1>2, <1>3

\* The words of a DPU that are wrong are finitely many.
LEMMA DifferingIs ==
  ASSUME NEW d, NEW n \in Nat, NEW is, NEW should
  PROVE  /\ Differing(d, First(n), is, should) \in Nat
         /\ Differing(d, First(n), is, should) = 0
              <=> \A c \in First(n) : c[1] = d => is[c] = should[c]
<1> DEFINE D == {c \in First(n) : c[1] = d /\ is[c] # should[c]}
<1>1. IsFiniteSet(D)
  BY FirstFinite, FS_Subset
<1>2. Cardinality(D) \in Nat /\ (Cardinality(D) = 0 <=> D = {})
  BY <1>1, FS_CardinalityType, FS_EmptySet
<1> QED
  BY <1>2 DEF Differing

(***************************************************************************)
(* The invariant.  The words of a DPU that a send delivered wrongly stay   *)
(* the words that differ from what should be there, tagged or not.         *)
(***************************************************************************)
Expected(c) == expected_value(c[1], c[2], seed)
Should(c) == IF c[2] < base[c[1]] THEN Tagged(Expected(c), c[1], c[2]) ELSE Expected(c)

Bad(d) == {c \in First(n_elems) : c[1] = d /\ mram[c] # Should(c)}
Found(d) == {c \in Bad(d) : c[2] < base[d]}

Variables == [DPU_ID : Int, TEST_SEED : Int, TEST_SIZE : Int, ERROR_COUNT : Nat]

Types ==
    /\ pc \in {"info", "test_wram", "next", "send", "run", "errors"}
    /\ test \in 0 .. Len(Sizes)
    /\ bufs \in Memories /\ mram \in Memories
    /\ wram \in [Dpus -> Variables]
    /\ base \in [Dpus -> Nat] /\ errors \in [Dpus -> Nat]
    /\ host \in [Dpus -> Nat] /\ wrong \in [Dpus -> Nat]

\* The DPUs know what the host told them, and the buffers what it expects.
Told ==
    /\ pc \in {"info", "test_wram"} => test = 0
    /\ pc \notin {"info", "test_wram"} => \A d \in Dpus : wram[d].DPU_ID = d
    /\ pc \in {"send", "run", "errors"} =>
          /\ test \in 1 .. Len(Sizes)
          /\ \A d \in Dpus : wram[d].TEST_SEED = seed /\ wram[d].TEST_SIZE = n_elems
          /\ \A c \in First(n_elems) : bufs[c] = Expected(c)

\* Every DPU has counted the wrong words it has come by, and tagged its words itself.
Counted ==
    pc \in {"run", "errors"} =>
        /\ \A d \in Dpus : wrong[d] = Cardinality(Bad(d)) /\ errors[d] = Cardinality(Found(d))
        /\ \A c \in First(n_elems) : c[2] < base[c[1]] =>
              \E v \in Values : mram[c] = Tagged(v, c[1], c[2])

Reported ==
    pc = "errors" => \A d \in Dpus : base[d] >= n_elems /\ wram[d].ERROR_COUNT = errors[d]

IInv == Types /\ Told /\ Counted /\ Reported /\ HostTells

LEMMA InitHolds == Init => IInv
<1>1. NotExpected \in Values
  BY NotExpectedIs
<1>2. ASSUME Init PROVE Types
  BY <1>1, <1>2, ExampleAssumption DEF Init, Types, Memories, Variables
<1> QED
  BY <1>2, ExampleAssumption DEF Init, IInv, Told, Counted, Reported, HostTells

\* The values a test speaks about.
LEMMA TestIs ==
  ASSUME test \in 1 .. Len(Sizes)
  PROVE  /\ n_elems \in Nat \ {0} /\ seed \in Int
         /\ 0 .. n_elems - 1 \subseteq Words
         /\ \A c \in Cells : Expected(c) \in Values /\ Expected(c).dpu = c[1]
<1>1. n_elems \in Nat \ {0} /\ 0 .. n_elems - 1 \subseteq Words
  BY SizeIs DEF n_elems
<1>2. seed \in Int
  BY <1>1 DEF seed
<1>3. ASSUME NEW c \in Cells PROVE Expected(c) \in Values /\ Expected(c).dpu = c[1]
  <2>1. c[1] \in Int /\ c[2] \in Int
    BY CellIs
  <2> QED
    BY <1>2, <2>1, ExpectedType DEF Expected, expected_value
<1> QED
  BY <1>1, <1>2, <1>3

LEMMA OverIs ==
  ASSUME NEW S \in SUBSET Cells, NEW new \in [S -> Values], NEW old \in Memories
  PROVE  /\ Over(new, old) \in Memories
         /\ \A c \in Cells : Over(new, old)[c] = IF c \in S THEN new[c] ELSE old[c]
BY DEF Over, Memories

(***************************************************************************)
(* Steps.                                                                  *)
(***************************************************************************)
LEMMA InfoKeeps ==
  ASSUME IInv, PrintInfo \/ TestWRAM PROVE IInv'
<1>1. CASE PrintInfo
  BY <1>1 DEF PrintInfo, Step, IInv, Types, Told, Counted, Reported, HostTells
<1>2. CASE TestWRAM
  <2>1. PICK got \in Delivered([c \in Dpus \X {0} |-> c[1]], [c \in Dpus \X {0} |-> -1]) :
          host' = [d \in Dpus |-> Differing(d, Dpus \X {0}, got, [c \in Dpus \X {0} |-> c[1]])]
    BY <1>2 DEF TestWRAM
  <2>2. /\ pc = "test_wram" /\ pc' = "next" /\ UNCHANGED <<test, bufs, mram, base, errors, wrong>>
        /\ wram' = [d \in Dpus |-> [wram[d] EXCEPT !.DPU_ID = d]]
    BY <1>2 DEF TestWRAM, Step
  <2>3. host' \in [Dpus -> Nat]
    <3>1. IsFiniteSet(Dpus \X {0})
      <4>1. IsFiniteSet(Dpus)
        <5>1. 0 \in Int /\ NrDpus - 1 \in Int
          BY ExampleAssumption
        <5> QED
          BY <5>1, FS_Interval, Zenon DEF Dpus
      <4> QED
        BY <4>1, FS_Singleton, FS_Product
    <3>2. ASSUME NEW d \in Dpus
          PROVE  Differing(d, Dpus \X {0}, got, [c \in Dpus \X {0} |-> c[1]]) \in Nat
      BY <3>1, FS_Subset, FS_CardinalityType DEF Differing
    <3> QED
      BY <2>1, <3>2
  <2>4. wram' \in [Dpus -> Variables] /\ \A d \in Dpus : wram'[d].DPU_ID = d
    <3>1. Dpus \subseteq Int
      BY ExampleAssumption DEF Dpus
    <3> QED
      BY <2>2, <3>1 DEF IInv, Types, Variables
  <2>5. test = 0
    BY <2>2 DEF IInv, Told
  <2> QED
    BY <2>2, <2>3, <2>4, <2>5 DEF IInv, Types, Told, Counted, Reported, HostTells
<1> QED
  BY <1>1, <1>2

LEMMA FillKeeps ==
  ASSUME IInv, FillAndTell PROVE IInv'
<1>1. /\ pc = "next" /\ pc' = "send" /\ test < Len(Sizes) /\ test' = test + 1
      /\ bufs' = [c \in Cells |-> IF c[2] < n_elems' THEN expected_value(c[1], c[2], seed')
                                  ELSE NotExpected]
      /\ wram' = [d \in Dpus |-> [wram[d] EXCEPT !.TEST_SEED = seed', !.TEST_SIZE = n_elems']]
      /\ UNCHANGED <<mram, base, errors, host, wrong>>
  BY DEF FillAndTell, Step
<1>2. test' \in 1 .. Len(Sizes)
  <2>1. test \in 0 .. Len(Sizes) /\ Len(Sizes) \in Nat
    BY ExampleAssumption DEF IInv, Types
  <2>2. test < Len(Sizes) /\ test' = test + 1
    BY DEF FillAndTell
  <2> QED
    BY <2>1, <2>2
<1>3. /\ n_elems' \in Nat \ {0} /\ seed' \in Int
      /\ \A c \in Cells : Expected(c)' \in Values
  <2>1. n_elems' \in Nat \ {0}
    BY <1>2, SizeIs DEF n_elems
  <2>2. seed' \in Int
    BY <2>1 DEF seed
  <2>3. ASSUME NEW c \in Cells PROVE Expected(c)' \in Values
    <3>1. c[1] \in Int /\ c[2] \in Int
      BY CellIs
    <3> QED
      BY <2>2, <3>1, ExpectedType DEF Expected
  <2> QED
    BY <2>1, <2>2, <2>3
<1>4. bufs' \in Memories
  BY <1>1, <1>3, NotExpectedIs DEF Memories, Expected
<1>5. \A c \in First(n_elems)' : bufs'[c] = Expected(c)'
  BY <1>1 DEF First, Expected
<1>6. /\ wram' \in [Dpus -> Variables]
      /\ \A d \in Dpus : wram'[d].TEST_SEED = seed' /\ wram'[d].TEST_SIZE = n_elems'
      /\ \A d \in Dpus : wram'[d].DPU_ID = wram[d].DPU_ID
  <2> DEFINE m == n_elems'
             t == seed'
  <2>1. wram' = [d \in Dpus |-> [wram[d] EXCEPT !.TEST_SEED = t, !.TEST_SIZE = m]]
    BY <1>1
  <2>2. m \in Int /\ t \in Int /\ wram \in [Dpus -> Variables]
    BY <1>3 DEF IInv, Types
  <2> HIDE DEF m, t
  <2>3. /\ wram' \in [Dpus -> Variables]
        /\ \A d \in Dpus : /\ wram'[d].TEST_SEED = t /\ wram'[d].TEST_SIZE = m
                           /\ wram'[d].DPU_ID = wram[d].DPU_ID
    BY <2>1, <2>2 DEF Variables
  <2> QED
    BY <2>3 DEF m, t
<1>7. \A d \in Dpus : wram[d].DPU_ID = d
  BY <1>1 DEF IInv, Told
<1>8. Types'
  <2>1. test' \in 0 .. Len(Sizes)
    BY <1>2
  <2> QED
    BY <1>1, <1>4, <1>6, <2>1 DEF IInv, Types
<1>9. Told'
  <2>1. \A d \in Dpus : wram'[d].DPU_ID = d
    BY <1>6, <1>7
  <2> QED
    BY <1>1, <1>2, <1>5, <1>6, <2>1, Zenon DEF Told
<1> QED
  BY <1>1, <1>8, <1>9 DEF IInv, Counted, Reported, HostTells

LEMMA SendKeeps ==
  ASSUME IInv, SendHeap PROVE IInv'
<1> DEFINE n == n_elems
<1>1. /\ pc = "send" /\ pc' = "run"
      /\ base' = [d \in Dpus |-> 0] /\ errors' = [d \in Dpus |-> 0]
      /\ UNCHANGED <<test, bufs, wram, host>>
  BY DEF SendHeap, Step
<1>2. PICK got \in Delivered(Only(n, bufs), Only(n, mram)) :
        /\ mram' = Over(got, mram)
        /\ wrong' = [d \in Dpus |-> Differing(d, First(n), got, bufs)]
  BY DEF SendHeap
<1>3. /\ test \in 1 .. Len(Sizes) /\ bufs \in Memories /\ mram \in Memories
      /\ \A c \in First(n) : bufs[c] = Expected(c)
  BY <1>1 DEF IInv, Types, Told
<1>4. n \in Nat
  BY <1>3, TestIs
<1>5. First(n) \in SUBSET Cells
  BY DEF First
<1>6. got \in [First(n) -> Values]
  <2>1. Only(n, bufs) \in [First(n) -> Values] /\ Only(n, mram) \in [First(n) -> Values]
    BY <1>3, <1>5 DEF Only, Memories
  <2> HIDE DEF n
  <2> QED
    BY <1>2, <1>4, <2>1, DeliveredIs
<1>7. mram' \in Memories /\ \A c \in First(n) : mram'[c] = got[c]
  <2> HIDE DEF n
  <2>1. /\ Over(got, mram) \in Memories
        /\ \A c \in Cells : Over(got, mram)[c] = IF c \in First(n) THEN got[c] ELSE mram[c]
    BY <1>3, <1>5, <1>6, OverIs
  <2> QED
    BY <1>2, <1>5, <2>1
<1>8. wrong' \in [Dpus -> Nat]
  <2> HIDE DEF n
  <2> QED
    BY <1>2, <1>4, DifferingIs
<1>9. n_elems' = n_elems /\ seed' = seed
  BY <1>1 DEF n_elems, seed
<1>10. \A c \in First(n) : Should(c)' = Expected(c)
  BY <1>1, <1>5, <1>9, CellIs DEF Should, Expected
<1>11. ASSUME NEW d \in Dpus
       PROVE  /\ wrong'[d] = Cardinality(Bad(d)')
              /\ errors'[d] = Cardinality(Found(d)')
  <2>1. Bad(d)' = {c \in First(n) : c[1] = d /\ got[c] # bufs[c]}
    BY <1>3, <1>7, <1>9, <1>10 DEF Bad
  <2>2. Found(d)' = {}
    BY <1>1, <1>5, <2>1, CellIs DEF Found
  <2>3. Cardinality({}) = 0
    BY FS_EmptySet
  <2>4. wrong'[d] = Cardinality({c \in First(n) : c[1] = d /\ got[c] # bufs[c]})
    BY <1>2 DEF Differing
  <2>5. errors'[d] = 0
    BY <1>1
  <2> QED
    BY <2>1, <2>2, <2>3, <2>4, <2>5
<1>12. \A c \in First(n) : ~(c[2] < base'[c[1]])
  BY <1>1, <1>5, CellIs
<1>13. Types'
  BY <1>1, <1>3, <1>7, <1>8 DEF IInv, Types
<1>14. Told'
  BY <1>1, <1>3, <1>9 DEF IInv, Told, Expected
<1>15. Counted'
  BY <1>9, <1>11, <1>12 DEF Counted
<1> QED
  BY <1>1, <1>13, <1>14, <1>15 DEF IInv, Reported, HostTells

\* The words of a chunk are those between this round's base and the next.
LEMMA ChunkIs ==
  ASSUME IInv, NEW d \in Dpus, pc = "run", base[d] < wram[d].TEST_SIZE
  PROVE  /\ {<<d, j>> : j \in base[d] .. ChunkEnd(d) - 1} \subseteq First(n_elems)
         /\ \A c \in First(n_elems) :
              c \in {<<d, j>> : j \in base[d] .. ChunkEnd(d) - 1}
                <=> c[1] = d /\ c[2] >= base[d] /\ c[2] < base[d] + Chunk
<1>1. /\ wram[d].TEST_SIZE = n_elems /\ n_elems \in Nat \ {0} /\ 0 .. n_elems - 1 \subseteq Words
      /\ base[d] \in Nat /\ Chunk \in Nat \ {0}
  BY TestIs, ExampleAssumption DEF IInv, Types, Told
<1>2. \A j \in Int : j \in base[d] .. ChunkEnd(d) - 1
                       <=> j >= base[d] /\ j < base[d] + Chunk /\ j < n_elems
  BY <1>1 DEF ChunkEnd
<1>3. ASSUME NEW j \in base[d] .. ChunkEnd(d) - 1
      PROVE  <<d, j>> \in First(n_elems)
  <2>1. j \in 0 .. n_elems - 1
    BY <1>1, <1>2
  <2>2. j \in Words /\ j < n_elems
    BY <1>1, <2>1
  <2> QED
    BY <2>2 DEF First, Cells
<1>4. ASSUME NEW c \in First(n_elems), c[1] = d, c[2] >= base[d], c[2] < base[d] + Chunk
      PROVE  c \in {<<d, j>> : j \in base[d] .. ChunkEnd(d) - 1}
  <2>1. c = <<d, c[2]>> /\ c[2] \in Nat /\ c[2] < n_elems
    BY <1>4, CellIs DEF First
  <2>2. c[2] \in base[d] .. ChunkEnd(d) - 1
    BY <1>2, <1>4, <2>1
  <2> QED
    BY <2>1, <2>2
<1>5. ASSUME NEW c \in First(n_elems), c \in {<<d, j>> : j \in base[d] .. ChunkEnd(d) - 1}
      PROVE  c[1] = d /\ c[2] >= base[d] /\ c[2] < base[d] + Chunk
  BY <1>2, <1>5
<1> QED
  BY <1>3, <1>4, <1>5

LEMMA VerifyKeeps ==
  ASSUME IInv, NEW d \in Dpus, verify_and_modify(d) PROVE IInv'
<1> DEFINE n == n_elems
           chunk == {<<d, j>> : j \in base[d] .. ChunkEnd(d) - 1}
           exp == [c \in chunk |-> expected_value(wram[d].DPU_ID, c[2], wram[d].TEST_SEED)]
           tagged == [c \in chunk |-> Tagged(mram[c], wram[d].DPU_ID, c[2])]
           new == {c \in chunk : c[1] = d /\ mram[c] # exp[c]}
<1>1. /\ pc = "run" /\ base[d] < wram[d].TEST_SIZE
      /\ errors' = [errors EXCEPT ![d] = @ + Differing(d, chunk, mram, exp)]
      /\ mram' = Over(tagged, mram)
      /\ base' = [base EXCEPT ![d] = @ + Chunk]
      /\ UNCHANGED <<pc, test, bufs, wram, host, wrong>>
  BY DEF verify_and_modify
<1>2. /\ test \in 1 .. Len(Sizes) /\ mram \in Memories
      /\ base \in [Dpus -> Nat] /\ errors \in [Dpus -> Nat] /\ wrong \in [Dpus -> Nat]
      /\ wram[d].DPU_ID = d /\ wram[d].TEST_SEED = seed
  BY <1>1 DEF IInv, Types, Told
<1>3. n \in Nat /\ \A c \in Cells : Expected(c) \in Values
  BY <1>2, TestIs
<1>4. /\ chunk \subseteq First(n) /\ First(n) \subseteq Cells
      /\ \A c \in First(n) : c \in chunk <=> c[1] = d /\ c[2] >= base[d] /\ c[2] < base[d] + Chunk
  <2>1. First(n) \subseteq Cells
    BY DEF First
  <2> QED
    BY <1>1, <2>1, ChunkIs
<1>5. base'[d] = base[d] + Chunk /\ base' \in [Dpus -> Nat]
      /\ \A e \in Dpus : e # d => base'[e] = base[e]
  BY <1>1, <1>2, ExampleAssumption
<1>6. n_elems' = n_elems /\ seed' = seed /\ First(n)' = First(n)
  BY <1>1 DEF n_elems, seed
<1>7. ASSUME NEW c \in chunk
      PROVE  /\ c \in Cells /\ c[1] = d /\ exp[c] = Expected(c) /\ mram[c] \in Values
             /\ tagged[c] = Tagged(mram[c], c[1], c[2]) /\ tagged[c] \in Values
             /\ (tagged[c] = Tagged(Expected(c), c[1], c[2]) <=> mram[c] = Expected(c))
  <2>1. c \in Cells /\ c[1] = d
    BY <1>4
  <2>2. mram[c] \in Values /\ Expected(c) \in Values /\ c[1] \in Int /\ c[2] \in Int
    BY <1>2, <1>3, <2>1, CellIs DEF Memories
  <2>3. exp[c] = Expected(c) /\ tagged[c] = Tagged(mram[c], c[1], c[2])
    BY <1>2, <2>1 DEF Expected
  <2>4. Tagged(mram[c], c[1], c[2]) \in Values
    BY <2>2, TaggedIs
  <2>5. Tagged(mram[c], c[1], c[2]) = Tagged(Expected(c), c[1], c[2]) => mram[c] = Expected(c)
    BY <2>2, TaggedInjective
  <2> HIDE DEF exp, tagged, chunk
  <2> QED
    BY <2>1, <2>2, <2>3, <2>4, <2>5
<1>8. /\ mram' \in Memories
      /\ \A c \in Cells : mram'[c] = IF c \in chunk THEN tagged[c] ELSE mram[c]
  <2>1. tagged \in [chunk -> Values] /\ chunk \in SUBSET Cells
    BY <1>4, <1>7
  <2> HIDE DEF tagged, chunk
  <2>2. /\ Over(tagged, mram) \in Memories
        /\ \A c \in Cells : Over(tagged, mram)[c] = IF c \in chunk THEN tagged[c] ELSE mram[c]
    BY <1>2, <2>1 DEF Over, Memories
  <2> QED
    BY <1>1, <2>2
\* What was wrong is wrong, what was right is right.
<1>9. ASSUME NEW c \in First(n)
      PROVE  mram'[c] = Should(c)' <=> mram[c] = Should(c)
  <2>0. Expected(c)' = Expected(c) /\ Should(c)' = IF c[2] < base'[c[1]] THEN Tagged(Expected(c), c[1], c[2]) ELSE Expected(c)
    BY <1>6 DEF Expected, Should
  <2>1. c \in Cells /\ c[1] \in Dpus /\ c[2] \in Nat /\ base[c[1]] \in Nat /\ Chunk \in Nat \ {0}
    BY <1>2, <1>4, CellIs, ExampleAssumption
  <2>2. CASE c \in chunk
    <3>1. mram'[c] = tagged[c] /\ Should(c) = Expected(c)
      BY <1>4, <1>8, <2>1, <2>2 DEF Should
    <3>2. Should(c)' = Tagged(Expected(c), c[1], c[2])
      BY <1>4, <1>5, <2>0, <2>1, <2>2
    <3> HIDE DEF tagged, chunk
    <3> QED
      BY <1>7, <2>2, <3>1, <3>2
  <2>3. CASE c \notin chunk
    <3>1. mram'[c] = mram[c]
      BY <1>8, <2>1, <2>3
    <3>2. c[2] < base'[c[1]] <=> c[2] < base[c[1]]
      BY <1>4, <1>5, <2>1, <2>3
    <3> QED
      BY <2>0, <3>1, <3>2 DEF Should
  <2> QED
    BY <2>2, <2>3
<1>10. \A e : Bad(e)' = Bad(e)
  BY <1>6, <1>9 DEF Bad
<1>11. \A e \in Dpus : e # d => Found(e)' = Found(e)
  BY <1>5, <1>10 DEF Found
<1>12. Found(d)' = Found(d) \cup new /\ Found(d) \cap new = {}
  <2>1. ASSUME NEW c \in First(n), c[1] = d
        PROVE  /\ c[2] \in Nat
               /\ c[2] < base'[d] <=> c[2] < base[d] \/ c \in chunk
               /\ c \in chunk => ~(c[2] < base[d]) /\ exp[c] = Should(c)
    <3>1. c[2] \in Nat /\ base[d] \in Nat /\ Chunk \in Nat \ {0} /\ c \in Cells
      BY <1>2, <1>4, CellIs, ExampleAssumption
    <3>2. c \in chunk <=> c[2] >= base[d] /\ c[2] < base[d] + Chunk
      BY <1>4, <2>1
    <3>3. c \in chunk => exp[c] = Expected(c)
      BY <1>7
    <3> HIDE DEF chunk, exp
    <3> QED
      BY <1>5, <2>1, <3>1, <3>2, <3>3 DEF Should
  <2> HIDE DEF chunk, exp
  <2>2. Found(d)' = {c \in Bad(d) : c[2] < base'[d]}
    BY <1>10 DEF Found
  <2>3. chunk \subseteq First(n)
    BY <1>4
  <2> QED
    BY <2>1, <2>2, <2>3 DEF Found, Bad
<1>13. errors'[d] = Cardinality(Found(d)') /\ errors' \in [Dpus -> Nat]
  <2>1. IsFiniteSet(First(n))
    BY <1>3, FirstFinite
  <2> DEFINE found == Found(d)
  <2>2. new \subseteq First(n) /\ found \subseteq First(n)
    BY <1>4 DEF Found, Bad
  <2>3. Differing(d, chunk, mram, exp) = Cardinality(new) /\ errors[d] = Cardinality(found)
    BY <1>1 DEF Differing, IInv, Counted
  <2>4. Found(d)' = found \cup new /\ found \cap new = {}
    BY <1>12
  <2> HIDE DEF new, found, n
  <2>5. IsFiniteSet(new) /\ IsFiniteSet(found)
    BY <2>1, <2>2, FS_Subset
  <2>6. Cardinality(found \cup new) = Cardinality(found) + Cardinality(new) - Cardinality({})
    BY <2>4, <2>5, FS_Union
  <2>7. Cardinality({}) = 0 /\ Cardinality(found) \in Nat /\ Cardinality(new) \in Nat
    BY <2>5, FS_EmptySet, FS_CardinalityType
  <2>8. errors' = [errors EXCEPT ![d] = @ + Cardinality(new)]
    BY <1>1, <2>3
  <2> QED
    BY <1>2, <2>3, <2>4, <2>6, <2>7, <2>8
<1>14. ASSUME NEW e \in Dpus
       PROVE  wrong'[e] = Cardinality(Bad(e)') /\ errors'[e] = Cardinality(Found(e)')
  <2>1. wrong[e] = Cardinality(Bad(e)) /\ errors[e] = Cardinality(Found(e))
    BY <1>1 DEF IInv, Counted
  <2>2. e # d => errors'[e] = errors[e]
    BY <1>1, <1>2
  <2>3. wrong' = wrong
    BY <1>1
  <2> QED
    BY <1>10, <1>11, <1>13, <2>1, <2>2, <2>3
<1>15. ASSUME NEW c \in First(n), c[2] < base'[c[1]]
       PROVE  \E v \in Values : mram'[c] = Tagged(v, c[1], c[2])
  <2>1. c \in Cells /\ c[1] \in Dpus /\ c[2] \in Nat /\ base[c[1]] \in Nat /\ Chunk \in Nat \ {0}
    BY <1>2, <1>4, CellIs, ExampleAssumption
  <2>2. CASE c \in chunk
    <3>1. mram'[c] = tagged[c]
      BY <1>8, <2>1, <2>2
    <3> HIDE DEF tagged, chunk
    <3> QED
      BY <1>7, <2>2, <3>1
  <2>3. CASE c \notin chunk
    <3>1. mram'[c] = mram[c]
      BY <1>8, <2>1, <2>3
    <3>2. c[2] < base[c[1]]
      BY <1>4, <1>5, <1>15, <2>1, <2>3
    <3>3. \E v \in Values : mram[c] = Tagged(v, c[1], c[2])
      BY <1>1, <3>2 DEF IInv, Counted
    <3> QED
      BY <3>1, <3>3
  <2> QED
    BY <2>2, <2>3
<1>16. Types'
  BY <1>1, <1>5, <1>8, <1>13 DEF IInv, Types
<1>17. Told'
  BY <1>1, <1>6 DEF IInv, Told, Expected
<1>18. Counted'
  BY <1>6, <1>14, <1>15 DEF Counted
<1> QED
  BY <1>1, <1>16, <1>17, <1>18 DEF IInv, Reported, HostTells

LEMMA LaunchedKeeps ==
  ASSUME IInv, Launched PROVE IInv'
<1>1. /\ pc = "run" /\ pc' = "errors"
      /\ \A d \in Dpus : base[d] >= wram[d].TEST_SIZE
      /\ wram' = [d \in Dpus |-> [wram[d] EXCEPT !.ERROR_COUNT = errors[d]]]
      /\ UNCHANGED <<test, bufs, mram, base, errors, host, wrong>>
  BY DEF Launched, Step
<1>2. wram \in [Dpus -> Variables] /\ errors \in [Dpus -> Nat]
  BY DEF IInv, Types
<1>3. /\ wram' \in [Dpus -> Variables]
      /\ \A d \in Dpus : /\ wram'[d].ERROR_COUNT = errors[d]
                         /\ wram'[d].DPU_ID = wram[d].DPU_ID
                         /\ wram'[d].TEST_SEED = wram[d].TEST_SEED
                         /\ wram'[d].TEST_SIZE = wram[d].TEST_SIZE
  BY <1>1, <1>2 DEF Variables
<1>4. n_elems' = n_elems /\ seed' = seed
  BY <1>1 DEF n_elems, seed
<1>5. Types'
  BY <1>1, <1>3 DEF IInv, Types
<1>6. Told'
  BY <1>1, <1>3, <1>4 DEF IInv, Told, First, Expected
<1>7. Counted'
  <2>1. \A c : Should(c)' = Should(c)
    BY <1>1, <1>4 DEF Should, Expected
  <2>2. \A d : Bad(d)' = Bad(d) /\ Found(d)' = Found(d)
    BY <1>1, <1>4, <2>1 DEF Bad, Found, First
  <2> QED
    BY <1>1, <1>4, <2>2 DEF IInv, Counted, First
<1>8. Reported'
  BY <1>1, <1>3, <1>4 DEF IInv, Told, Reported
<1> QED
  BY <1>1, <1>5, <1>6, <1>7, <1>8 DEF IInv, HostTells

\* Only the DPU's own tagged words, come back to their own buffer, are what the host
\* expects there.
LEMMA ReceiveKeeps ==
  ASSUME IInv, ReceiveHeap PROVE IInv'
<1> DEFINE n == n_elems
           cleared == [c \in First(n) |-> NotExpected]
           exp == [c \in First(n) |-> Tagged(expected_value(c[1], c[2], seed), c[1], c[2])]
<1>1. /\ pc = "errors" /\ pc' = "next"
      /\ UNCHANGED <<test, mram, wram, base, errors, wrong>>
  BY DEF ReceiveHeap, Step
<1>2. PICK got \in Delivered(Only(n, mram), cleared) :
        /\ bufs' = Over(got, bufs)
        /\ host' = [d \in Dpus |-> Differing(d, First(n), got, exp)]
  BY DEF ReceiveHeap
<1>3. /\ test \in 1 .. Len(Sizes) /\ bufs \in Memories /\ mram \in Memories
      /\ base \in [Dpus -> Nat]
  BY <1>1 DEF IInv, Types, Told
<1>4. n \in Nat /\ \A c \in Cells : Expected(c) \in Values /\ Expected(c).dpu = c[1]
  BY <1>3, TestIs
<1>5. First(n) \in SUBSET Cells
  BY DEF First
<1>6. /\ Only(n, mram) \in [First(n) -> Values] /\ cleared \in [First(n) -> Values]
      /\ \A c \in First(n) : Only(n, mram)[c] = mram[c] /\ cleared[c] = NotExpected
  BY <1>3, <1>5, NotExpectedIs DEF Only, Memories
<1>7. /\ got \in [First(n) -> Values]
      /\ \A c \in First(n) : got[c] = NotExpected \/ \E e \in Dpus :
            <<e, c[2]>> \in First(n) /\ got[c] = mram[<<e, c[2]>>]
  <2>1. /\ got \in [First(n) -> Values]
        /\ \A c \in First(n) : got[c] = cleared[c] \/ \E e \in Dpus :
              <<e, c[2]>> \in First(n) /\ got[c] = Only(n, mram)[<<e, c[2]>>]
    <3> HIDE DEF n, cleared
    <3> QED
      BY <1>2, <1>4, <1>6, DeliveredIs
  <2> HIDE DEF n, cleared
  <2> QED
    BY <1>6, <2>1
<1>8. bufs' \in Memories /\ \A c \in First(n) : bufs'[c] = got[c]
  <2> HIDE DEF n
  <2> QED
    BY <1>2, <1>3, <1>5, <1>7 DEF Over, Memories
<1>9. host' \in [Dpus -> Nat]
  <2> HIDE DEF n, exp
  <2> QED
    BY <1>2, <1>4, DifferingIs
<1>10. \A c \in First(n) : c[1] \in Dpus /\ base[c[1]] >= n /\ base[c[1]] \in Nat /\ c[2] < n
                          /\ c[2] \in Nat /\ c \in Cells
  BY <1>1, <1>3, <1>5, CellIs DEF IInv, Reported, First
<1>11. ASSUME NEW c \in First(n)
       PROVE  /\ exp[c] = Tagged(Expected(c), c[1], c[2]) /\ Should(c) = exp[c]
              /\ \E v \in Values : mram[c] = Tagged(v, c[1], c[2])
  <2>1. c[2] < base[c[1]]
    <3> HIDE DEF n
    <3>1. c[2] \in Nat /\ base[c[1]] \in Nat /\ c[2] < n /\ base[c[1]] >= n
      BY <1>10
    <3> QED
      BY <1>4, <3>1
  <2>2. \E v \in Values : mram[c] = Tagged(v, c[1], c[2])
    BY <1>1, <2>1 DEF IInv, Counted
  <2> QED
    BY <2>1, <2>2 DEF Should, Expected
<1>12. ASSUME NEW c \in First(n), got[c] = exp[c]
       PROVE  got[c] = mram[c]
  <2>1. /\ c \in Cells /\ c = <<c[1], c[2]>> /\ c[1] \in Int /\ c[2] \in Int /\ c[1] \in Dpus
        /\ Expected(c) \in Values /\ Expected(c).dpu = c[1]
    BY <1>4, <1>10, CellIs
  <2>2. Tagged(Expected(c), c[1], c[2]).dpu = c[1]
    BY <2>1, TaggedIs
  <2>3. got[c] # NotExpected
    BY <1>11, <1>12, <2>1, <2>2, NotExpectedIs
  <2>4. PICK e \in Dpus : <<e, c[2]>> \in First(n) /\ got[c] = mram[<<e, c[2]>>]
    BY <1>7, <2>3
  <2>5. PICK v \in Values : mram[<<e, c[2]>>] = Tagged(v, e, c[2])
    BY <1>11, <2>4
  <2>6. e \in Int
    BY ExampleAssumption DEF Dpus
  <2>7. e = c[1]
    <3>1. Tagged(v, e, c[2]) = Tagged(Expected(c), c[1], c[2])
      BY <1>11, <1>12, <2>4, <2>5
    <3> QED
      BY <2>1, <2>6, <3>1, TaggedInjective
  <2> QED
    BY <2>1, <2>4, <2>7
<1>13. ASSUME NEW d \in Dpus
       PROVE  host'[d] = 0 <=> wrong[d] = 0 /\ \A c \in First(n) : c[1] = d => bufs'[c] = mram[c]
  <2>1. host'[d] = 0 <=> \A c \in First(n) : c[1] = d => got[c] = exp[c]
    <3>1. host'[d] = Differing(d, First(n), got, exp)
      BY <1>2
    <3> HIDE DEF n, exp
    <3> QED
      BY <1>4, <3>1, DifferingIs
  <2>2. wrong[d] = 0 <=> \A c \in First(n) : c[1] = d => mram[c] = exp[c]
    <3>1. wrong[d] = Cardinality(Bad(d))
      BY <1>1 DEF IInv, Counted
    <3>2. Bad(d) = {c \in First(n) : c[1] = d /\ mram[c] # exp[c]}
      BY <1>11 DEF Bad
    <3> HIDE DEF n, exp
    <3>3. IsFiniteSet(Bad(d))
      BY <1>4, <3>2, FirstFinite, FS_Subset
    <3>4. Cardinality(Bad(d)) = 0 <=> Bad(d) = {}
      BY <3>3, FS_EmptySet
    <3> QED
      BY <3>1, <3>2, <3>4
  <2> HIDE DEF n, exp
  <2> QED
    BY <1>8, <1>12, <2>1, <2>2
<1>14. n_elems' = n_elems /\ First(n_elems)' = First(n_elems)
  BY <1>1 DEF n_elems
<1>15. HostTells'
  BY <1>1, <1>13, <1>14 DEF HostTells
<1>16. Types'
  BY <1>1, <1>8, <1>9 DEF IInv, Types
<1>17. Told'
  BY <1>1 DEF IInv, Told
<1> QED
  BY <1>1, <1>15, <1>16, <1>17 DEF IInv, Counted, Reported

LEMMA StepHolds == IInv /\ [Next]_vars => IInv'
<1> SUFFICES ASSUME IInv, [Next]_vars PROVE IInv'
  OBVIOUS
<1>1. CASE UNCHANGED vars
  <2>1. /\ UNCHANGED <<pc, test, bufs, mram, wram, base, errors, host, wrong>>
        /\ n_elems' = n_elems /\ seed' = seed
    BY <1>1 DEF vars, n_elems, seed
  <2>2. \A c : Should(c)' = Should(c) /\ Expected(c)' = Expected(c)
    BY <2>1 DEF Should, Expected
  <2>3. \A d : Bad(d)' = Bad(d) /\ Found(d)' = Found(d)
    BY <2>1, <2>2 DEF Bad, Found, First
  <2>4. Types' /\ Told'
    BY <2>1, <2>2 DEF IInv, Types, Told, First
  <2>5. Counted' /\ Reported' /\ HostTells'
    BY <2>1, <2>3 DEF IInv, Counted, Reported, HostTells, First
  <2> QED
    BY <2>4, <2>5 DEF IInv
<1>2. CASE PrintInfo \/ TestWRAM
  BY <1>2, InfoKeeps
<1>3. CASE FillAndTell
  BY <1>3, FillKeeps
<1>4. CASE SendHeap
  BY <1>4, SendKeeps
<1>5. CASE \E d \in Dpus : verify_and_modify(d)
  BY <1>5, VerifyKeeps
<1>6. CASE Launched
  BY <1>6, LaunchedKeeps
<1>7. CASE ReceiveHeap
  BY <1>7, ReceiveKeeps
<1>8. CASE Ended
  BY <1>1, <1>8 DEF Ended
<1> QED
  BY <1>1, <1>2, <1>3, <1>4, <1>5, <1>6, <1>7, <1>8 DEF Next

\* The invariant holds, for any DPUs, sizes and chunks.
THEOREM Invariance == Spec => []IInv
<1>1. IInv /\ UNCHANGED vars => IInv'
  BY StepHolds
<1> QED
  BY InitHolds, StepHolds, <1>1, PTL DEF Spec

\* ERROR_COUNT is the number of words the send delivered wrongly (dpu.c 26-63).
THEOREM CountsAreRight == Spec => []ErrorCountIsRight
<1>1. IInv => ErrorCountIsRight
  <2> SUFFICES ASSUME IInv, pc = "errors", NEW d \in Dpus
               PROVE  wram[d].ERROR_COUNT = wrong[d]
    BY DEF ErrorCountIsRight
  <2>1. /\ wram[d].ERROR_COUNT = Cardinality(Found(d)) /\ wrong[d] = Cardinality(Bad(d))
        /\ base[d] >= n_elems /\ base[d] \in Nat /\ n_elems \in Nat
    BY TestIs DEF IInv, Types, Told, Counted, Reported
  <2>2. \A c \in First(n_elems) : c[2] < base[d]
    BY <2>1, CellIs DEF First
  <2>3. Found(d) = Bad(d)
    BY <2>2 DEF Found, Bad
  <2> QED
    BY <2>1, <2>3
<1> QED
  BY <1>1, Invariance, PTL

\* The host's comparison tells right from wrong transfers (host.cpp 110-135).
THEOREM ComparisonTells == Spec => []HostTells
<1>1. IInv => HostTells
  BY DEF IInv
<1> QED
  BY <1>1, Invariance, PTL
=============================================================================
