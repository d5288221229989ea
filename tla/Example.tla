------------------------------ MODULE Example ------------------------------
(***************************************************************************)
(* The correctness tests of the examples: host.cpp and the DPU program     *)
(* dpu.c, over direct transfers that may deliver wrongly.  What goes       *)
(* through the SDK (DPU_ID, TEST_SEED, TEST_SIZE, launches) is trusted;    *)
(* a direct transfer may exchange the buffers of DPUs and leave any words  *)
(* as they were, and none, some or all of those of a test may do so.       *)
(*                                                                         *)
(* expected_value is taken to be injective, and a sum to tell what was     *)
(* added: a value is a record of where it comes from and of its tags.      *)
(***************************************************************************)
EXTENDS Integers, Sequences, FiniteSets, Functions

CONSTANTS NrDpus,       \* nr_dpus
          Sizes,        \* test_sizes, in words
          Chunk,        \* words of the DPU program's buf
          Faulty        \* may direct transfers go wrong

VARIABLES pc,           \* where host.cpp is
          test,         \* the test of test_sizes, 0 before the first
          bufs,         \* <<DPU, word>> -> value: the host's buffers
          mram,         \* <<DPU, word>> -> value: from the heap pointer on
          wram,         \* DPU -> [DPU_ID, TEST_SEED, TEST_SIZE, ERROR_COUNT]
          base,         \* DPU -> word its program has come to
          errors,       \* DPU -> errors found by its program so far
          host,         \* DPU -> words the host finds wrong
          wrong         \* DPU -> words the send delivered wrongly: not in the code

vars == <<pc, test, bufs, mram, wram, base, errors, host, wrong>>

Dpus  == 0 .. NrDpus - 1
Words == UNION {0 .. Sizes[i] - 1 : i \in DOMAIN Sizes}
Cells == Dpus \X Words

ASSUME ExampleAssumption ==
    /\ NrDpus \in Nat \ {0} /\ Chunk \in Nat \ {0}
    /\ Sizes \in Seq(Nat \ {0}) /\ Sizes # <<>>
    /\ Faulty \in BOOLEAN

n_elems == Sizes[test]
seed    == (8 * n_elems) * 42 + 7

expected_value(dpu_id, j, s) == [dpu |-> dpu_id, j |-> j, seed |-> s, tags |-> <<>>]

NotExpected == [dpu |-> -1, j |-> 0, seed |-> 0, tags |-> <<>>]    \* unset, or 0xFF

TaggedNoId(v, id, j) == [v EXCEPT !.tags = Append(@, j)]           \* a slip: j alone
Tagged(v, id, j)     == [v EXCEPT !.tags = Append(@, <<id, j>>)]

\* What a direct transfer of `from' over `to' may leave there, right or wrong: DPUs
\* exchanged, words left out; a word that comes is at its own place.
Delivered(from, to) ==
    IF ~Faulty THEN {from}
    ELSE {[c \in DOMAIN from |-> IF c \in r.left THEN to[c] ELSE from[<<r.of[c[1]], c[2]>>]] :
             r \in [left : SUBSET DOMAIN from, of : Bijection(Dpus, Dpus)]}

\* The cells of a transfer of the first n words, those of f alone, and new words
\* over old ones.
First(n) == {c \in Cells : c[2] < n}
Only(n, f) == [c \in First(n) |-> f[c]]
Over(new, old) == [c \in DOMAIN old |-> IF c \in DOMAIN new THEN new[c] ELSE old[c]]

\* The words of DPU d among these cells that are not what they should be.
Differing(d, cells, is, should) ==
    Cardinality({c \in cells : c[1] = d /\ is[c] # should[c]})

Step(from, to) == pc = from /\ pc' = to

(***************************************************************************)
(* main: a first launch, with TEST_SIZE 0, only prints.  TestWRAM sends    *)
(* the DPU_ID by the SDK and reads it back into buffers that hold 0xDEAD.  *)
(***************************************************************************)
PrintInfo ==
    /\ Step("info", "test_wram")
    /\ \A d \in Dpus : wram[d].TEST_SIZE = 0
    /\ UNCHANGED <<test, bufs, mram, wram, base, errors, host, wrong>>

TestWRAM ==
    LET ids == [c \in Dpus \X {0} |-> c[1]]
        dead == [c \in Dpus \X {0} |-> -1]
    IN  /\ Step("test_wram", "next")
        /\ wram' = [d \in Dpus |-> [wram[d] EXCEPT !.DPU_ID = d]]
        /\ \E got \in Delivered(ids, dead) :
              host' = [d \in Dpus |-> Differing(d, Dpus \X {0}, got, ids)]
        /\ UNCHANGED <<test, bufs, mram, base, errors, wrong>>

(***************************************************************************)
(* TestMRAMWithDPU.                                                        *)
(***************************************************************************)
FillAndTell ==
    /\ Step("next", "send")
    /\ test < Len(Sizes)
    /\ test' = test + 1
    /\ bufs' = [c \in Cells |-> IF c[2] < n_elems' THEN expected_value(c[1], c[2], seed')
                                ELSE NotExpected]
    /\ wram' = [d \in Dpus |-> [wram[d] EXCEPT !.TEST_SEED = seed', !.TEST_SIZE = n_elems']]
    /\ UNCHANGED <<mram, base, errors, host, wrong>>

SendHeap ==
    /\ Step("send", "run")
    /\ \E got \in Delivered(Only(n_elems, bufs), Only(n_elems, mram)) :
        /\ mram' = Over(got, mram)
        /\ wrong' = [d \in Dpus |-> Differing(d, First(n_elems), got, bufs)]
    /\ base' = [d \in Dpus |-> 0]
    /\ errors' = [d \in Dpus |-> 0]
    /\ UNCHANGED <<test, bufs, wram, host>>

\* verify_and_modify, one round of its outer loop: a chunk is read, checked against
\* what this DPU expects, tagged and written back.
ChunkEndShort(d) ==                                                \* a slip: n - base - 1
    IF base[d] + Chunk < wram[d].TEST_SIZE THEN base[d] + Chunk ELSE wram[d].TEST_SIZE - 1
ChunkEnd(d) ==
    IF base[d] + Chunk < wram[d].TEST_SIZE THEN base[d] + Chunk ELSE wram[d].TEST_SIZE

verify_and_modify(d) ==
    LET chunk == {<<d, j>> : j \in base[d] .. ChunkEnd(d) - 1}
        exp   == [c \in chunk |-> expected_value(wram[d].DPU_ID, c[2], wram[d].TEST_SEED)]
    IN  /\ pc = "run" /\ base[d] < wram[d].TEST_SIZE
        /\ errors' = [errors EXCEPT ![d] = @ + Differing(d, chunk, mram, exp)]
        /\ mram' = Over([c \in chunk |-> Tagged(mram[c], wram[d].DPU_ID, c[2])], mram)
        /\ base' = [base EXCEPT ![d] = @ + Chunk]
        /\ UNCHANGED <<pc, test, bufs, wram, host, wrong>>

\* ERROR_COUNT is written, and Launch comes back.
Launched ==
    /\ Step("run", "errors")
    /\ \A d \in Dpus : base[d] >= wram[d].TEST_SIZE
    /\ wram' = [d \in Dpus |-> [wram[d] EXCEPT !.ERROR_COUNT = errors[d]]]
    /\ UNCHANGED <<test, bufs, mram, base, errors, host, wrong>>

\* ERROR_COUNT is received, whatever comes is only printed.  Then the buffers are
\* cleared, received into, and compared.
ReceiveHeap ==
    LET cells   == First(n_elems)
        cleared == [c \in cells |-> NotExpected]
        exp     == [c \in cells |-> Tagged(expected_value(c[1], c[2], seed), c[1], c[2])]
    IN  /\ Step("errors", "next")
        /\ \E got \in Delivered(Only(n_elems, mram), cleared) :
            /\ bufs' = Over(got, bufs)
            /\ host' = [d \in Dpus |-> Differing(d, cells, got, exp)]
        /\ UNCHANGED <<test, mram, wram, base, errors, wrong>>

Ended == pc = "next" /\ test = Len(Sizes) /\ UNCHANGED vars

Init ==
    /\ pc = "info" /\ test = 0
    /\ bufs = [c \in Cells |-> NotExpected]
    /\ mram = [c \in Cells |-> NotExpected]
    /\ wram = [d \in Dpus |-> [DPU_ID |-> 0, TEST_SEED |-> 0, TEST_SIZE |-> 0, ERROR_COUNT |-> 0]]
    /\ base = [d \in Dpus |-> 0] /\ errors = [d \in Dpus |-> 0]
    /\ host = [d \in Dpus |-> 0] /\ wrong = [d \in Dpus |-> 0]

Next ==
    \/ PrintInfo \/ TestWRAM \/ FillAndTell \/ SendHeap
    \/ \E d \in Dpus : verify_and_modify(d)
    \/ Launched \/ ReceiveHeap \/ Ended

Spec == Init /\ [][Next]_vars

(***************************************************************************)
(* Properties.                                                             *)
(***************************************************************************)

\* After a launch the ERROR_COUNT of every DPU is the number of its words that the
\* send delivered wrongly, whatever earlier tests left in its memory.
ErrorCountIsRight ==
    pc = "errors" => \A d \in Dpus : wram[d].ERROR_COUNT = wrong[d]

\* The host finds the words of a DPU right exactly when both transfers were right for
\* it: two wrong transfers never make up for each other, and there is no false alarm.
HostTells ==
    (pc = "next" /\ test > 0) =>
        \A d \in Dpus :
            host[d] = 0 <=> wrong[d] = 0 /\ \A c \in First(n_elems) : c[1] = d => bufs[c] = mram[c]
=============================================================================
