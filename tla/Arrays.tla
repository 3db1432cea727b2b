------------------------------ MODULE Arrays ------------------------------
(* Operations on arrays (runtime/array.c): the copies and fills that go      *)
(* around caml_modify for speed must still tell the collectors what they     *)
(* did.  One domain; values are integers, blocks of the minor or of the      *)
(* major heap, and boxed floats, which float arrays hold unboxed.            *)
EXTENDS Integers, Sequences, SequencesExt, FiniteSets, FiniteSetsExt

CONSTANTS Youngs, Olds,         \* blocks, by the heap they start in
          MaxArrays, MaxLen,
          Max_young_wosize, Max_wosize,
          MaxOps

VARIABLES arrays,       \* <<[young, float, f]>>
          old,          \* the blocks that are in the major heap
          major_ref,    \* fields of the major heap that are remembered
          dark,         \* blocks that were darkened since marking began
          lost,         \* blocks of the major heap that a store removed
          last,         \* the last operation: the array and its contents
          ops
vars == <<arrays, old, major_ref, dark, lost, last, ops>>

Blocks == Youngs \cup Olds
Floats == {"d1", "d2"}
Values == {"i0", "i1"} \cup Blocks \cup Floats
IsBlock(v) == v \in Blocks \cup Floats
IsYoung(v) == v \in Blocks \ old
Live == DOMAIN arrays
NoOp == [a |-> 0, expect |-> <<>>]

------------------------------------------------------------------------------
(* The heap during an operation: h = [f, ref, dark, lost], the fields of the *)
(* array written and what the collectors were told.                          *)
Heap(a) == [f |-> arrays[a].f, ref |-> major_ref, dark |-> dark, lost |-> lost]
Store(h, i, v) == [h EXCEPT !.f[i] = v]
Removed(h, v) == IF v \in Blocks /\ v \in old THEN [h EXCEPT !.lost = @ \cup {v}] ELSE h
caml_darken(h, v) == IF v \in old THEN [h EXCEPT !.dark = @ \cup {v}] ELSE h
Ref_table_add(h, a, i) == [h EXCEPT !.ref = @ \cup {<<a, i>>}]

(* caml_modify on field i of an array of the major heap (memory.c).          *)
caml_modify(h, a, i, v) ==
    LET prev == h.f[i]
        h1 == Removed(Store(h, i, v), prev)
    IN IF IsYoung(prev) THEN h1
       ELSE LET h2 == caml_darken(h1, prev)
            IN IF IsYoung(v) THEN Ref_table_add(h2, a, i) ELSE h2

Seqs(n) == [k \in 1..n |-> k]
Ascending(n) == Seqs(n)
Descending(n) == Reverse(Seqs(n))

Commit(a, h, expect) ==
    /\ arrays' = [arrays EXCEPT ![a].f = h.f]
    /\ major_ref' = h.ref /\ dark' = h.dark /\ lost' = h.lost
    /\ last' = [a |-> a, expect |-> expect]
    /\ ops' = ops + 1
    /\ UNCHANGED old
New(arr, expect) ==
    /\ Len(arrays) < MaxArrays
    /\ arrays' = Append(arrays, arr)
    /\ last' = [a |-> Len(arrays) + 1, expect |-> expect]
    /\ ops' = ops + 1
    /\ UNCHANGED <<major_ref, dark, lost, old>>
Fits(a, v) == IF arrays[a].float THEN v \in Floats ELSE v \notin Floats

------------------------------------------------------------------------------
(* Creation.                                                                 *)
Cells(n, v) == [k \in 1..n |-> v]
(* A block of the minor heap is promoted before a large array refers to it.  *)
caml_make_vect(size, v) ==
    /\ size <= Max_wosize
    /\ IF size > Max_young_wosize /\ v \in Blocks /\ IsYoung(v)
       THEN /\ old' = Blocks
            /\ Len(arrays) < MaxArrays
            /\ arrays' = Append([k \in Live |-> [arrays[k] EXCEPT !.young = FALSE]],
                                [young |-> FALSE, float |-> FALSE, f |-> Cells(size, v)])
            /\ major_ref' = {}
            /\ last' = [a |-> Len(arrays) + 1, expect |-> Cells(size, v)]
            /\ ops' = ops + 1
            /\ UNCHANGED <<dark, lost>>
       ELSE New([young |-> size \in 1..Max_young_wosize, float |-> size > 0 /\ v \in Floats,
                 f |-> Cells(size, v)], Cells(size, v))
(* An array expression: the compiler builds an array of boxed values, which  *)
(* becomes a float array when its first element is a float.                  *)
caml_make_array(init) ==
    New([young |-> Len(init) \in 1..Max_young_wosize,
         float |-> init # <<>> /\ init[1] \in Floats, f |-> init], init)

------------------------------------------------------------------------------
(* Access.                                                                   *)
caml_array_set(a, i, v) ==
    /\ i \in DOMAIN arrays[a].f
    /\ Fits(a, v)
    /\ LET h == IF arrays[a].float \/ arrays[a].young THEN Store(Heap(a), i, v)
                ELSE caml_modify(Heap(a), a, i, v)
       IN Commit(a, h, [arrays[a].f EXCEPT ![i] = v])

(* Copy n fields from place o1 of a1 to place o2 of a2; a copy inside one    *)
(* array reads what it may have written.                                     *)
Source(h, a1, a2, k) == IF a1 = a2 THEN h.f[k] ELSE arrays[a1].f[k]
(* wo_memmove, when other domains run: the order depends on the addresses.   *)
wo_memmove(a1, o1, a2, o2, n) ==
    FoldLeft(LAMBDA h, k : Store(h, o2 + k, Source(h, a1, a2, o1 + k)), Heap(a2),
             IF a2 < a1 \/ (a1 = a2 /\ o2 < o1) THEN Ascending(n) ELSE Descending(n))
(* A mutant of Order: always ascending.                                      *)
OrderAscending(a1, o1, a2, o2, n) == Ascending(n)
Order(a1, o1, a2, o2, n) ==
    IF a1 = a2 /\ o1 < o2 THEN Descending(n) ELSE Ascending(n)
Copy(a1, o1, a2, o2, n) ==
    IF arrays[a2].young \/ arrays[a2].float THEN wo_memmove(a1, o1, a2, o2, n)
    ELSE FoldLeft(LAMBDA h, k : caml_modify(h, a2, o2 + k, Source(h, a1, a2, o1 + k)),
                  Heap(a2), Order(a1, o1, a2, o2, n))
Blitted(a1, o1, a2, o2, n) ==
    [i \in DOMAIN arrays[a2].f |->
        IF i \in o2 + 1..o2 + n THEN arrays[a1].f[i - o2 + o1] ELSE arrays[a2].f[i]]
caml_array_blit(a1, o1, a2, o2, n) ==
    /\ arrays[a1].float = arrays[a2].float
    /\ o1 + n <= Len(arrays[a1].f) /\ o2 + n <= Len(arrays[a2].f)
    /\ Commit(a2, Copy(a1, o1, a2, o2, n), Blitted(a1, o1, a2, o2, n))

(* caml_array_gather, for sub, append and concat: parts are <<a, ofs, len>>. *)
Part(p) == SubSeq(arrays[p[1]].f, p[2] + 1, p[2] + p[3])
Gathered(parts) == FoldLeft(LAMBDA acc, p : acc \o Part(p), <<>>, parts)
(* caml_initialize remembers a field that refers to the minor heap.          *)
(* A mutant of Initialized: the fields are stored and no more.               *)
InitializedOnly(a, f) == major_ref
Initialized(a, f) == major_ref \cup {<<a, i>> : i \in {j \in DOMAIN f : IsYoung(f[j])}}
caml_array_gather(parts) ==
    LET f == Gathered(parts)
        isfloat == \E k \in DOMAIN parts : arrays[parts[k][1]].float
        small == Len(f) \in 1..Max_young_wosize
    IN /\ Len(f) <= Max_wosize
       /\ Len(arrays) < MaxArrays
       /\ arrays' = Append(arrays, [young |-> small, float |-> f # <<>> /\ isfloat, f |-> f])
       /\ major_ref' = IF small \/ isfloat THEN major_ref
                       ELSE Initialized(Len(arrays) + 1, f)
       /\ last' = [a |-> Len(arrays) + 1, expect |-> f]
       /\ ops' = ops + 1
       /\ UNCHANGED <<dark, lost, old>>

(* caml_array_fill does what caml_modify does, on each field.                *)
(* A mutant of FillField: a field that held a block is not remembered.       *)
FillFieldBlock(h, a, i, v) ==
    LET prev == h.f[i]
        h1 == Removed(Store(h, i, v), prev)
    IN IF prev = v THEN h
       ELSE IF IsBlock(prev) THEN (IF IsYoung(prev) THEN h1 ELSE caml_darken(h1, prev))
       ELSE IF IsYoung(v) THEN Ref_table_add(h1, a, i) ELSE h1
FillField(h, a, i, v) ==
    LET prev == h.f[i]
        h1 == Removed(Store(h, i, v), prev)
        h2 == IF IsBlock(prev) THEN caml_darken(h1, prev) ELSE h1
    IN IF prev = v THEN h
       ELSE IF IsBlock(prev) /\ IsYoung(prev) THEN h1
       ELSE IF IsYoung(v) THEN Ref_table_add(h2, a, i) ELSE h2
caml_array_fill(a, o, n, v) ==
    /\ Fits(a, v)
    /\ o + n <= Len(arrays[a].f)
    /\ LET h == FoldLeft(LAMBDA g, k :
                             IF arrays[a].young \/ arrays[a].float THEN Store(g, o + k, v)
                             ELSE FillField(g, a, o + k, v),
                         Heap(a), Seqs(n))
       IN Commit(a, h, [i \in DOMAIN arrays[a].f |->
                           IF i \in o + 1..o + n THEN v ELSE arrays[a].f[i]])

(* A minor collection, and the start of a marking phase (external to         *)
(* array.c): what it finds in arrays and in remembered fields is promoted.   *)
MinorCollection ==
    /\ old # Blocks \/ \E a \in Live : arrays[a].young
    /\ old' = Blocks
    /\ arrays' = [a \in Live |-> [arrays[a] EXCEPT !.young = FALSE]]
    /\ major_ref' = {}
    /\ UNCHANGED <<dark, lost, last, ops>>

Init ==
    /\ arrays = <<>> /\ old = Olds /\ major_ref = {} /\ dark = {} /\ lost = {}
    /\ last = NoOp /\ ops = 0
Lens == 0..MaxLen
Op ==
    \/ \E n \in 0..MaxLen, v \in Values : caml_make_vect(n, v)
    \/ \E init \in {<<"d1", "d2">>, <<"i0", "i1">>} : caml_make_array(init)
    \/ \E a \in Live :
         \/ \E i \in Lens, v \in Values : caml_array_set(a, i, v)
         \/ \E o \in Lens, n \in 1..MaxLen, v \in Values : caml_array_fill(a, o, n, v)
         \/ \E b \in Live, o \in Lens, p \in Lens, n \in 1..MaxLen :
              caml_array_blit(a, o, b, p, n)
         \/ \E o \in Lens, n \in Lens :
              o + n <= Len(arrays[a].f) /\ caml_array_gather(<<<<a, o, n>>>>)
         \/ \E b \in Live :
              caml_array_gather(<<<<a, 0, Len(arrays[a].f)>>, <<b, 0, Len(arrays[b].f)>>>>)
Next == (ops < MaxOps /\ Op) \/ MinorCollection
Spec == Init /\ [][Next]_vars

------------------------------------------------------------------------------
(* The fast copies and fills keep what caml_modify and caml_initialize       *)
(* promise to the collectors (array.c, caml_array_fill: "This duplicates the *)
(* logic of caml_modify"): every field of the major heap that refers to the  *)
(* minor heap is remembered, and every block of the major heap that a store  *)
(* into the major heap removed was darkened.                                 *)
CollectorsTold ==
    /\ \A a \in Live : ~arrays[a].young /\ ~arrays[a].float =>
          \A i \in DOMAIN arrays[a].f : IsYoung(arrays[a].f[i]) => <<a, i>> \in major_ref
    /\ lost \subseteq dark

(* Every operation leaves the array with the contents that its description   *)
(* says, the copy of a part of an array over another part of it included,    *)
(* and float arrays hold floats only.                                        *)
ContentsKept ==
    /\ last.a # 0 => arrays[last.a].f = last.expect
    /\ \A a \in Live : arrays[a].float => \A i \in DOMAIN arrays[a].f : arrays[a].f[i] \in Floats

(* The two promises of array.c together: the collectors are told of every    *)
(* store, and the contents are those of the operation's description.         *)
ArraysRight == CollectorsTold /\ ContentsKept
=============================================================================
