------------------------------ MODULE Bigarray ------------------------------
(* The storage of bigarrays (runtime/bigarray.c) and of the bigarrays that   *)
(* map a file (otherlibs/unix/mmap_ba.c, mmap_unix.c): views that share      *)
(* their data, the proxies that count them, and finalisation.                *)
(*                                                                           *)
(* A pointer is [c |-> chunk, o |-> byte offset]; chunk 0 is NULL.  A chunk  *)
(* is what malloc, mmap or the C program that made an external bigarray      *)
(* returned.  Fortran layout is layout "f", C layout "c".                    *)
EXTENDS Integers, Sequences, SequencesExt, FiniteSets, FiniteSetsExt

CONSTANTS MaxArrays,    \* how many bigarrays a run creates
          MaxChunks,    \* how many of them are not views
          Shapes,       \* the dimensions that are asked for
          ElemSize,     \* caml_ba_element_size of the kind in use
          Page,         \* the page size
          Starts,       \* the positions in the file where a mapping starts
          FileSizes,    \* the sizes of the file at the start
          Domains,
          Synchronised  \* no two domains take views of one array at once

VARIABLES arrays,       \* bigarray -> its block
          chunks,       \* chunk -> [origin, lo, len, freed]
          proxies,      \* proxy -> [refcount, data, size, freed]
          op,           \* domain -> where it is in caml_ba_update_proxy
          file,         \* the size of the file
          view          \* bigarray -> what its elements are (history)
vars == <<arrays, chunks, proxies, op, file, view>>

Null == [c |-> 0, o |-> 0]
Idle == [pc |-> "idle", b1 |-> 0, b2 |-> 0]
Live == {a \in DOMAIN arrays : arrays[a].live}

Product(dims) == FoldLeft(LAMBDA m, n : m * n, 1, dims)
caml_ba_num_elts(b) == Product(b.dims)
caml_ba_byte_size(b) == caml_ba_num_elts(b) * ElemSize

------------------------------------------------------------------------------
(* The indices of an array, and their place in its storage order: the last   *)
(* coordinate varies fastest in C layout, the first in Fortran layout.       *)
First(layout) == IF layout = "c" THEN 0 ELSE 1
Indices(dims, layout) ==
    {i \in [1..Len(dims) -> 0..Max({0} \cup ToSet(dims))] :
        \A k \in 1..Len(dims) :
            i[k] \in First(layout)..(dims[k] - 1 + First(layout))}
Before(i, j, layout) ==
    \E k \in 1..Len(i) :
        /\ i[k] < j[k]
        /\ \A m \in 1..Len(i) : (IF layout = "c" THEN m < k ELSE m > k)
                                    => i[m] = j[m]
Rank(i, dims, layout) ==
    Cardinality({j \in Indices(dims, layout) : Before(j, i, layout)})

(* The checks and the arithmetic of caml_ba_offset; -1 is                    *)
(* caml_array_bound_error.                                                   *)
OffsetFrom(dims, index, first) ==
    IF \E k \in 1..Len(dims) : index[k] - first \notin 0..(dims[k] - 1)
    THEN -1
    ELSE FoldLeft(LAMBDA off, k : off * dims[k] + (index[k] - first),
                  0, [k \in 1..Len(dims) |-> k])
(* A mutant of caml_ba_offset: the Fortran layout walks the dimensions in    *)
(* the order of the C layout.                                                *)
RowMajorOffset(b, index) == OffsetFrom(b.dims, index, First(b.layout))

caml_ba_offset(b, index) ==
    IF b.layout = "c"
    THEN OffsetFrom(b.dims, index, 0)
    ELSE OffsetFrom(Reverse(b.dims), Reverse(index), 1)

------------------------------------------------------------------------------
(* Blocks.  caml_ba_alloc mallocs the data when it is given none; the flags  *)
(* keep the other bits they had (managed is a set of flags).                 *)
Block(dims, layout, managed, ops, data) ==
    [dims |-> dims, layout |-> layout, managed |-> managed, ops |-> ops,
     data |-> data, proxy |-> 0, live |-> TRUE]
Chunk(origin, lo, len) ==
    [origin |-> origin, lo |-> lo, len |-> len, freed |-> 0]
NextChunk == Len(chunks) + 1

caml_ba_alloc(layout, managed, data, dims, ops) ==
    IF data = Null
    THEN /\ chunks' = Append(chunks,
                             Chunk("malloc", 0, Product(dims) * ElemSize))
         /\ arrays' = Append(arrays,
                Block(dims, layout, managed \cup {"managed"}, ops,
                      [c |-> NextChunk, o |-> 0]))
    ELSE /\ arrays' = Append(arrays, Block(dims, layout, managed, ops, data))
         /\ UNCHANGED chunks

Room == Len(arrays) < MaxArrays
(* Arrays that share no storage do not interact: one chunk may be enough.    *)
Fresh == Room /\ Len(arrays) < MaxChunks

(* What the elements of a new array are: those of its chunk, in storage      *)
(* order.                                                                    *)
OwnElements(dims, layout, data) ==
    [i \in Indices(dims, layout) |->
        [c |-> data.c, o |-> data.o + Rank(i, dims, layout) * ElemSize]]

caml_ba_create(dims, layout) ==
    /\ Fresh
    /\ caml_ba_alloc(layout, {}, Null, dims, "ba")
    /\ view' = Append(view, OwnElements(dims, layout, [c |-> NextChunk, o |-> 0]))
    /\ UNCHANGED <<proxies, op, file>>

(* A C program wraps its own memory (caml_ba_alloc_dims with its data).      *)
caml_ba_alloc_dims(dims, layout) ==
    /\ Fresh
    /\ chunks' = Append(chunks, Chunk("extern", 0, Product(dims) * ElemSize))
    /\ arrays' = Append(arrays,
           Block(dims, layout, {}, "ba", [c |-> NextChunk, o |-> 0]))
    /\ view' = Append(view, OwnElements(dims, layout, [c |-> NextChunk, o |-> 0]))
    /\ UNCHANGED <<proxies, op, file>>

------------------------------------------------------------------------------
(* Mapping a file.  The major dimension may be -1: it is then found from the *)
(* size of the file.                                                         *)
MajorDim(dims, layout) == IF layout = "f" THEN Len(dims) ELSE 1
Known(dims) == FoldLeft(LAMBDA m, n : IF n = -1 THEN m ELSE m * n,
                        ElemSize, dims)
(* The dimensions and the new file size, or none when map_file fails.  The   *)
(* code divides by Known(dims): a file mapped with an unknown dimension and  *)
(* an empty one is left out.                                                 *)
Mapped(dims, layout, start) ==
    LET m == MajorDim(dims, layout)
        data == file - start
    IN IF dims[m] = -1
       THEN {[dims |-> [dims EXCEPT ![m] = data \div Known(dims)],
              file |-> file] :
                 x \in {y \in {1} : data >= 0 /\ data % Known(dims) = 0}}
       ELSE {[dims |-> dims,
              file |-> Max({file, start + Known(dims)})]}
Mappable(dims, layout) ==
    /\ Len(dims) >= 1
    /\ \A k \in 1..Len(dims) :
           dims[k] >= 0 \/ (dims[k] = -1 /\ k = MajorDim(dims, layout))
    /\ dims[MajorDim(dims, layout)] = -1 => Known(dims) # 0

(* The bytes from lo of the chunk are mapped: whole pages before the data.   *)
caml_unix_map_file(dims, layout, start) ==
    /\ Fresh
    /\ Mappable(dims, layout)
    /\ \E r \in Mapped(dims, layout, start) :
           LET size == Product(r.dims) * ElemSize
               delta == start % Page
               data == IF size > 0 THEN [c |-> NextChunk, o |-> delta]
                       ELSE [c |-> 0, o |-> delta]
           IN /\ file' = r.file
              /\ chunks' = IF size > 0
                           THEN Append(chunks, Chunk("mmap", start - delta,
                                                     size + delta))
                           ELSE chunks
              /\ arrays' = Append(arrays,
                     Block(r.dims, layout, {"mapped"}, "mapped", data))
              /\ view' = Append(view, OwnElements(r.dims, layout, data))
    /\ UNCHANGED <<proxies, op>>

------------------------------------------------------------------------------
(* Views.  A domain that makes one allocates its block, then updates the     *)
(* proxy: it looks at b1's proxy, and stores a new one when there is none.   *)
MayView(d, a) ==
    /\ op[d] = Idle
    /\ a \in Live
    /\ Room
    /\ \A e \in Domains : op[e].b2 # a       \* not returned yet
    /\ Synchronised => \A e \in Domains : op[e].b1 # a

NewView(d, a, layout, dims, data, elements) ==
    /\ caml_ba_alloc(layout, arrays[a].managed, data, dims, arrays[a].ops)
    /\ view' = Append(view, elements)
    /\ op' = [op EXCEPT ![d] = [pc |-> "proxy", b1 |-> a,
                                b2 |-> Len(arrays) + 1]]
    /\ UNCHANGED <<proxies, file>>

At(data, elements) == [data EXCEPT !.o = @ + elements * ElemSize]

(* The dimensions that the indices leave free are the last ones in C layout, *)
(* the first ones in Fortran layout.                                         *)
caml_ba_slice(d, a, ind) ==
    LET b == arrays[a]
        rest == Len(b.dims) - Len(ind)
        free == [k \in 1..rest |-> First(b.layout)]
        index == IF b.layout = "c" THEN ind \o free ELSE free \o ind
        sub_dims == IF b.layout = "c" THEN SubSeq(b.dims, Len(ind) + 1, Len(b.dims))
                    ELSE SubSeq(b.dims, 1, rest)
    IN /\ MayView(d, a)
       /\ rest >= 0
       /\ caml_ba_offset(b, index) # -1
       /\ NewView(d, a, b.layout, sub_dims, At(b.data, caml_ba_offset(b, index)),
                  [j \in Indices(sub_dims, b.layout) |->
                      view[a][IF b.layout = "c" THEN ind \o j ELSE j \o ind]])

(* A mutant of Stride: the changed dimension is counted in.                  *)
WholeStride(b) == Product(b.dims)
(* The elements that one step of the changed dimension spans.                *)
Stride(b) ==
    Product(IF b.layout = "c" THEN Tail(b.dims) ELSE Front(b.dims))

caml_ba_sub(d, a, vofs, len) ==
    LET b == arrays[a]
        changed == MajorDim(b.dims, b.layout)
        ofs == vofs - First(b.layout)
        dims == [b.dims EXCEPT ![changed] = len]
    IN /\ MayView(d, a)
       /\ Len(b.dims) >= 1
       /\ ofs >= 0 /\ len >= 0 /\ ofs + len <= b.dims[changed]
       /\ NewView(d, a, b.layout, dims, At(b.data, ofs * Stride(b)),
                  [i \in Indices(dims, b.layout) |->
                      view[a][[i EXCEPT ![changed] = @ + ofs]]])

caml_ba_change_layout(d, a, layout) ==
    LET b == arrays[a]
        shift == First(b.layout) - First(layout)
    IN /\ MayView(d, a)
       /\ layout # b.layout
       /\ NewView(d, a, layout, Reverse(b.dims), b.data,
                  [i \in Indices(Reverse(b.dims), layout) |->
                      view[a][[k \in 1..Len(i) |-> Reverse(i)[k] + shift]]])

(* The elements keep their order.                                            *)
caml_ba_reshape(d, a, dims) ==
    LET b == arrays[a]
    IN /\ MayView(d, a)
       /\ Product(dims) = caml_ba_num_elts(b)
       /\ NewView(d, a, b.layout, dims, b.data,
                  [i \in Indices(dims, b.layout) |->
                      view[a][CHOOSE j \in Indices(b.dims, b.layout) :
                                  Rank(j, b.dims, b.layout)
                                      = Rank(i, dims, b.layout)]])

SetProxy(a, p) == [arrays EXCEPT ![a].proxy = p]

(* Nothing to do for unmanaged arrays.                                       *)
NoProxy(d) ==
    /\ op[d].pc = "proxy"
    /\ arrays[op[d].b1].managed = {}
    /\ op' = [op EXCEPT ![d] = Idle]
    /\ UNCHANGED <<arrays, chunks, proxies, file, view>>

(* A mutant of ShareProxy: the count is not incremented.                     *)
ShareUncounted(d) ==
    LET p == arrays[op[d].b1].proxy
    IN /\ op[d].pc = "proxy"
       /\ arrays[op[d].b1].managed # {}
       /\ p # 0
       /\ arrays' = SetProxy(op[d].b2, p)
       /\ op' = [op EXCEPT ![d] = Idle]
       /\ UNCHANGED <<chunks, proxies, file, view>>

ShareProxy(d) ==
    LET p == arrays[op[d].b1].proxy
    IN /\ op[d].pc = "proxy"
       /\ arrays[op[d].b1].managed # {}
       /\ p # 0
       /\ arrays' = SetProxy(op[d].b2, p)
       /\ proxies' = [proxies EXCEPT ![p].refcount = @ + 1]
       /\ op' = [op EXCEPT ![d] = Idle]
       /\ UNCHANGED <<chunks, file, view>>

SeeNoProxy(d) ==
    /\ op[d].pc = "proxy"
    /\ arrays[op[d].b1].managed # {}
    /\ arrays[op[d].b1].proxy = 0
    /\ op' = [op EXCEPT ![d].pc = "create"]
    /\ UNCHANGED <<arrays, chunks, proxies, file, view>>

CreateProxy(d) ==
    LET b == arrays[op[d].b1]
        p == Len(proxies) + 1
    IN /\ op[d].pc = "create"
       /\ proxies' = Append(proxies,
              [refcount |-> 2, data |-> b.data, freed |-> 0,
               size |-> IF "mapped" \in b.managed THEN caml_ba_byte_size(b)
                        ELSE 0])
       /\ arrays' = [arrays EXCEPT ![op[d].b1].proxy = p,
                                   ![op[d].b2].proxy = p]
       /\ op' = [op EXCEPT ![d] = Idle]
       /\ UNCHANGED <<chunks, file, view>>

caml_ba_update_proxy(d) ==
    NoProxy(d) \/ ShareProxy(d) \/ SeeNoProxy(d) \/ CreateProxy(d)

------------------------------------------------------------------------------
(* Finalisation, once the program and the operations have dropped the array. *)
Rooted(a) == \E d \in Domains : a \in {op[d].b1, op[d].b2}
Drop(a) == arrays' = [arrays EXCEPT ![a].live = FALSE]
ReleaseData(ptr) == chunks' = [chunks EXCEPT ![ptr.c].freed = @ + 1]

(* Only the end of the mapping that starts at the page of addr is given:     *)
(* unmapping anything but the whole mapping counts as two releases.          *)
caml_ba_unmap_file(ptr, len) ==
    LET delta == ptr.o % Page
    IN IF len = 0 THEN UNCHANGED chunks
       ELSE chunks' = [chunks EXCEPT ![ptr.c].freed =
                @ + IF ptr.o - delta = 0 /\ len + delta = chunks[ptr.c].len
                    THEN 1 ELSE 2]

(* A mutant of LastProxy: the comparison of the value before the decrement.  *)
NoneLeft(p) == proxies[p].refcount = 0
(* The decrement finds the last reference.                                   *)
LastProxy(p) == proxies[p].refcount = 1

Decrement(p) ==
    proxies' = [proxies EXCEPT ![p].refcount = @ - 1,
                               ![p].freed = IF LastProxy(p) THEN @ + 1 ELSE @]

caml_ba_finalize(a) ==
    LET b == arrays[a]
    IN /\ a \in Live /\ ~Rooted(a)
       /\ b.ops = "ba"
       /\ Drop(a)
       /\ IF b.managed = {}
          THEN UNCHANGED <<chunks, proxies>>
          ELSE IF b.proxy = 0
               THEN ReleaseData(b.data) /\ UNCHANGED proxies
               ELSE /\ Decrement(b.proxy)
                    /\ IF LastProxy(b.proxy)
                       THEN ReleaseData(proxies[b.proxy].data)
                       ELSE UNCHANGED chunks
       /\ UNCHANGED <<op, file, view>>

caml_ba_mapped_finalize(a) ==
    LET b == arrays[a]
    IN /\ a \in Live /\ ~Rooted(a)
       /\ b.ops = "mapped"
       /\ Drop(a)
       /\ IF b.proxy = 0
          THEN /\ caml_ba_unmap_file(b.data, caml_ba_byte_size(b))
               /\ UNCHANGED proxies
          ELSE /\ Decrement(b.proxy)
               /\ IF LastProxy(b.proxy)
                  THEN caml_ba_unmap_file(proxies[b.proxy].data,
                                          proxies[b.proxy].size)
                  ELSE UNCHANGED chunks
       /\ UNCHANGED <<op, file, view>>

------------------------------------------------------------------------------
Init ==
    /\ arrays = <<>>
    /\ chunks = <<>>
    /\ proxies = <<>>
    /\ op = [d \in Domains |-> Idle]
    /\ file \in FileSizes
    /\ view = <<>>

Layouts == {"c", "f"}
Coordinates == 0..2
(* The shapes and arguments that a program passes.                           *)
Create == \E dims \in Shapes, layout \in Layouts :
    -1 \notin ToSet(dims) /\ caml_ba_create(dims, layout)
Wrap == \E dims \in Shapes, layout \in Layouts :
    -1 \notin ToSet(dims) /\ caml_ba_alloc_dims(dims, layout)
MapFile == \E dims \in Shapes, layout \in Layouts, start \in Starts :
    caml_unix_map_file(dims, layout, start)
Slice(d) == \E a \in DOMAIN arrays, n \in 0..2 :
    \E ind \in [1..n -> Coordinates] : caml_ba_slice(d, a, ind)
Sub(d) == \E a \in DOMAIN arrays, ofs \in Coordinates, len \in Coordinates :
    caml_ba_sub(d, a, ofs, len)
ChangeLayout(d) == \E a \in DOMAIN arrays, layout \in Layouts :
    caml_ba_change_layout(d, a, layout)
Reshape(d) == \E a \in DOMAIN arrays, dims \in Shapes :
    -1 \notin ToSet(dims) /\ caml_ba_reshape(d, a, dims)
Finalise == \E a \in DOMAIN arrays :
    caml_ba_finalize(a) \/ caml_ba_mapped_finalize(a)

Next ==
    \/ Create \/ Wrap \/ MapFile \/ Finalise
    \/ \E d \in Domains : \/ Slice(d) \/ Sub(d) \/ ChangeLayout(d)
                          \/ Reshape(d) \/ caml_ba_update_proxy(d)
Spec == Init /\ [][Next]_vars

------------------------------------------------------------------------------
(* Every element of a bigarray is the byte of storage that the chain of      *)
(* slices, sub-arrays, reshapes and changes of layout behind the array says  *)
(* it is, and every index outside the bounds is refused (bigarray.mli, the   *)
(* identities stated for sub_left, slice_right, change_layout, reshape).     *)
ViewsExact ==
    \A a \in Live :
        LET b == arrays[a]
        IN \A i \in [1..Len(b.dims) -> -1..4] :
               IF i \in Indices(b.dims, b.layout)
               THEN /\ caml_ba_offset(b, i) # -1
                    /\ At(b.data, caml_ba_offset(b, i)) = view[a][i]
               ELSE caml_ba_offset(b, i) = -1

(* Storage is released once, never while an array with elements in it is     *)
(* live, and is released when the last one has gone (unless it is empty: a   *)
(* view of an empty mapping gets zero bytes of its own that nobody frees);   *)
(* memory that a C program owns is never released.  Mapped elements lie      *)
(* inside the file.                                                          *)
StorageKept ==
    \A c \in DOMAIN chunks :
        LET users == {a \in Live : arrays[a].data.c = c}
            idle == \A d \in Domains : op[d] = Idle
        IN /\ chunks[c].freed <= 1
           /\ users # {} => chunks[c].freed = 0
           /\ chunks[c].origin = "extern" => chunks[c].freed = 0
           /\ (chunks[c].origin # "extern" /\ chunks[c].len > 0 /\ users = {}
                /\ idle)
                  => chunks[c].freed = 1
           /\ chunks[c].origin = "mmap"
                  => chunks[c].lo + chunks[c].len <= file

(* A bigarray with the finaliser of a mapped file has the flags of one       *)
(* (the assertion of caml_ba_mapped_finalize).                               *)
MappedFlags ==
    \A a \in Live : arrays[a].ops = "mapped" => arrays[a].managed = {"mapped"}
==============================================================================
