---------------------------- MODULE BigarrayData ----------------------------
(* The contents of bigarrays (runtime/bigarray.c): reading and writing       *)
(* elements of every kind, filling, copying, comparing, hashing and          *)
(* marshalling them.                                                         *)
(*                                                                           *)
(* The data of a bigarray is the sequence of its cells in storage order: an  *)
(* element is one cell, or two cells for the complex kinds.  An integer cell *)
(* of n bytes holds n * Bits bits (the scale of a byte); a float cell holds  *)
(* an integer, the negative zero or one of two NaNs.                         *)
EXTENDS Integers, Sequences, SequencesExt, FiniteSetsExt

CONSTANTS Bits,         \* the bits of a byte (8)
          HashBytes,    \* the bytes that caml_ba_hash looks at (256)
          Jobs,         \* <<[kind, layout, dims, values], the same for b>>
          MaxOps        \* the operations of a run

VARIABLES job, endian, word,    \* endianness and sizeof(value)
          a, b,         \* two bigarrays, [kind, layout, dims, cells]
          inA, inB,     \* their elements (history)
          copy,         \* what unmarshalling a gave, or the error
          ops
vars == <<job, endian, word, a, b, inA, inB, copy, ops>>

NegZero == -1000
NaNs == {1000, 1001}
Num(f) == IF f = NegZero THEN 0 ELSE f

Floats == {"FLOAT16", "FLOAT32", "FLOAT64", "COMPLEX32", "COMPLEX64"}
Complex == {"COMPLEX32", "COMPLEX64"}
Signed == {"SINT8", "SINT16", "INT32", "INT64", "CAML_INT", "NATIVE_INT"}
KindCode == [FLOAT32 |-> 0, FLOAT64 |-> 1, SINT8 |-> 2, UINT8 |-> 3,
             SINT16 |-> 4, UINT16 |-> 5, INT32 |-> 6, INT64 |-> 7,
             CAML_INT |-> 8, NATIVE_INT |-> 9, COMPLEX32 |-> 10,
             COMPLEX64 |-> 11, CHAR |-> 12, FLOAT16 |-> 13]

caml_ba_element_size(kind, w) ==
    CASE kind \in {"SINT8", "UINT8", "CHAR"} -> 1
      [] kind \in {"SINT16", "UINT16", "FLOAT16"} -> 2
      [] kind \in {"FLOAT32", "INT32"} -> 4
      [] kind \in {"FLOAT64", "INT64", "COMPLEX32"} -> 8
      [] kind \in {"CAML_INT", "NATIVE_INT"} -> w
      [] kind = "COMPLEX64" -> 16

Pow(n) == 2 ^ n
Unsigned(v, bits) == v % Pow(bits)
Sign(v, bits) == ((v + Pow(bits - 1)) % Pow(bits)) - Pow(bits - 1)

CellBits(kind, w) == caml_ba_element_size(kind, w) * Bits
Cells(kind) == IF kind \in Complex THEN 2 ELSE 1
Elements(dims) == FoldLeft(LAMBDA m, n : m * n, 1, dims)

------------------------------------------------------------------------------
(* Elements in and out of the cells.  An element is the sequence of what its *)
(* cells hold; what a cell of an integer kind keeps is its low bits.         *)
(* An integer of the language has one bit less than a word.                  *)
ValueBits(kind, w) == CellBits(kind, w) - IF kind = "CAML_INT" THEN 1 ELSE 0
Store(kind, w, v) ==
    CASE kind \in Floats -> v
      [] kind = "CAML_INT" ->
            Unsigned(Sign(v, ValueBits(kind, w)), CellBits(kind, w))
      [] OTHER -> Unsigned(v, CellBits(kind, w))
Load(kind, w, c) ==
    IF kind \in Signed THEN Sign(c, ValueBits(kind, w)) ELSE c

caml_ba_get_N(x, off) ==
    LET n == Cells(x.kind)
    IN [k \in 1..n |-> Load(x.kind, word, x.cells[off * n + k])]

caml_ba_set_aux(x, off, v) ==
    LET n == Cells(x.kind)
    IN [x EXCEPT !.cells = [k \in DOMAIN @ |->
            IF k \in (off * n + 1)..(off * n + n)
            THEN Store(x.kind, word, v[k - off * n]) ELSE @[k]]]

(* A mutant of caml_ba_fill: a complex element takes one step of the loop.   *)
FillHalf(x, v) ==
    [x EXCEPT !.cells = [k \in DOMAIN @ |-> Store(x.kind, word, v[1])]]
caml_ba_fill(x, v) ==
    [x EXCEPT !.cells = [k \in DOMAIN @ |->
        Store(x.kind, word, v[((k - 1) % Cells(x.kind)) + 1])]]

(* Same dimensions, or Invalid_argument.                                     *)
MayBlit(src, dst) == src.dims = dst.dims
caml_ba_blit(src, dst) == [dst EXCEPT !.cells = src.cells]

(* Several bytes of a one-dimensional array of bytes at once.                *)
MayAccess(x, idx, bytes) == idx >= 0 /\ idx < x.dims[1] - (bytes - 1)
Place(k, bytes) == Pow(Bits * (IF endian = "big" THEN bytes - k ELSE k - 1))
caml_ba_uint8_get(x, idx, bytes) ==
    FoldLeft(LAMBDA r, k : r + x.cells[idx + k] * Place(k, bytes),
             0, [k \in 1..bytes |-> k])
caml_ba_uint8_set(x, idx, bytes, v) ==
    [x EXCEPT !.cells = [k \in DOMAIN @ |->
        IF k \in (idx + 1)..(idx + bytes)
        THEN (Unsigned(v, Bits * bytes) \div Place(k - idx, bytes)) % Pow(Bits)
        ELSE @[k]]]
caml_ba_uint8_get16(x, idx) == caml_ba_uint8_get(x, idx, 2)
caml_ba_uint8_get32(x, idx) == caml_ba_uint8_get(x, idx, 4)
caml_ba_uint8_get64(x, idx) == caml_ba_uint8_get(x, idx, 8)
caml_ba_uint8_set16(x, idx, v) == caml_ba_uint8_set(x, idx, 2, v)
caml_ba_uint8_set32(x, idx, v) == caml_ba_uint8_set(x, idx, 4, v)
caml_ba_uint8_set64(x, idx, v) == caml_ba_uint8_set(x, idx, 8, v)

------------------------------------------------------------------------------
(* Comparison: kind and layout, then dimensions, then the cells in storage   *)
(* order.  Two NaNs are equal; a NaN is below every other float.             *)
Flags(x) == KindCode[x.kind] + IF x.layout = "c" THEN 0 ELSE 256
Sgn(n) == IF n < 0 THEN -1 ELSE IF n > 0 THEN 1 ELSE 0
FirstOf(signs) ==
    LET different == {k \in DOMAIN signs : signs[k] # 0}
    IN IF different = {} THEN 0 ELSE signs[Min(different)]
DO_INTEGER_COMPARISON(e1, e2) == Sgn(e1 - e2)
DO_FLOAT_COMPARISON(e1, e2) ==
    CASE e1 \notin NaNs /\ e2 \notin NaNs -> Sgn(Num(e1) - Num(e2))
      [] e1 \notin NaNs /\ e2 \in NaNs -> 1
      [] e1 \in NaNs /\ e2 \notin NaNs -> -1
      [] OTHER -> 0
CompareCells(x, y) ==
    FirstOf([k \in DOMAIN x.cells |->
        IF x.kind \in Floats
        THEN DO_FLOAT_COMPARISON(x.cells[k], y.cells[k])
        ELSE DO_INTEGER_COMPARISON(Load(x.kind, word, x.cells[k]),
                                   Load(y.kind, word, y.cells[k]))])
caml_ba_compare(x, y) ==
    CASE Flags(x) # Flags(y) -> Sgn(Flags(y) - Flags(x))
      [] Len(x.dims) # Len(y.dims) -> Sgn(Len(y.dims) - Len(x.dims))
      [] x.dims # y.dims ->
            FirstOf([k \in DOMAIN x.dims |-> Sgn(x.dims[k] - y.dims[k])])
      [] OTHER -> CompareCells(x, y)

(* Hashing: the hash is the sequence of the words that are mixed in.  Bytes  *)
(* and half-words are packed into words, a short last word included.         *)
HashBits(x) ==
    LET n == Min({Len(x.cells),
                  HashBytes \div (CellBits(x.kind, word) \div Bits)})
        per == 4 \div (CellBits(x.kind, word) \div Bits)
    IN [k \in 1..((n + per - 1) \div per) |->
           FoldLeft(LAMBDA w, j :
                        IF (k - 1) * per + j > n THEN w
                        ELSE w + x.cells[(k - 1) * per + j]
                                 * Pow((j - 1) * CellBits(x.kind, word)),
                    0, [j \in 1..per |-> j])]
HashWords(x, limit) ==
    [k \in 1..Min({Len(x.cells), limit}) |-> Load(x.kind, word, x.cells[k])]
(* All NaNs hash alike, and so do the two zeros.                             *)
caml_hash_mix_float(f) == IF f \in NaNs THEN 1000 ELSE Num(f)
HashFloats(x, limit) ==
    [k \in 1..Min({Len(x.cells), limit}) |-> caml_hash_mix_float(x.cells[k])]
caml_ba_hash(x) ==
    CASE x.kind \in {"CHAR", "SINT8", "UINT8", "SINT16", "UINT16", "INT32"} ->
            HashBits(x)
      [] x.kind \in {"CAML_INT", "NATIVE_INT"} -> HashWords(x, HashBytes \div 4)
      [] x.kind = "INT64" -> HashWords(x, HashBytes \div 8)
      [] x.kind = "FLOAT16" -> HashFloats(x, HashBytes \div 2)
      [] x.kind \in {"FLOAT32", "COMPLEX32"} -> HashFloats(x, HashBytes \div 4)
      [] x.kind \in {"FLOAT64", "COMPLEX64"} -> HashFloats(x, HashBytes \div 8)

------------------------------------------------------------------------------
(* Marshalling.  The stream is a sequence of integers of w bytes.            *)
Item(w, v) == [w |-> w, v |-> v]
Ints(w, vs) == [k \in DOMAIN vs |-> Item(w, vs[k])]
Longest == Pow(2 * Bits) - 1

(* A mutant of WriteDim: the boundary length is written short.               *)
WriteDimShort(len) ==
    IF len <= Longest THEN <<Item(2, len)>> ELSE <<Item(2, Longest), Item(8, len)>>
WriteDim(len) ==
    IF len < Longest THEN <<Item(2, len)>> ELSE <<Item(2, Longest), Item(8, len)>>

(* The limits of the integers that a 32-bit program can hold.                *)
LongLimit(kind) == Pow(IF kind = "CAML_INT" THEN 4 * Bits - 2 ELSE 4 * Bits - 1)

caml_ba_serialize_longarray(x) ==
    LET values == [k \in DOMAIN x.cells |-> Load(x.kind, word, x.cells[k])]
        fits == \A k \in DOMAIN values :
                    values[k] \in (-LongLimit(x.kind))..(LongLimit(x.kind) - 1)
    IN CASE word = 4 -> <<Item(1, 0)>> \o Ints(4, x.cells)
         [] word = 8 /\ ~fits -> <<Item(1, 1)>> \o Ints(8, x.cells)
         [] word = 8 /\ fits ->
              <<Item(1, 0)>>
                  \o [k \in DOMAIN values |->
                         Item(4, Unsigned(values[k], 4 * Bits))]

CellBytes(kind, w) ==
    caml_ba_element_size(kind, w) \div (IF kind \in Complex THEN 2 ELSE 1)

caml_ba_serialize(x) ==
    <<Item(4, Len(x.dims)), Item(4, KindCode[x.kind]),
      Item(4, IF x.layout = "c" THEN 0 ELSE 1)>>
    \o FlattenSeq([k \in DOMAIN x.dims |-> WriteDim(x.dims[k])])
    \o (IF x.kind \in {"CAML_INT", "NATIVE_INT"}
        THEN caml_ba_serialize_longarray(x)
        ELSE Ints(CellBytes(x.kind, word), x.cells))

Error == [error |-> TRUE]
(* The dimensions at the front of s, and how many items they take.           *)
ReadDims(s, n) ==
    FoldLeft(LAMBDA r, k :
                 IF s[r.at].v = Longest
                 THEN [at |-> r.at + 2, dims |-> Append(r.dims, s[r.at + 1].v)]
                 ELSE [at |-> r.at + 1, dims |-> Append(r.dims, s[r.at].v)],
             [at |-> 1, dims |-> <<>>], [k \in 1..n |-> k])
(* A block of cells of w bytes; reading other bytes than were written gives  *)
(* an error here, garbage in the code.                                       *)
ReadBlock(s, w, n) ==
    IF Len(s) = n /\ \A k \in 1..n : s[k].w = w
    THEN [k \in 1..n |-> s[k].v] ELSE <<"garbage">>

caml_ba_deserialize_longarray(s, n, kind, w) ==
    LET sixty == s[1].v = 1
    IN CASE w = 4 /\ sixty -> Error
         [] w = 4 /\ ~sixty -> [error |-> FALSE, cells |-> ReadBlock(Tail(s), 4, n)]
         [] w = 8 /\ sixty -> [error |-> FALSE, cells |-> ReadBlock(Tail(s), 8, n)]
         [] w = 8 /\ ~sixty ->
              [error |-> FALSE,
               cells |-> [k \in 1..n |->
                   Unsigned(Sign(s[k + 1].v, 4 * Bits), 8 * Bits)]]

(* Read by a program with words of w bytes.                                  *)
caml_ba_deserialize(s, w) ==
    LET kind == CHOOSE k \in DOMAIN KindCode : KindCode[k] = s[2].v
        rest == SubSeq(s, 4, Len(s))
        r == ReadDims(rest, s[1].v)
        body == SubSeq(rest, r.at, Len(rest))
        n == Elements(r.dims) * Cells(kind)
        data == IF kind \in {"CAML_INT", "NATIVE_INT"}
                THEN caml_ba_deserialize_longarray(body, n, kind, w)
                ELSE [error |-> FALSE,
                      cells |-> ReadBlock(body, CellBytes(kind, w), n)]
    IN IF data.error THEN Error
       ELSE [error |-> FALSE, word |-> w, kind |-> kind, dims |-> r.dims,
             layout |-> IF s[3].v = 0 THEN "c" ELSE "f", cells |-> data.cells]

------------------------------------------------------------------------------
None == [none |-> TRUE]
Filled(j, v) ==
    caml_ba_fill([kind |-> j.kind, layout |-> j.layout, dims |-> j.dims,
                  cells |-> [k \in 1..(Elements(j.dims) * Cells(j.kind)) |-> 0]],
                 v)
(* What a kind keeps of an integer: the one integer of its range that is     *)
(* equal to it modulo its width.                                             *)
Kept(kind, v) ==
    LET n == ValueBits(kind, word)
        range == IF kind \in Signed THEN (-Pow(n - 1))..(Pow(n - 1) - 1)
                 ELSE 0..(Pow(n) - 1)
    IN IF kind \in Floats THEN v
       ELSE CHOOSE r \in range : (r - v) % Pow(n) = 0
KeptElement(kind, v) == [k \in DOMAIN v |-> Kept(kind, v[k])]
All(j, v) == [k \in 1..Elements(j.dims) |-> KeptElement(j.kind, v)]

Init ==
    /\ job \in Jobs
    /\ endian \in {"big", "little"}
    /\ word \in {4, 8}
    /\ \E v \in job[1].values, w \in job[2].values :
           /\ a = Filled(job[1], v) /\ inA = All(job[1], v)
           /\ b = Filled(job[2], w) /\ inB = All(job[2], w)
    /\ copy = None
    /\ ops = 0

Step == ops < MaxOps /\ ops' = ops + 1 /\ UNCHANGED <<job, endian, word>>

Set(off, v) ==
    /\ Step
    /\ a' = caml_ba_set_aux(a, off, v)
    /\ inA' = [inA EXCEPT ![off + 1] = KeptElement(a.kind, v)]
    /\ UNCHANGED <<b, inB, copy>>
Fill(v) ==
    /\ Step
    /\ a' = caml_ba_fill(a, v)
    /\ inA' = All(job[1], v)
    /\ UNCHANGED <<b, inB, copy>>
Blit ==
    /\ Step
    /\ a.kind = b.kind /\ a.layout = b.layout      \* as their types say
    /\ MayBlit(a, b)
    /\ b' = caml_ba_blit(a, b)
    /\ inB' = inA
    /\ UNCHANGED <<a, inA, copy>>
(* The bytes of v, the most significant one first on a big-endian machine.   *)
BytesOf(v, n) ==
    LET digit(k) == (v \div Pow(Bits * k)) % Pow(Bits)
    IN [k \in 1..n |-> digit(IF endian = "big" THEN n - k ELSE k - 1)]
SetWide(idx, n, v) ==
    /\ Step
    /\ a.kind \in {"UINT8", "CHAR"} /\ Len(a.dims) = 1
    /\ MayAccess(a, idx, n)
    /\ a' = CASE n = 2 -> caml_ba_uint8_set16(a, idx, v)
              [] n = 4 -> caml_ba_uint8_set32(a, idx, v)
              [] n = 8 -> caml_ba_uint8_set64(a, idx, v)
    /\ inA' = [k \in DOMAIN inA |->
                  IF k \in (idx + 1)..(idx + n)
                  THEN <<BytesOf(v, n)[k - idx]>> ELSE inA[k]]
    /\ UNCHANGED <<b, inB, copy>>
Marshal(w) ==
    /\ Step
    /\ copy' = [of |-> a, elements |-> inA, to |-> w,
                result |-> caml_ba_deserialize(caml_ba_serialize(a), w)]
    /\ UNCHANGED <<a, inA, b, inB>>

Next ==
    \/ \E off \in 0..(Elements(a.dims) - 1), v \in job[1].values : Set(off, v)
    \/ \E v \in job[1].values : Fill(v)
    \/ Blit
    \/ \E idx \in {-1, 0, 1, 2}, n \in {2, 4, 8}, v \in {-1, 2, 5} :
           SetWide(idx, n, v)
    \/ \E w \in {4, 8} : Marshal(w)
Spec == Init /\ [][Next]_vars

------------------------------------------------------------------------------
Wide(x, idx, n) ==
    CASE n = 2 -> caml_ba_uint8_get16(x, idx)
      [] n = 4 -> caml_ba_uint8_get32(x, idx)
      [] n = 8 -> caml_ba_uint8_get64(x, idx)

(* Every read gives what the writes, fills and copies before it put there,   *)
(* reduced to the width of the kind, and a read of several bytes gives the   *)
(* integer that those bytes make on this machine (bigarray.mli: "get",       *)
(* "fill", "blit"; the bytes primitives of Bytes and Bigstring).             *)
ContentsRight ==
    /\ \A off \in 1..Len(inA) : caml_ba_get_N(a, off - 1) = inA[off]
    /\ \A off \in 1..Len(inB) : caml_ba_get_N(b, off - 1) = inB[off]
    /\ (a.kind \in {"UINT8", "CHAR"} /\ Len(a.dims) = 1) =>
          \A idx \in 0..Len(inA), n \in {2, 4, 8} :
              /\ MayAccess(a, idx, n) <=> idx + n <= Len(inA)
              /\ MayAccess(a, idx, n) =>
                    BytesOf(Wide(a, idx, n), n)
                        = [k \in 1..n |-> inA[idx + k][1]]

(* Reading a marshalled bigarray back gives the same bigarray, on the same   *)
(* machine and on one with other words; the only failure is that of integers *)
(* that the reader has no room for (caml_ba_deserialize_longarray).          *)
MarshalExact ==
    copy # None =>
        LET x == copy.of
            r == copy.result
            bits == IF x.kind = "CAML_INT" THEN 4 * Bits - 1 ELSE 4 * Bits
            fits(e) == e[1] \in (-Pow(bits - 1))..(Pow(bits - 1) - 1)
        IN IF r.error
           THEN /\ x.kind \in {"CAML_INT", "NATIVE_INT"} /\ copy.to = 4
                /\ \E k \in DOMAIN copy.elements : ~fits(copy.elements[k])
           ELSE /\ r.kind = x.kind /\ r.layout = x.layout /\ r.dims = x.dims
                /\ Len(r.cells) = Len(x.cells)
                /\ \A k \in DOMAIN copy.elements, m \in 1..Cells(x.kind) :
                      Load(x.kind, copy.to,
                           r.cells[(k - 1) * Cells(x.kind) + m])
                          = copy.elements[k][m]

(* Comparison is a total order of contents in which all NaNs are one value   *)
(* and so are the zeros, and arrays that compare equal hash alike            *)
(* (Stdlib.compare and Hashtbl.hash on bigarrays).                           *)
OrderAgrees ==
    LET c == caml_ba_compare(a, b)
        same(e, f) == \A k \in DOMAIN e :
            \/ e[k] \in NaNs /\ f[k] \in NaNs /\ a.kind \in Floats
            \/ Num(e[k]) = Num(f[k])
        equal == /\ a.kind = b.kind /\ a.layout = b.layout /\ a.dims = b.dims
                 /\ \A k \in DOMAIN inA : same(inA[k], inB[k])
    IN /\ caml_ba_compare(b, a) = -c
       /\ c = 0 <=> equal
       /\ c = 0 => caml_ba_hash(a) = caml_ba_hash(b)
==============================================================================
