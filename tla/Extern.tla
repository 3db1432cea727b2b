------------------------------ MODULE Extern ------------------------------
(* Marshalling and unmarshalling, runtime/extern.c and runtime/intern.c.     *)
(*                                                                           *)
(* A value is a long, [b |-> 0, n |-> integer], a code pointer,              *)
(* [b |-> -1, n |-> address], or a pointer, [b |-> block, n |-> offset],     *)
(* whose offset is not zero when it is an infix pointer.  A heap is a        *)
(* sequence of blocks [tag, fields, data, name]: name stands for             *)
(* the contents of a string or of floats and for the identifier of a custom  *)
(* block, data is the length of a string or the number of floats.            *)
(*                                                                           *)
(* The message is a sequence of items [v, w]: v is a code, a digit or the    *)
(* name of a run of bytes, w is the number of bytes that it takes.  Numbers  *)
(* are written in base Radix (256 in the code), so that every width of the   *)
(* format occurs with small numbers: 2^8, 2^16, 2^32 and 2^64 are the powers *)
(* 1, 2, 4 and 8 of Radix.  Reversing the bytes of a float negates its name. *)
EXTENDS Integers, Sequences, SequencesExt, FiniteSets

CONSTANTS Radix,        \* 256: the base of the digits
          SmallInt,     \* 0x40: integers below it take one byte
          SmallString,  \* 0x20: lengths below it take one byte
          SmallSize,    \* 8: sizes below it take one byte (with a tag < 16)
          Block32,      \* 2^22: headers of smaller blocks take 32 bits
          CompatString, \* 0xFFFFFB: longest string of a 32-bit reader
          CompatFloats, \* 0x1FFFFF: longest float array of a 32-bit reader
          OutputBlock,  \* SIZE_EXTERN_OUTPUT_BLOCK
          PosInit,      \* POS_TABLE_INIT_SIZE
          PosQuick,     \* 10^6: below it the position table grows by 8
          StackInit,    \* EXTERN_STACK_INIT_SIZE
          StackMax,     \* EXTERN_STACK_MAX_SIZE
          Fragments,    \* the code fragments: [start, end, digest], digest 0 if private
          Foreign,      \* the digests of the fragments that the reader does not have
          Customs       \* the custom operations: [fixed, width, serialize, known] by name

Forcing == 244
Cont == 245
Lazy == 246
Closure == 247
Object == 248
Forward == 250
Abstract == 251
String == 252
Double == 253
DoubleArray == 254
Custom == 255

Max8 == Radix
Max16 == Radix * Radix
Max32 == Max16 * Max16
Max64 == Max32 * Max32
Long(n) == [b |-> 0, n |-> n]
Code(pt) == [b |-> -1, n |-> pt]
Ptr(b) == [b |-> b, n |-> 0]
IsLong(v) == v.b = 0
RECURSIVE WidthSum(_)
WidthSum(items) ==
  CASE items = <<>> -> 0
    [] Len(items) = 1 -> items[1].w
    [] OTHER -> LET half == Len(items) \div 2
                IN WidthSum(SubSeq(items, 1, half)) + WidthSum(SubSeq(items, half + 1, Len(items)))

(* The closure information word: arity and start of the environment.         *)
Closinfo(arity, startenv) == Long(Max16 * arity + startenv)
StartEnv(info) == info.n % Max16

(***************************************************************************)
(* The output buffer: a list of blocks, or the buffer of the caller.         *)
(***************************************************************************)
Room(s) == s.cap - WidthSum(Last(s.out))
FreeOutput(s) == [s EXCEPT !.out = <<<<>>>>, !.stack = <<>>, !.table = <<>>]
Failed(s, why) == IF s.err = "" THEN [FreeOutput(s) EXCEPT !.err = why] ELSE s

grow_extern_output(s, required) ==
  IF s.user THEN Failed(s, "buffer overflow")
  ELSE [s EXCEPT !.out = Append(@, <<>>),
                 !.cap = OutputBlock + (IF required <= OutputBlock \div 2 THEN 0
                                        ELSE required)]

AddItems(s, items) == [s EXCEPT !.out[Len(s.out)] = @ \o items]

Write(s, items) ==
  LET n == WidthSum(items)
      g == IF n > Room(s) THEN grow_extern_output(s, n) ELSE s
  IN IF s.err # "" THEN s ELSE IF g.err # "" THEN g ELSE AddItems(g, items)

Digit(d) == [v |-> d, w |-> 1]
(* store16, store32 and store64: the w low digits of n, big end first.       *)
RECURSIVE Store(_, _)
Store(w, n) == IF w = 0 THEN <<>> ELSE Append(Store(w - 1, n \div Radix), Digit(n % Radix))
RECURSIVE storevlq(_)
storevlq(n) ==
  LET base == Radix \div 2
      high == storevlq(n \div base)
  IN IF n < base THEN <<Digit(n)>>
     ELSE Append(SubSeq(high, 1, Len(high) - 1)
                 \o <<Digit(base + Last(high).v)>>, Digit(n % base))

writecode(s, code, w, n) == Write(s, <<[v |-> code, w |-> 1]>> \o Store(w, n))
writebyte(s, code, n) == Write(s, <<[v |-> code, w |-> 0], Digit(n)>>)
writeblock(s, name, len) == Write(s, <<[v |-> name, w |-> len]>>)

extern_int(s, n) ==
  IF n >= 0 /\ n < SmallInt THEN writebyte(s, "small_int", n)
  ELSE IF n >= -(Max8 \div 2) /\ n < Max8 \div 2 THEN writecode(s, "int8", 1, n)
  ELSE IF n >= -(Max16 \div 2) /\ n < Max16 \div 2 THEN writecode(s, "int16", 2, n)
  ELSE IF n < -(Max32 \div 4) \/ n >= Max32 \div 4
       THEN IF "compat_32" \in s.flags THEN Failed(s, "integer too large")
            ELSE writecode(s, "int64", 8, n)
  ELSE writecode(s, "int32", 4, n)

extern_shared_reference(s, d) ==
  IF d < Max8 THEN writecode(s, "shared8", 1, d)
  ELSE IF d < Max16 THEN writecode(s, "shared16", 2, d)
  ELSE IF d >= Max32 THEN writecode(s, "shared64", 8, d)
  ELSE writecode(s, "shared32", 4, d)

(* The tag travels as it is: it fits in its byte of the header.              *)
extern_header(s, sz, tag) ==
  IF tag < 16 /\ sz < SmallSize THEN Write(s, <<[v |-> "small_block", w |-> 0], [v |-> tag, w |-> 0], Digit(sz)>>)
  ELSE IF sz >= Block32 /\ "compat_32" \in s.flags THEN Failed(s, "array too large")
  ELSE LET wide == sz >= Block32
       IN Write(s, <<[v |-> IF wide THEN "block64" ELSE "block32", w |-> 1], [v |-> tag, w |-> 1]>>
                   \o Store(IF wide THEN 7 ELSE 3, sz))

extern_string(s, name, len) ==
  LET h == IF len < SmallString THEN writebyte(s, "small_string", len)
           ELSE IF len < Max8 THEN writecode(s, "string8", 1, len)
           ELSE IF len > CompatString /\ "compat_32" \in s.flags
                THEN Failed(s, "string too long")
           ELSE IF len < Max32 THEN writecode(s, "string32", 4, len)
           ELSE writecode(s, "string64", 8, len)
  IN writeblock(h, name, len)

(* The codes of floats name the order of their bytes.                        *)
Reversed(name) == -name
Native(s, name) == IF s.big THEN Reversed(name) ELSE name
FloatCode(kind, s) ==
  CASE kind = "double" -> IF s.big THEN "double_big" ELSE "double_little"
    [] kind = "array8" -> IF s.big THEN "array8_big" ELSE "array8_little"
    [] kind = "array32" -> IF s.big THEN "array32_big" ELSE "array32_little"
    [] kind = "array64" -> IF s.big THEN "array64_big" ELSE "array64_little"

extern_double(s, name) == writeblock(Write(s, <<[v |-> FloatCode("double", s), w |-> 1]>>), Native(s, name), 8)

extern_double_array(s, name, nfloats) ==
  LET h == IF nfloats < Max8 THEN writecode(s, FloatCode("array8", s), 1, nfloats)
           ELSE IF nfloats > CompatFloats /\ "compat_32" \in s.flags
                THEN Failed(s, "float array too long")
           ELSE IF nfloats < Max32 THEN writecode(s, FloatCode("array32", s), 4, nfloats)
           ELSE writecode(s, FloatCode("array64", s), 8, nfloats)
  IN writeblock(h, Native(s, name), 8 * nfloats)

(***************************************************************************)
(* Custom blocks: the number of elements, then the elements.                 *)
(***************************************************************************)
caml_serialize_int(s, w, n) == Write(s, Store(w, n))
caml_serialize_block(s, w, xs) ==
  Write(s, FoldLeft(LAMBDA acc, x : acc \o Store(w, x.n), <<>>, xs))
Serialized(s, blk) ==
  caml_serialize_block(caml_serialize_int(s, 4, Len(blk.fields)),
                       Customs[blk.name].width, blk.fields)
BodySize(blk) == Customs[blk.name].width * Len(blk.fields)

(* The lengths are stored, after the body is known, where they were reserved. *)
Backpatch(s, at, n) ==
  [s EXCEPT !.out[at[1]] =
     SubSeq(@, 1, at[2]) \o Store(4, n) \o Store(8, n)
     \o SubSeq(@, at[2] + 13, Len(@))]

AtEnd(s) == <<Len(s.out), Len(Last(s.out))>>
WithLengths(s, blk, at) == IF s.err # "" THEN s ELSE Backpatch(s, at, BodySize(blk))
Measured(s, blk) ==
  IF s.err # "" THEN s ELSE WithLengths(Serialized(AddItems(s, Store(12, 0)), blk), blk, AtEnd(s))
CustomBody(s, blk) ==
  IF Customs[blk.name].fixed THEN Serialized(s, blk)
  ELSE IF s.err # "" THEN s
  ELSE Measured(IF Room(s) <= 12 THEN grow_extern_output(s, 12) ELSE s, blk)
extern_custom(s, blk) ==
  LET ops == Customs[blk.name]
      code == IF ops.fixed THEN "custom_fixed" ELSE "custom_len"
  IN IF ~ops.serialize THEN Failed(s, "abstract value (Custom)")
     ELSE CustomBody(writeblock(Write(s, <<[v |-> code, w |-> 1]>>), blk.name, 2), blk)

FragmentsAt(pt) == {f \in Fragments : f.start <= pt /\ pt < f.end}
extern_code_pointer(s, pt) ==
  IF FragmentsAt(pt) = {} THEN Failed(s, "abstract value (outside heap)")
  ELSE LET cf == CHOOSE f \in FragmentsAt(pt) : TRUE
       IN IF "closures" \notin s.flags THEN Failed(s, "functional value")
          ELSE IF cf.digest = 0 THEN Failed(s, "private function")
          ELSE writeblock(writecode(s, "codepointer", 4, pt - cf.start), cf.digest, 16)

(* The words before the environment: entry points, information words and,    *)
(* for all functions but the first, infix headers.                           *)
ClosureWord(s, f) == IF f.b = -1 THEN extern_code_pointer(s, f.n) ELSE extern_int(s, f.n)
extern_closure_up_to_env(s, blk) ==
  FoldLeft(ClosureWord, s, SubSeq(blk.fields, 1, StartEnv(blk.fields[2])))

(***************************************************************************)
(* The table of the positions of the objects already written: open           *)
(* addressing, where the object number stands for the hashed address.        *)
(***************************************************************************)
NoEntry == [obj |-> Long(0), pos |-> 0]
EmptyTable(size) == [i \in 0 .. size - 1 |-> NoEntry]
TableSize(table) == Cardinality(DOMAIN table)
Threshold(size) == (size * 2) \div 3
Hash(v, size) == (v.b + v.n) % size
RECURSIVE Probe(_, _, _)
Probe(table, v, h) ==
  IF table[h] = NoEntry \/ table[h].obj = v THEN h
  ELSE Probe(table, v, (h + 1) % TableSize(table))
extern_lookup_position(s, v) == Probe(s.table, v, Hash(v, TableSize(s.table)))

extern_init_position_table(s) ==
  IF "no_sharing" \in s.flags THEN s ELSE [s EXCEPT !.table = EmptyTable(PosInit)]

extern_resize_position_table(old) ==
  LET size == TableSize(old)
      new == EmptyTable(IF size < PosQuick THEN 8 * size ELSE 2 * size)
      Insert(table, i) ==
        IF old[i] = NoEntry THEN table
        ELSE [table EXCEPT ![Probe(table, old[i].obj, Hash(old[i].obj, TableSize(new)))] = old[i]]
  IN FoldLeft(Insert, new, [i \in 1 .. size |-> i - 1])

extern_record_location(s, v, h) ==
  IF "no_sharing" \in s.flags THEN s
  ELSE LET t == [s.table EXCEPT ![h] = [obj |-> v, pos |-> s.objs]]
       IN [s EXCEPT !.objs = @ + 1,
                    !.table = IF s.objs + 1 >= Threshold(TableSize(t))
                              THEN extern_resize_position_table(t) ELSE t]

(***************************************************************************)
(* The traversal.                                                            *)
(***************************************************************************)
extern_resize_stack(s) ==
  IF 2 * s.limit >= StackMax THEN Failed(s, "out of memory") ELSE [s EXCEPT !.limit = 2 * @]
(* Fields i, i + 1, ... of block b remain, count of them.                    *)
PushRest(s, b, i, count) ==
  IF count = 0 THEN s
  ELSE LET g == IF Len(s.stack) + 1 >= s.limit THEN extern_resize_stack(s) ELSE s
       IN IF g.err # "" THEN g
          ELSE [g EXCEPT !.stack = Append(@, [b |-> b, i |-> i, count |-> count])]
NextItem(s, heap) ==
  IF s.err # "" THEN s
  ELSE IF s.stack = <<>> THEN [s EXCEPT !.done = TRUE]
  ELSE LET top == Last(s.stack)
           rest == SubSeq(s.stack, 1, Len(s.stack) - 1)
       IN [s EXCEPT !.v = heap[top.b].fields[top.i],
                    !.stack = IF top.count = 1 THEN rest
                              ELSE Append(rest, [top EXCEPT !.i = @ + 1, !.count = @ - 1])]

StringWords(len, bytes) == (len + bytes) \div bytes
Sized(s, w32, w64) == [s EXCEPT !.size32 = @ + w32, !.size64 = @ + w64]

(* Forwarding pointers are followed, except to what may not be merged with   *)
(* its lazy value.                                                           *)
ShortCut(heap, v) ==
  /\ v.b > 0 /\ v.n = 0 /\ heap[v.b].tag = Forward
  /\ LET f == heap[v.b].fields[1]
     IN f.b = 0 \/ f.n # 0 \/ heap[f.b].tag \notin {Forward, Lazy, Forcing, Double}

(* The block with its fields from i on still to be written: continue with    *)
(* field i.                                                                  *)
Fields(s, heap, b, i) ==
  LET sz == Len(heap[b].fields)
      p == PushRest(s, b, i + 1, sz - i)
  IN IF s.err # "" THEN s ELSE IF i > sz THEN NextItem(s, heap)
     ELSE [p EXCEPT !.v = heap[b].fields[i]]

Contents(s, heap, v, h) ==
  LET blk == heap[v.b]
      sz == Len(blk.fields)
      At(w) == IF w.err # "" THEN w ELSE extern_record_location(w, v, h)
      Simple(w, w32, w64) == NextItem(At(Sized(w, w32, w64)), heap)
      Headed == At(Sized(extern_header(s, sz, blk.tag), 1 + sz, 1 + sz))
  IN CASE blk.tag = String -> Simple(extern_string(s, blk.name, blk.data), 1 + StringWords(blk.data, 4),
                                     1 + StringWords(blk.data, 8))
       [] blk.tag = Double -> Simple(extern_double(s, blk.name), 3, 2)
       [] blk.tag = DoubleArray -> Simple(extern_double_array(s, blk.name, blk.data),
                                          1 + 2 * blk.data, 1 + blk.data)
       [] blk.tag = Abstract -> Failed(s, "abstract value (Abstract)")
       [] blk.tag = Cont -> Failed(s, "continuation value")
       [] blk.tag = Custom -> Simple(extern_custom(s, blk), 2 + (BodySize(blk) + 3) \div 4,
                                     2 + (BodySize(blk) + 7) \div 8)
       [] blk.tag = Closure -> Fields(IF Headed.err # "" THEN Headed
                                      ELSE extern_closure_up_to_env(Headed, blk),
                                      heap, v.b, StartEnv(blk.fields[2]) + 1)
       [] OTHER -> Fields(Headed, heap, v.b, 1)

IsAtom(heap, b) == heap[b].tag \notin {String, Double, DoubleArray} /\ heap[b].fields = <<>>

extern_rec(s, heap) ==
  LET v == s.v
      h == extern_lookup_position(s, v)
  IN IF IsLong(v) THEN NextItem(extern_int(s, v.n), heap)
     ELSE IF ShortCut(heap, v) THEN [s EXCEPT !.v = heap[v.b].fields[1]]
     ELSE IF v.n = 0 /\ IsAtom(heap, v.b) THEN NextItem(extern_header(s, 0, heap[v.b].tag), heap)
     ELSE IF "no_sharing" \notin s.flags /\ s.table[h] # NoEntry
          THEN NextItem(extern_shared_reference(s, IF "compressed" \in s.flags THEN s.table[h].pos
                                                   ELSE s.objs - s.table[h].pos), heap)
     ELSE IF v.n # 0 THEN [writecode(s, "infix", 4, v.n) EXCEPT !.v = Ptr(v.b)]
     ELSE Contents(s, heap, v, IF "no_sharing" \in s.flags THEN 0 ELSE h)
RECURSIVE ExternLoop(_, _)
ExternLoop(s, heap) == IF s.done \/ s.err # "" THEN s ELSE ExternLoop(extern_rec(s, heap), heap)

(***************************************************************************)
(* The header, and the message as a list of blocks.                          *)
(***************************************************************************)
Lengths(w, ns) == FoldLeft(LAMBDA acc, n : acc \o Store(w, n), <<>>, ns)
Vlqs(ns) == FoldLeft(LAMBDA acc, n : acc \o storevlq(n), <<>>, ns)
Magic(kind) == [v |-> kind, w |-> 4]
(* The compressor (external) makes one short run of bytes of the message.    *)
Compressed(items) == <<[v |-> items, w |-> Len(items)]>>
OutputLength(s) == WidthSum(FlattenSeq(s.out))

(* What has been traversed and written is given its header.                  *)
WriteHeader(s) ==
  LET len == OutputLength(s)
      z == [s EXCEPT !.out = <<Compressed(FlattenSeq(s.out))>>]
      vlqs == Vlqs(<<OutputLength(z), len, s.objs, s.size32, s.size64>>)
      tooBig == \E n \in {len, s.size32, s.size64} : n >= Max32
  IN IF s.err # "" THEN s
     ELSE IF "compat_32" \in s.flags /\ tooBig THEN Failed(s, "object too big")
     ELSE IF "compressed" \in s.flags
          THEN [z EXCEPT !.header = <<Magic("compressed"), [v |-> 5 + Len(vlqs), w |-> 1]>> \o vlqs]
     ELSE IF tooBig
          THEN [s EXCEPT !.header = <<Magic("big")>> \o Lengths(4, <<0>>) \o Lengths(8, <<len, s.objs, s.size64>>)]
     ELSE [s EXCEPT !.header = <<Magic("small")>> \o Lengths(4, <<len, s.objs, s.size32, s.size64>>)]
extern_value(s, heap) == WriteHeader(ExternLoop(extern_init_position_table(s), heap))

(* caml_convert_flag_list and init_extern_output, or the buffer of the caller. *)
InitOutput(j) ==
  LET user == j.out = "block"
  IN [flags |-> IF user THEN j.flags \ {"compressed"} ELSE j.flags, big |-> j.big, user |-> user,
      out |-> <<<<>>>>, cap |-> IF user THEN j.len - 20 ELSE OutputBlock, objs |-> 0, size32 |-> 0,
      size64 |-> 0, stack |-> <<>>, limit |-> StackInit, table |-> <<>>, err |-> "", v |-> j.root,
      done |-> FALSE, header |-> <<>>]

(* caml_output_value_to_block guesses a header of 20 bytes.                  *)
caml_output_value_to_block(s, j) ==
  IF s.err = "" /\ WidthSum(s.header) # 20 /\ WidthSum(s.header) + OutputLength(s) > j.len
  THEN [s EXCEPT !.err = "buffer overflow"] ELSE s

(* caml_obj_reachable_words: the same traversal, adding sizes.               *)
NoScan == {Abstract, String, Double, DoubleArray, Custom}
Words(blk) == CASE blk.tag = String -> StringWords(blk.data, 8)
                [] blk.tag \in {Double, DoubleArray} -> blk.data
                [] blk.tag = Custom -> 1 + (BodySize(blk) + 7) \div 8
                [] OTHER -> Len(blk.fields)
RECURSIVE caml_obj_reachable_words(_, _)
caml_obj_reachable_words(s, heap) ==
  LET v == s.v
      h == extern_lookup_position(s, v)
      seen == [extern_record_location(s, v, h) EXCEPT !.size64 = @ + 1 + Words(heap[v.b])]
      first == IF heap[v.b].tag = Closure THEN StartEnv(heap[v.b].fields[2]) + 1 ELSE 1
  IN IF s.done \/ s.err # "" THEN s
     ELSE caml_obj_reachable_words(
            IF IsLong(v) THEN NextItem(s, heap)
            ELSE IF s.table[h] # NoEntry THEN NextItem(s, heap)
            ELSE IF v.n # 0 THEN [s EXCEPT !.v = Ptr(v.b)]
            ELSE IF heap[v.b].tag \in NoScan THEN NextItem(seen, heap)
            ELSE Fields(seen, heap, v.b, first), heap)

-----------------------------------------------------------------------------
(* Unmarshalling, runtime/intern.c: the message becomes a heap again.      *)

(* r.src is what remains of the message.                                     *)
Unsigned(items) == FoldLeft(LAMBDA acc, i : acc * Radix + i.v, 0, items)
Signed(items) ==
  FoldLeft(LAMBDA acc, i : acc * Radix + i.v,
           IF items[1].v >= Radix \div 2 THEN -1 ELSE 0, items)
ReadU(src, w) == Unsigned(SubSeq(src, 1, w))
ReadS(src, w) == Signed(SubSeq(src, 1, w))
Skip(src, n) == SubSeq(src, n + 1, Len(src))
RECURSIVE readvlq(_, _)
readvlq(src, n) ==
  LET base == Radix \div 2
      m == ((n * base) % Max64) + (Head(src).v % base)
  IN IF Head(src).v >= base THEN readvlq(Tail(src), m) ELSE [n |-> m, src |-> Tail(src)]
RECURSIVE ReadVlqs(_, _)
ReadVlqs(src, k) ==
  IF k = 0 THEN <<>> ELSE LET r == readvlq(src, 0) IN <<r.n>> \o ReadVlqs(r.src, k - 1)
ReadLengths(src, w, k) == [i \in 1 .. k |-> ReadU(Skip(src, (i - 1) * w), w)]

HeaderLen(items) ==
  CASE items[1].v = "big" -> 32
    [] items[1].v = "compressed" -> items[2].v
    [] OTHER -> 20

caml_parse_header(src) ==
  CASE src[1].v = "small" -> LET n == ReadLengths(Tail(src), 4, 4)
         IN [err |-> "", compressed |-> FALSE, len |-> n[1], objects |-> n[2], whsize |-> n[4]]
    [] src[1].v = "big" -> LET n == ReadLengths(Skip(src, 5), 8, 3)
         IN [err |-> "", compressed |-> FALSE, len |-> n[1], objects |-> n[2], whsize |-> n[3]]
    [] src[1].v = "compressed" -> LET n == ReadVlqs(Skip(src, 2), 5)
         IN [err |-> "", compressed |-> TRUE, len |-> n[1], objects |-> n[3], whsize |-> n[5]]
    [] OTHER -> [err |-> "bad object", compressed |-> FALSE, len |-> 0, objects |-> 0, whsize |-> 0]

(* What remains to be read after the first 16 bytes.                         *)
caml_marshal_data_size(src) == (HeaderLen(src) - 16) + caml_parse_header(src).len

(* A failure that leaves the context as it is.                               *)
FailedAsIs(r, why) == [r EXCEPT !.err = why, !.stack = <<>>]
ReadFailed(r, why) == [r EXCEPT !.err = why, !.input = FALSE, !.table = <<>>, !.stack = <<>>]
(* intern_alloc_obj, for a block of the given number of words.               *)
intern_alloc_obj(r, blk, words) == [r EXCEPT !.heap = Append(@, blk), !.words = @ + 1 + words]
Seen(r) == IF r.objects > 0 THEN [r EXCEPT !.table = Append(@, Ptr(Len(r.heap)))] ELSE r
Assign(r, dest, v) ==
  IF dest.b = 0 THEN [r EXCEPT !.res = v] ELSE [r EXCEPT !.heap[dest.b].fields[dest.i] = v]
PushItem(r, op, b, i, arg) ==
  LET full == Len(r.stack) + 1 >= r.limit
  IN IF r.err # "" THEN r
     ELSE IF full /\ 2 * r.limit >= StackMax THEN ReadFailed(r, "out of memory")
     ELSE [r EXCEPT !.stack = Append(@, [op |-> op, b |-> b, i |-> i, arg |-> arg]),
                    !.limit = IF full THEN 2 * @ ELSE @]
ReadItems(r, b, i, n) == IF n > 0 THEN PushItem(r, "read", b, i, n) ELSE r

NewBlock(tag, size, data, name) ==
  [tag |-> tag, fields |-> [i \in 1 .. size |-> Long(0)], data |-> data, name |-> name]
Filled(r, dest, n) == Assign([r EXCEPT !.src = Skip(@, n)], dest, Ptr(Len(r.heap)))

(* read_block: an object has its identity refreshed between its second field *)
(* and the others.                                                           *)
read_block(r, dest, tag, size, n) ==
  LET a == Seen(intern_alloc_obj(r, NewBlock(tag, size, 0, 0), size))
      b == Len(a.heap)
      d == Filled(a, dest, n)
  IN IF size = 0   \* Atom(tag): not allocated, here a block of no words
     THEN Filled([r EXCEPT !.heap = Append(@, NewBlock(tag, 0, 0, 0))], dest, n)
     ELSE IF tag = Object
          THEN ReadItems(PushItem(ReadItems(d, b, 3, size - 2), "fresh", b, 2, 1), b, 1, 2)
          ELSE ReadItems(d, b, 1, size)

read_string(r, dest, len, n) ==
  LET src == Skip(r.src, n)
      blk == NewBlock(String, 0, len, src[1].v)
  IN Filled(Seen(intern_alloc_obj(r, blk, StringWords(len, 8))), dest, n + 1)

readfloat(r, code, name) ==
  IF r.big THEN IF code # "double_big" THEN Reversed(name) ELSE name
  ELSE IF code # "double_little" THEN Reversed(name) ELSE name
(* The order of the bytes decided by the shortest form of the code only.     *)
ReadFloats8(r, code, name) ==
  IF code # (IF r.big THEN "array8_big" ELSE "array8_little") THEN Reversed(name) ELSE name
readfloats(r, code, name) ==
  IF r.big THEN IF code \notin {"array8_big", "array32_big"} THEN Reversed(name) ELSE name
  ELSE IF code \notin {"array8_little", "array32_little"} THEN Reversed(name) ELSE name
(* The name of a float is that of its bytes in the order of the machine.     *)
InOrder(r, name) == IF r.big THEN Reversed(name) ELSE name
read_double_array(r, dest, code, len, n) ==
  LET name == InOrder(r, readfloats(r, code, Skip(r.src, n)[1].v))
  IN Filled(Seen(intern_alloc_obj(r, NewBlock(DoubleArray, 0, len, name), len)), dest, n + 1)

read_shared(r, dest, w) ==
  LET d == ReadU(Tail(r.src), w)
      ofs == IF r.compressed THEN d ELSE Len(r.table) - d
  IN Assign([r EXCEPT !.src = Skip(@, w + 1)], dest, r.table[ofs + 1])

read_codepointer(r, dest) ==
  LET digest == r.src[6].v
      cf == CHOOSE f \in Fragments : f.digest = digest
      pt == cf.start + ReadU(Tail(r.src), 4)
  IN IF digest \in Foreign \/ pt >= cf.end THEN ReadFailed(r, "unknown code module")
     ELSE Assign([r EXCEPT !.src = Skip(@, 6)], dest, Code(pt))

(* The number of elements, then the elements.                                *)
caml_deserialize_block(src, w, n) == [i \in 1 .. n |-> Long(ReadS(Skip(src, (i - 1) * w), w))]
read_custom(r, dest, code) ==
  LET name == r.src[2].v
      ops == Customs[name]
      body == Skip(r.src, IF code = "custom_fixed" THEN 2 ELSE 14)
      n == ReadU(body, 4)
      fields == caml_deserialize_block(Skip(body, 4), ops.width, n)
      expected == IF code = "custom_fixed" THEN ops.size ELSE ReadU(Skip(r.src, 6), 8)
      blk == [tag |-> Custom, fields |-> fields, data |-> 0, name |-> name]
      a == intern_alloc_obj(r, blk, 1 + (expected + 7) \div 8)
  IN IF ~ops.known THEN ReadFailed(r, "unknown custom block identifier")
     ELSE IF code = "custom_fixed" /\ ~ops.fixed THEN ReadFailed(r, "expected a fixed-size custom block")
     ELSE IF n * ops.width # expected THEN ReadFailed(a, "error while deserializing")
     ELSE Assign([Seen(a) EXCEPT !.src = Skip(body, 4 + n * ops.width)], dest, Ptr(Len(a.heap)))

ReadLong(r, dest, w) == Assign([r EXCEPT !.src = Skip(@, w + 1)], dest, Long(ReadS(Tail(r.src), w)))
ReadValue(r, dest) ==
  LET src == r.src
      code == src[1].v
      U(w) == ReadU(Tail(src), w)
  IN CASE code = "small_int" -> Assign([r EXCEPT !.src = Skip(@, 2)], dest, Long(src[2].v))
       [] code = "int8" -> ReadLong(r, dest, 1)
       [] code = "int16" -> ReadLong(r, dest, 2)
       [] code = "int32" -> ReadLong(r, dest, 4)
       [] code = "int64" -> ReadLong(r, dest, 8)
       [] code = "shared8" -> read_shared(r, dest, 1)
       [] code = "shared16" -> read_shared(r, dest, 2)
       [] code = "shared32" -> read_shared(r, dest, 4)
       [] code = "shared64" -> read_shared(r, dest, 8)
       [] code = "small_block" -> read_block(r, dest, src[2].v, src[3].v, 3)
       [] code = "block32" -> read_block(r, dest, src[2].v, ReadU(Skip(src, 2), 3), 5)
       [] code = "block64" -> read_block(r, dest, src[2].v, ReadU(Skip(src, 2), 7), 9)
       [] code = "small_string" -> read_string(r, dest, src[2].v, 2)
       [] code = "string8" -> read_string(r, dest, U(1), 2)
       [] code = "string32" -> read_string(r, dest, U(4), 5)
       [] code = "string64" -> read_string(r, dest, U(8), 9)
       [] code \in {"double_little", "double_big"} ->
            LET blk == NewBlock(Double, 0, 1, InOrder(r, readfloat(r, code, src[2].v)))
            IN Filled(Seen(intern_alloc_obj(r, blk, 1)), dest, 2)
       [] code \in {"array8_little", "array8_big"} -> read_double_array(r, dest, code, U(1), 2)
       [] code \in {"array32_little", "array32_big"} -> read_double_array(r, dest, code, U(4), 5)
       [] code \in {"array64_little", "array64_big"} -> read_double_array(r, dest, code, U(8), 9)
       [] code = "codepointer" -> read_codepointer(r, dest)
       [] code = "infix" -> ReadItems(PushItem([r EXCEPT !.src = Skip(@, 5)],
                                               "shift", dest.b, dest.i, U(4)), dest.b, dest.i, 1)
       [] code \in {"custom_len", "custom_fixed"} -> read_custom(r, dest, code)

At(r, dest) == IF dest.b = 0 THEN r.res ELSE r.heap[dest.b].fields[dest.i]
FreshOID == Long(Max32)
intern_rec(r) ==
  LET top == Last(r.stack)
      dest == [b |-> top.b, i |-> top.i]
      popped == [r EXCEPT !.stack = SubSeq(@, 1, Len(@) - 1)]
      v == At(r, dest)
  IN CASE top.op = "fresh" -> IF v.n >= 0 THEN Assign(popped, dest, FreshOID) ELSE popped
       [] top.op = "shift" -> Assign(popped, dest, [v EXCEPT !.n = @ + top.arg])
       [] top.op = "read" ->
            ReadValue(IF top.arg = 1 THEN popped
                      ELSE [popped EXCEPT !.stack = Append(@, [top EXCEPT !.i = @ + 1, !.arg = @ - 1])],
                      dest)
RECURSIVE InternLoop(_)
InternLoop(r) == IF r.stack = <<>> \/ r.err # "" THEN r ELSE InternLoop(intern_rec(r))

=============================================================================
