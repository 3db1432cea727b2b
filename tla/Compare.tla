------------------------------ MODULE Compare ------------------------------
(* Structural comparison (runtime/compare.c) and the generic hash function   *)
(* (runtime/hash.c).                                                         *)
(*                                                                           *)
(* A value is a long, [b |-> 0, n |-> integer], or a pointer,                *)
(* [b |-> address, n |-> offset] (an infix pointer when the offset is not    *)
(* zero).  A heap maps addresses to blocks [tag, fields, data]: data is the  *)
(* characters of a string, the floats of a double or a float array, the      *)
(* operations and the contents of a custom block.  A float is an integer in  *)
(* units of one half, NaN or the negative zero.                              *)
(*                                                                           *)
(* The comparison polls for pending actions; the collection that they may    *)
(* run moves the blocks and updates the roots.                               *)
EXTENDS Integers, Sequences, SequencesExt, FiniteSets

CONSTANTS StackInit,    \* COMPARE_STACK_INIT_SIZE
          StackAlloc,   \* COMPARE_STACK_MIN_ALLOC_SIZE
          StackMax,     \* COMPARE_STACK_MAX_SIZE
          PollPeriod,   \* COMPARE_POLL_PERIOD
          QueueSize,    \* HASH_QUEUE_SIZE
          MaxForward,   \* MAX_FORWARD_DEREFERENCE
          Heap,         \* the heap at the start
          Values,       \* the values that are compared
          Counts,       \* the count and limit arguments of caml_hash
          Custs,        \* the custom operations, by name: [cmp, ext, hash]
          Space         \* the distance between the two semispaces

VARIABLES x, y, total,  \* the arguments of compare_val
          heap,
          v1, v2,       \* the values under comparison
          stack,        \* the pending items, from the bottom
          limit,        \* the size of the stack
          timer,        \* poll_timer
          result        \* what compare_val returns, or what it raises
vars == <<x, y, total, heap, v1, v2, stack, limit, timer, result>>

Cont == 245
Closure == 247
Object == 248
Infix == 249
Forward == 250
Abstract == 251
String == 252
Double == 253
DoubleArray == 254
Custom == 255

NaN == 1000
NegZero == -1000
Num(f) == IF f = NegZero THEN 0 ELSE f
FLess(f, g) == f # NaN /\ g # NaN /\ Num(f) < Num(g)
FEqual(f, g) == f # NaN /\ g # NaN /\ Num(f) = Num(g)

Running == [kind |-> "running", n |-> 0]
Ret(n) == [kind |-> "int", n |-> n]
Unordered == [kind |-> "unordered", n |-> 0]
Raise == [kind |-> "raise", n |-> 0]

IsLong(v) == v.b = 0
(* What an address that was left behind by a collection holds.               *)
Reused == [tag |-> 0, fields |-> [i \in 1 .. 8 |-> [b |-> 0, n |-> 77]], data |-> <<>>]
At(b) == IF b \in DOMAIN heap THEN heap[b] ELSE Reused
Tag(v) == IF v.n # 0 THEN Infix ELSE At(v.b).tag
Field(v, i) == At(v.b).fields[i]
Size(v) == Len(At(v.b).fields)
Data(v) == At(v.b).data
Sign(n) == IF n < 0 THEN -1 ELSE IF n > 0 THEN 1 ELSE 0

(* memcmp on the common prefix, then the lengths.                            *)
StringOrder(s, t) ==
  LET differ == {i \in 1 .. (IF Len(s) <= Len(t) THEN Len(s) ELSE Len(t)) : s[i] # t[i]}
      i == CHOOSE k \in differ : \A m \in differ : k <= m
  IN IF differ # {} THEN IF s[i] < t[i] THEN -1 ELSE 1 ELSE Len(s) - Len(t)

(* 0 when the comparison must go on.                                         *)
DoubleOrder(f, g) ==
  IF FLess(f, g) THEN Ret(-1)
  ELSE IF FLess(g, f) THEN Ret(1)
  ELSE IF FEqual(f, g) THEN Ret(0)
  ELSE IF ~total THEN Unordered
  ELSE IF f # NaN THEN Ret(1)
  ELSE IF g # NaN THEN Ret(-1)
  ELSE Ret(0)
ArrayOrder(a, b) ==
  LET differ == {i \in DOMAIN a \cap DOMAIN b : DoubleOrder(a[i], b[i]) # Ret(0)}
      i == CHOOSE k \in differ : \A m \in differ : k <= m
  IN IF Len(a) # Len(b) THEN Ret(Len(a) - Len(b))
     ELSE IF differ = {} THEN Ret(0) ELSE DoubleOrder(a[i], b[i])

(* The compare functions of custom operations (external): numbers, where NaN *)
(* sets compare_unordered; compare_ext compares with a long.                 *)
CustomNum(v) == IF IsLong(v) THEN 2 * v.n ELSE Data(v)[2]
CompareCustom(v, w) ==
  LET f == CustomNum(v)
      g == CustomNum(w)
  IN IF (f = NaN \/ g = NaN) /\ ~total THEN Unordered
     ELSE Ret(Sign((IF f = NaN THEN -999 ELSE f) - (IF g = NaN THEN -999 ELSE g)))
Ops(v) == Custs[Data(v)[1]]

(***************************************************************************)
(* do_compare_val: the outcome of looking at v1 and v2.  "follow" continues  *)
(* with other values, "item" goes on to the next item, "push" descends.      *)
(***************************************************************************)
Done(r) == [to |-> "return", r |-> r, v |-> v1, w |-> v2]
Follow(v, w) == [to |-> "follow", r |-> Running, v |-> v, w |-> w]
Item == [to |-> "item", r |-> Running, v |-> v1, w |-> v2]
Push == [to |-> "push", r |-> Running, v |-> v1, w |-> v2]
OrItem(r) == IF r = Ret(0) THEN Item ELSE Done(r)

LongWithBlock ==
  IF Tag(v2) = Forward THEN Follow(v1, Field(v2, 1))
  ELSE IF Tag(v2) = Custom /\ Ops(v2).ext THEN OrItem(CompareCustom(v1, v2))
  ELSE Done(Ret(-1))
BlockWithLong ==
  IF Tag(v1) = Forward THEN Follow(Field(v1, 1), v2)
  ELSE IF Tag(v1) = Custom /\ Ops(v1).ext THEN OrItem(CompareCustom(v1, v2))
  ELSE Done(Ret(1))
Functional(t) == IF t = Infix THEN Closure ELSE t
SameTag(t) ==
  CASE t = Forward -> Follow(Field(v1, 1), Field(v2, 1))
    [] t = String -> OrItem(Ret(StringOrder(Data(v1), Data(v2))))
    [] t = Double -> OrItem(DoubleOrder(Data(v1)[1], Data(v2)[1]))
    [] t = DoubleArray -> OrItem(ArrayOrder(Data(v1), Data(v2)))
    [] t \in {Abstract, Closure, Cont} -> Done(Raise)
    [] t = Object -> OrItem(Ret(Field(v1, 2).n - Field(v2, 2).n))
    [] t = Custom ->
         IF Ops(v1).cmp # Ops(v2).cmp
         THEN Done(Ret(IF Data(v1)[1] < Data(v2)[1] THEN -1 ELSE 1))
         ELSE IF Ops(v1).cmp = 0 THEN Done(Raise)
         ELSE OrItem(CompareCustom(v1, v2))
    [] OTHER -> IF Size(v1) # Size(v2) THEN Done(Ret(Size(v1) - Size(v2)))
                ELSE IF Size(v1) = 0 THEN Item ELSE Push
Blocks ==
  LET t1 == Tag(v1)
      t2 == Tag(v2)
  IN IF t1 # t2 /\ t1 = Forward THEN Follow(Field(v1, 1), v2)
     ELSE IF t1 # t2 /\ t2 = Forward THEN Follow(v1, Field(v2, 1))
     ELSE IF Functional(t1) # Functional(t2) THEN Done(Ret(Functional(t1) - Functional(t2)))
     ELSE SameTag(Functional(t1))
Outcome ==
  IF v1 = v2 /\ (total \/ IsLong(v1)) THEN Item
  ELSE IF IsLong(v1) /\ IsLong(v2) THEN Done(Ret(v1.n - v2.n))
  ELSE IF IsLong(v1) THEN LongWithBlock
  ELSE IF IsLong(v2) THEN BlockWithLong
  ELSE Blocks

Init == /\ x \in Values /\ y \in Values /\ total \in BOOLEAN
        /\ heap = Heap
        /\ v1 = x /\ v2 = y
        /\ stack = <<>> /\ limit = StackInit
        /\ timer = PollPeriod - 1
        /\ result = Running

(* next_item: the next field of the last pending item.                       *)
PopItem ==
  IF stack = <<>> THEN result' = Ret(0) /\ UNCHANGED <<v1, v2, stack>>
  ELSE LET last == Last(stack)
           rest == SubSeq(stack, 1, Len(stack) - 1)
       IN /\ v1' = Field(last.v1, last.offset)
          /\ v2' = Field(last.v2, last.offset)
          /\ stack' = IF last.offset = last.size THEN rest
                      ELSE Append(rest, [last EXCEPT !.offset = @ + 1])
          /\ UNCHANGED result

compare_resize_stack == IF limit = StackInit THEN StackAlloc ELSE 2 * limit

Descend ==
  LET full == Len(stack) >= limit
      overflow == full /\ limit # StackInit /\ 2 * limit >= StackMax
  IN IF Size(v1) > 1 /\ overflow
     THEN result' = Raise /\ UNCHANGED <<v1, v2, stack, limit>>
     ELSE /\ stack' = IF Size(v1) > 1
                      THEN Append(stack, [v1 |-> v1, v2 |-> v2, offset |-> 2, size |-> Size(v1)])
                      ELSE stack
          /\ limit' = IF Size(v1) > 1 /\ full THEN compare_resize_stack ELSE limit
          /\ v1' = Field(v1, 1) /\ v2' = Field(v2, 1)
          /\ UNCHANGED result

do_compare_val ==
  LET o == Outcome
  IN /\ result = Running /\ timer > 0
     /\ timer' = timer - 1
     /\ \/ o.to = "return" /\ result' = o.r /\ UNCHANGED <<v1, v2, stack, limit>>
        \/ o.to = "follow" /\ v1' = o.v /\ v2' = o.w /\ UNCHANGED <<stack, limit, result>>
        \/ o.to = "item" /\ PopItem /\ UNCHANGED limit
        \/ o.to = "push" /\ Descend
     /\ UNCHANGED <<x, y, total, heap>>

(* A collection (external) copies the blocks to the other semispace.         *)
Moved(v, by) == IF IsLong(v) THEN v ELSE [v EXCEPT !.b = @ + by]
Copied(by) ==
  [a \in {b + by : b \in DOMAIN heap} |->
     [heap[a - by] EXCEPT !.fields = [i \in DOMAIN @ |-> Moved(@[i], by)]]]
(* The roots forgotten: the pending items keep their addresses.              *)
StackAsIs(by) == stack
(* run_pending_actions registers the items of the stack as roots.            *)
ScanStack(by) == [i \in DOMAIN stack |-> [stack[i] EXCEPT !.v1 = Moved(@, by), !.v2 = Moved(@, by)]]
Distance == IF \E a \in DOMAIN heap : a > Space THEN -Space ELSE Space
run_pending_actions ==
  /\ result = Running /\ timer = 0
  /\ timer' = PollPeriod - 1
  /\ \/ UNCHANGED <<heap, v1, v2, stack, result>>
     \/ /\ heap' = Copied(Distance) /\ stack' = ScanStack(Distance)
        /\ v1' = Moved(v1, Distance) /\ v2' = Moved(v2, Distance)
        /\ UNCHANGED result
     \/ result' = Raise /\ UNCHANGED <<heap, v1, v2, stack>>   \* a handler raised
  /\ UNCHANGED <<x, y, total, limit>>

Next == do_compare_val \/ run_pending_actions
Spec == Init /\ [][Next]_vars

(* The primitives on the result r of compare_val.                            *)
caml_compare(r) == Sign(r.n)
caml_equal(r) == r = Ret(0)
caml_notequal(r) == r # Ret(0)
caml_lessthan(r) == r # Unordered /\ r.n < 0
caml_lessequal(r) == r # Unordered /\ r.n <= 0
caml_greaterthan(r) == r # Unordered /\ r.n > 0
caml_greaterequal(r) == r # Unordered /\ r.n >= 0

(***************************************************************************)
(* caml_hash.  The hash is the sequence of what is mixed in: values that mix *)
(* the same things in the same order have the same hash.                     *)
(***************************************************************************)
Mix(h, d) == Append(h, d)
caml_hash_mix_intnat(h, n) == Mix(h, <<1, n>>)
(* The two zeros kept apart.                                                 *)
MixSigned(h, f) == Mix(h, <<2, f>>)
caml_hash_mix_double(h, f) == Mix(h, <<2, Num(f)>>)
caml_hash_mix_string(h, s) == Mix(h, <<3>> \o s)
caml_hash_mix_uint32(h, n) == Mix(h, <<4, n>>)
Cleanhd(b) == 256 * Len(Heap[b].fields) + Heap[b].tag

RECURSIVE Forwarded(_, _)
Forwarded(v, links) ==
  IF v.b > 0 /\ v.n = 0 /\ Heap[v.b].tag = Forward /\ links > 0
  THEN Forwarded(Heap[v.b].fields[1], links - 1) ELSE v
IsForward(v) == v.b > 0 /\ v.n = 0 /\ Heap[v.b].tag = Forward

(* Fields from i on, as many as the queue takes.                             *)
Queued(q, b, i, sz) ==
  LET n == Min({IF sz < q.wr THEN 0 ELSE sz - q.wr, Len(Heap[b].fields) - i + 1})
  IN [q EXCEPT !.queue = @ \o SubSeq(Heap[b].fields, i, i + n - 1), !.wr = @ + n]

(* As many floats as num allows, and one at least.                           *)
RECURSIVE HashFloats(_, _)
HashFloats(q, fs) ==
  IF fs = <<>> THEN q
  ELSE LET r == [q EXCEPT !.h = caml_hash_mix_double(@, Head(fs)), !.num = @ - 1]
       IN IF r.num <= 0 THEN r ELSE HashFloats(r, Tail(fs))

(* The words of a closure before its environment.                            *)
HashCode(q, b) ==
  FoldLeft(LAMBDA r, f : [r EXCEPT !.h = caml_hash_mix_intnat(@, f.n), !.num = @ - 1],
           q, SubSeq(Heap[b].fields, 1, Heap[b].data[1]))

RECURSIVE HashValue(_, _, _)
HashValue(q, w, sz) ==
  LET v == Forwarded(w, MaxForward)
      b == v.b
      One(h) == [q EXCEPT !.h = h, !.num = @ - 1]
      Head0 == [q EXCEPT !.h = caml_hash_mix_uint32(@, Cleanhd(b))]
  IN IF IsLong(v) THEN One(caml_hash_mix_intnat(q.h, v.n))
     ELSE IF v.n # 0 THEN HashValue([q EXCEPT !.h = caml_hash_mix_uint32(@, v.n)], [b |-> b, n |-> 0], sz)
     ELSE IF IsForward(v) THEN q
     ELSE CASE Heap[b].tag = String -> One(caml_hash_mix_string(q.h, Heap[b].data))
            [] Heap[b].tag = Double -> One(caml_hash_mix_double(q.h, Heap[b].data[1]))
            [] Heap[b].tag = DoubleArray -> HashFloats(q, Heap[b].data)
            [] Heap[b].tag \in {Abstract, Cont} -> q
            [] Heap[b].tag = Object -> One(caml_hash_mix_intnat(q.h, Heap[b].fields[2].n))
            [] Heap[b].tag = Custom ->
                 IF Custs[Heap[b].data[1]].hash
                 THEN One(caml_hash_mix_uint32(q.h, Num(Heap[b].data[2]))) ELSE q
            [] Heap[b].tag = Closure -> Queued(HashCode(Head0, b), b, Heap[b].data[1] + 1, sz)
            [] OTHER -> Queued(Head0, b, 1, sz)

RECURSIVE HashLoop(_, _)
HashLoop(q, sz) ==
  IF q.queue = <<>> \/ q.num <= 0 THEN q.h
  ELSE HashLoop(HashValue([q EXCEPT !.queue = Tail(@)], Head(q.queue), sz), sz)
caml_hash(count, lim, v) ==
  LET sz == IF lim < 0 \/ lim > QueueSize THEN QueueSize ELSE lim
  IN HashLoop([queue |-> <<v>>, wr |-> 1, num |-> count, h |-> <<>>], sz)

(***************************************************************************)
(* Properties.                                                               *)
(***************************************************************************)
(* The order of values as a definition by recursion on their structure:      *)
(* -1, 0, 1, or 2 for unordered floats and 3 for values without an order.    *)
RECURSIVE Strip(_)
Strip(v) == IF IsForward(v) THEN Strip(Heap[v.b].fields[1]) ELSE v
FloatRef(tot, f, g) ==
  IF f = NaN \/ g = NaN THEN IF ~tot THEN 2 ELSE IF f = g THEN 0 ELSE IF f = NaN THEN -1 ELSE 1
  ELSE Sign(Num(f) - Num(g))
RECURSIVE Ref(_, _, _)
Ref(tot, a, b) ==
  LET p == Strip(a)
      q == Strip(b)
      P == Heap[p.b]
      Q == Heap[q.b]
      Class(v) == IF v.n # 0 THEN Closure ELSE Heap[v.b].tag
      Numeric(v) == IsLong(v) \/ (v.n = 0 /\ Class(v) = Custom /\ Custs[Heap[v.b].data[1]].ext)
      Value(v) == IF IsLong(v) THEN 2 * v.n ELSE Heap[v.b].data[2]
      First(D, R(_)) == IF \A i \in D : R(i) = 0 THEN 0
                        ELSE R(CHOOSE i \in D : R(i) # 0 /\ \A k \in D : R(k) # 0 => i <= k)
  IN CASE p = q /\ (tot \/ IsLong(p)) -> 0
       [] p # q /\ IsLong(p) /\ IsLong(q) -> Sign(p.n - q.n)
       [] IsLong(p) # IsLong(q) /\ Numeric(p) /\ Numeric(q) -> FloatRef(tot, Value(p), Value(q))
       [] IsLong(p) # IsLong(q) /\ ~(Numeric(p) /\ Numeric(q)) -> IF IsLong(p) THEN -1 ELSE 1
       [] OTHER ->
          IF Class(p) # Class(q) THEN Sign(Class(p) - Class(q))
          ELSE CASE Class(p) \in {Closure, Abstract, Cont} -> 3
                 [] Class(p) = String ->
                      IF P.data = Q.data THEN 0 ELSE IF IsPrefix(P.data, Q.data) THEN -1
                      ELSE IF IsPrefix(Q.data, P.data) THEN 1
                      ELSE First(DOMAIN P.data \cap DOMAIN Q.data, LAMBDA i : Sign(P.data[i] - Q.data[i]))
                 [] Class(p) \in {Double, DoubleArray} ->
                      IF Len(P.data) # Len(Q.data) THEN Sign(Len(P.data) - Len(Q.data))
                      ELSE First(DOMAIN P.data, LAMBDA i : FloatRef(tot, P.data[i], Q.data[i]))
                 [] Class(p) = Object -> Sign(P.fields[2].n - Q.fields[2].n)
                 [] Class(p) = Custom ->
                      IF Custs[P.data[1]].cmp # Custs[Q.data[1]].cmp THEN Sign(P.data[1] - Q.data[1])
                      ELSE IF Custs[P.data[1]].cmp = 0 THEN 3 ELSE FloatRef(tot, P.data[2], Q.data[2])
                 [] OTHER ->
                      IF Len(P.fields) # Len(Q.fields) THEN Sign(Len(P.fields) - Len(Q.fields))
                      ELSE First(DOMAIN P.fields, LAMBDA i : Ref(tot, P.fields[i], Q.fields[i]))

(* Whatever the depth of the values, and wherever a collection moves the     *)
(* blocks under the comparison, do_compare_val (compare.c) returns the order *)
(* of the values as they were: the leftmost difference decides.  It raises   *)
(* only for functional or abstract values, when its stack overflows, or when *)
(* a pending action raises.  The relational primitives read it accordingly:  *)
(* on NaN all but <> are false.                                              *)
ComparedRight ==
  result.kind \in {"int", "unordered"} =>
    LET c == Ref(total, x, y)
    IN IF total THEN caml_compare(result) = c
       ELSE /\ caml_equal(result) <=> (c = 0)
            /\ caml_notequal(result) <=> (c # 0)
            /\ caml_lessthan(result) <=> (c = -1)
            /\ caml_lessequal(result) <=> (c \in {-1, 0})
            /\ caml_greaterthan(result) <=> (c = 1)
            /\ caml_greaterequal(result) <=> (c \in {0, 1})

(* Values that compare equal have the same hash (stdlib/hashtbl.mli), for    *)
(* any count and limit of caml_hash: whether lazy values were forced, for    *)
(* both zeros and for all NaNs.                                              *)
HashAgrees ==
  total /\ result = Ret(0) =>
    \A c \in Counts : caml_hash(c[1], c[2], x) = caml_hash(c[1], c[2], y)
=============================================================================
